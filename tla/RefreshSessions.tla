--------------------------- MODULE RefreshSessions ---------------------------
(***************************************************************************)
(* Sessions and refresh tokens: SessionStore and RefreshTokenStore         *)
(* (sessions.py) under the login, refresh and logout handlers of the auth  *)
(* service (routes_auth.py).                                               *)
(*                                                                         *)
(* Both stores are Redis keys.  Every GET, SET and DELETE is one step, and *)
(* the handlers of all replicas interleave between them: nothing in the    *)
(* code makes a GET and the SET that follows it one operation.             *)
(* The checks a login makes before it creates a session are not modelled   *)
(* here.                                                                   *)
(***************************************************************************)
EXTENDS Naturals

CONSTANTS
  Sid,        \* random session ids (bound: logins)
  Token,      \* refresh tokens (bound: logins plus rotations); numbers, so
              \* that a fresh random one can be the least never used
  Req,        \* the requests that may ever arrive (bound)
  Domain,     \* sets of replicas with one session key: a single one when
              \* SB_SESSION_KEY_HEX is set, one per process otherwise
  NoSid, NoToken, NoDomain,
  Faults      \* "failure", "expiry"

ASSUME RefreshSessionsAssumption ==
  /\ NoSid \notin Sid
  /\ Token \subseteq Nat
  /\ NoToken \notin Token
  /\ NoDomain \notin Domain

VARIABLES
  sess,       \* sb:sess: the session ids with a live key
  sealed,     \* the domain whose key each session was encrypted with
  state,      \* sb:rtk: third field of each token's value, or "absent"
  family,     \* second field: the session a token was issued for
  pc,         \* where each handler is
  tok,        \* the token each refresh presents
  sid,        \* the session each handler works on
  at,         \* the domain whose replica serves each request
  answer,     \* what each caller was told
  revoked,    \* history: sessions that a logout deleted
  raced,      \* history: sessions with an overlapping or repeated rotation
  held        \* history: sessions deleted while a refresh held a copy

tokens  == <<state, family>>
history == <<revoked, raced, held>>
vars    == <<sess, sealed, tokens, pc, tok, sid, at, answer, history>>

TokenState == {"absent", "live", "used", "compromised"}
InFlight   == {"tokening", "reading", "burning", "marking", "issuing",
               "looking", "sliding", "discarding", "granting"}
PC         == InFlight \cup {"idle", "answered"}
Answer     == {"none", "granted", "refused", "ended", "error"}

issued  == {t \in Token : family[t] # NoSid}
created == {s \in Sid : \E r \in Req : sid[r] = s}

Init == /\ sess    = {}
        /\ sealed  = [s \in Sid |-> NoDomain]
        /\ state   = [t \in Token |-> "absent"]
        /\ family  = [t \in Token |-> NoSid]
        /\ pc      = [r \in Req |-> "idle"]
        /\ tok     = [r \in Req |-> NoToken]
        /\ sid     = [r \in Req |-> NoSid]
        /\ at     \in [Req -> Domain]
        /\ answer  = [r \in Req |-> "none"]
        /\ revoked = {}
        /\ raced   = {}
        /\ held    = {}

Goto(r, from, to) == pc[r] = from /\ pc' = [pc EXCEPT ![r] = to]

Reply(r, from, a) == /\ Goto(r, from, "answered")
                     /\ answer' = [answer EXCEPT ![r] = a]

\* RefreshTokenStore.issue: a fresh token, live, for session s.
Issue(s) == \E t \in Token \ issued :
              /\ \A u \in Token \ issued : t <= u
              /\ family' = [family EXCEPT ![t] = s]
              /\ state'  = [state EXCEPT ![t] = "live"]

\* Overwriting a token's value, whatever it is by now.
SetState(t, v) == state' = [state EXCEPT ![t] = v]

-----------------------------------------------------------------------------
(* Login and MFA verification: create the session, then issue a token. *)

CreateSession(r) ==
  \E s \in Sid \ created :
    /\ Goto(r, "idle", "tokening")
    /\ sess' = sess \cup {s}
    /\ sealed' = [sealed EXCEPT ![s] = at[r]]
    /\ sid' = [sid EXCEPT ![r] = s]
    /\ UNCHANGED <<tokens, tok, answer, history, at>>

FirstToken(r) ==
  /\ Reply(r, "tokening", "granted")
  /\ Issue(sid[r])
  /\ UNCHANGED <<sess, tok, sid, history, sealed, at>>

-----------------------------------------------------------------------------
(* POST /token/refresh *)

\* Any token ever issued may be presented, more than once.
Present(r, t) ==
  /\ Goto(r, "idle", "reading")
  /\ tok' = [tok EXCEPT ![r] = t]
  /\ UNCHANGED <<sess, tokens, sid, answer, history, sealed, at>>

\* rotate: GET of the presented token.
TokenGone(r) ==
  /\ Reply(r, "reading", "refused")
  /\ state[tok[r]] = "absent"
  /\ UNCHANGED <<sess, tokens, tok, sid, history, sealed, at>>

\* Only "used" counts as reuse; any other value is taken for a live token.
\* History: the session is raced when another refresh has read the token and
\* not yet marked it, or when the token was burned before.
ReadToken(r) ==
  LET t == tok[r] IN
  /\ pc[r] = "reading" /\ state[t] # "absent"
  /\ Goto(r, "reading", IF state[t] = "used" THEN "burning" ELSE "marking")
  /\ sid' = [sid EXCEPT ![r] = family[t]]
  /\ raced' = IF \/ state[t] = "compromised"
                 \/ \E q \in Req \ {r} : pc[q] = "marking" /\ tok[q] = t
              THEN raced \cup {family[t]}
              ELSE raced
  /\ UNCHANGED <<sess, tokens, tok, answer, revoked, held, sealed, at>>

\* Mutant: a state that nobody reads.
BurnUnknown(r) ==
  /\ Reply(r, "burning", "refused")
  /\ SetState(tok[r], "burned")
  /\ UNCHANGED <<sess, family, tok, sid, history, sealed, at>>

\* Reuse: the presented token, and nothing else, is marked compromised.
Burn(r) ==
  /\ Reply(r, "burning", "refused")
  /\ SetState(tok[r], "compromised")
  /\ UNCHANGED <<sess, family, tok, sid, history, sealed, at>>

\* Mutant: the next token is issued without marking this one.
MarkUsedForgotten(r) ==
  /\ Goto(r, "marking", "issuing")
  /\ UNCHANGED <<sess, tokens, tok, sid, answer, history, sealed, at>>

MarkUsed(r) ==
  /\ Goto(r, "marking", "issuing")
  /\ SetState(tok[r], "used")
  /\ UNCHANGED <<sess, family, tok, sid, answer, history, sealed, at>>

IssueNext(r) ==
  /\ Goto(r, "issuing", "looking")
  /\ Issue(sid[r])
  /\ UNCHANGED <<sess, tok, sid, answer, history, sealed, at>>

\* sessions.get: GET of the session, after the token was consumed.
SessionGone(r) ==
  /\ Reply(r, "looking", "refused")
  /\ sid[r] \notin sess
  /\ UNCHANGED <<sess, tokens, tok, sid, history, sealed, at>>

\* Mutant: a missing session is not noticed.
ReadSessionUnchecked(r) ==
  /\ Goto(r, "looking", "sliding")
  /\ UNCHANGED <<sess, tokens, tok, sid, answer, history, sealed, at>>

ReadSession(r) ==
  /\ pc[r] = "looking"
  /\ sid[r] \in sess /\ sealed[sid[r]] = at[r]
  /\ Goto(r, "looking", "sliding")
  /\ UNCHANGED <<sess, tokens, tok, sid, answer, history, sealed, at>>

\* A session sealed with another key cannot be decrypted: it is deleted.
Undecryptable(r) ==
  /\ pc[r] = "looking"
  /\ sid[r] \in sess /\ sealed[sid[r]] # at[r]
  /\ Goto(r, "looking", "discarding")
  /\ UNCHANGED <<sess, tokens, tok, sid, answer, history, sealed, at>>

Discard(r) ==
  /\ Reply(r, "discarding", "refused")
  /\ sess' = sess \ {sid[r]}
  /\ UNCHANGED <<tokens, tok, sid, history, sealed, at>>

\* sessions.get, sliding refresh: SET of the copy read before.
Slide(r) ==
  /\ Goto(r, "sliding", "granting")
  /\ sess' = sess \cup {sid[r]}
  /\ UNCHANGED <<tokens, tok, sid, answer, history, sealed, at>>

Grant(r) ==
  /\ Reply(r, "granting", "granted")
  /\ UNCHANGED <<sess, tokens, tok, sid, history, sealed, at>>

-----------------------------------------------------------------------------
(* POST /logout: the gateway passes the session id on; DELETE. *)

Logout(r, s) ==
  /\ Reply(r, "idle", "ended")
  /\ sess' = sess \ {s}
  /\ sid' = [sid EXCEPT ![r] = s]
  /\ revoked' = revoked \cup {s}
  /\ held' = IF \E q \in Req : pc[q] = "sliding" /\ sid[q] = s
             THEN held \cup {s} ELSE held
  /\ UNCHANGED <<tokens, tok, raced, sealed, at>>

-----------------------------------------------------------------------------
(* Faults *)

\* An exception or a crash at any await; what was written stays written.
Fail(r) ==
  /\ "failure" \in Faults
  /\ pc[r] \in InFlight
  /\ Reply(r, pc[r], "error")
  /\ UNCHANGED <<sess, tokens, tok, sid, history, sealed, at>>

\* 15 idle minutes, 7 days.
ExpireSession(s) ==
  /\ "expiry" \in Faults
  /\ s \in sess
  /\ sess' = sess \ {s}
  /\ UNCHANGED <<tokens, pc, tok, sid, answer, history, sealed, at>>

ExpireToken(t) ==
  /\ "expiry" \in Faults
  /\ state[t] # "absent"
  /\ SetState(t, "absent")
  /\ UNCHANGED <<sess, family, pc, tok, sid, answer, history, sealed, at>>

Quiescent == /\ \A r \in Req : pc[r] = "answered"
             /\ UNCHANGED vars

Next == \/ \E r \in Req :
              \/ CreateSession(r) \/ FirstToken(r)
              \/ \E t \in issued : Present(r, t)
              \/ TokenGone(r) \/ ReadToken(r) \/ Burn(r) \/ MarkUsed(r)
              \/ IssueNext(r) \/ SessionGone(r) \/ ReadSession(r)
              \/ Undecryptable(r) \/ Discard(r)
              \/ Slide(r) \/ Grant(r)
              \/ \E s \in created : Logout(r, s)
              \/ Fail(r)
        \/ \E s \in Sid : ExpireSession(s)
        \/ \E t \in Token : ExpireToken(t)
        \/ Quiescent

Spec == Init /\ [][Next]_vars

-----------------------------------------------------------------------------
(* Properties *)

\* Every variable has its type.
TypeOK ==
  /\ sess   \in SUBSET Sid
  /\ sealed \in [Sid -> Domain \cup {NoDomain}]
  /\ state  \in [Token -> TokenState]
  /\ family \in [Token -> Sid \cup {NoSid}]
  /\ pc     \in [Req -> PC]
  /\ tok    \in [Req -> Token \cup {NoToken}]
  /\ sid    \in [Req -> Sid \cup {NoSid}]
  /\ at     \in [Req -> Domain]
  /\ answer \in [Req -> Answer]
  /\ revoked \in SUBSET Sid
  /\ raced   \in SUBSET Sid
  /\ held    \in SUBSET Sid

\* What rotation really gives: unless two rotations of one token overlapped,
\* or a burned token was presented again, a session has one live refresh
\* token at most.
OneLiveTokenPerSession ==
  \A t, u \in Token :
    /\ state[t] = "live" /\ state[u] = "live"
    /\ family[t] = family[u] /\ family[t] \notin raced
    => t = u

\* What logout really gives: unless a refresh held a copy of the session at
\* that moment, the session is gone for good.
LogoutIsFinal == \A s \in revoked : s \notin held => s \notin sess
=============================================================================
