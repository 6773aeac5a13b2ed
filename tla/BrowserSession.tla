---------------------------- MODULE BrowserSession ----------------------------
(***************************************************************************)
(* The single-page client (frontend/app.js): what it knows of its user and *)
(* tokens, and how api, tryRefresh, login and logout change that while     *)
(* their answers come in any order.  Between two awaits the page runs      *)
(* alone.                                                                  *)
(*                                                                         *)
(* The server is the auth service as a client sees it: access tokens are   *)
(* good until they expire, whatever became of their session; a refresh     *)
(* token is read and then marked, in two steps (sessions.py, rotate), and  *)
(* every replica can read every session (RefreshSessions has the case that *)
(* it cannot).  An access token and the refresh token issued with it have  *)
(* one name.                                                               *)
(***************************************************************************)
EXTENDS Naturals

CONSTANTS
  Session,  \* logins that may ever succeed (bound)
  Token,    \* pairs of tokens (bound); numbers, so that a fresh random one can
            \* be the least never used
  Call,     \* calls of api besides login and refresh (bound)
  None,
  Faults    \* "network"

ASSUME BrowserAssumption == /\ Token \subseteq Nat
                            /\ None \notin Session \cup Token

VARIABLES
  access, refresh,  \* state.access, state.refresh
  user,             \* state.user, as the login it came from; None: login screen
  login,            \* how far each login is
  first,            \* the tokens it was answered with
  of, rtk,          \* session and state of each refresh token
  expired,          \* access tokens past their exp
  alive,            \* sessions in Redis
  pc, kind,         \* each call: how far it is, and what it asks for
  bearer,           \* the token in its header
  again,            \* opts.noRefresh: it is the retry
  asked,            \* the refresh token its tryRefresh sent
  got,              \* the tokens that was answered with
  stale,            \* history: calls whose refresh another login or a sign-out
                    \* overtook
  late,             \* history: the answer to one of these was applied since
  doubled,          \* history: refresh tokens two calls had under way at once
  failed            \* history: calls that met a fault

page   == <<access, refresh, user, stale, late>>
server == <<of, rtk, expired, alive>>
logins == <<login, first>>
vars   == <<page, server, logins, pc, kind, bearer, again, asked, got, doubled,
            failed>>

Kind       == {"load", "transfer", "logout"}
Refreshing == {"refreshing", "rotating", "granted", "refused"}

Init ==
  /\ access = None /\ refresh = None /\ user = None
  /\ login   = [s \in Session |-> "new"]
  /\ first   = [s \in Session |-> None]
  /\ of      = [t \in Token |-> None]
  /\ rtk     = [t \in Token |-> "absent"]
  /\ expired = {} /\ alive = {}
  /\ pc      = [c \in Call |-> "idle"]
  /\ kind    \in [Call -> Kind]
  /\ bearer  = [c \in Call |-> None]
  /\ again   = [c \in Call |-> FALSE]
  /\ asked   = [c \in Call |-> None]
  /\ got     = [c \in Call |-> None]
  /\ stale = {} /\ late = FALSE /\ doubled = {} /\ failed = {}

Goto(c, from, to) == pc[c] = from /\ pc' = [pc EXCEPT ![c] = to]

-----------------------------------------------------------------------------
(* The page *)

Overtake == /\ stale' = stale \cup {c \in Call : pc[c] \in Refreshing}
            /\ late' = FALSE

\* Mutant: the refresh token stays.
ResetAccess == /\ access' = None /\ user' = None
               /\ Overtake
               /\ UNCHANGED refresh

\* logout, once it needs the server no more: a new state, and the login screen.
Reset == /\ access' = None /\ refresh' = None /\ user' = None
         /\ Overtake

\* Mutant: the user is the token, its claims not read.
EnterUnparsed(s) ==
  /\ login[s] = "opened"
  /\ login' = [login EXCEPT ![s] = "entered"]
  /\ access' = first[s] /\ refresh' = first[s] /\ user' = first[s]
  /\ Overtake
  /\ UNCHANGED <<server, first, pc, kind, bearer, again, asked, got, doubled, failed>>

\* login and mfaVerify: applyTokens, enterApp.
Enter(s) ==
  /\ login[s] = "opened"
  /\ login' = [login EXCEPT ![s] = "entered"]
  /\ access' = first[s] /\ refresh' = first[s] /\ user' = s
  /\ Overtake
  /\ UNCHANGED <<server, first, pc, kind, bearer, again, asked, got, doubled, failed>>

SubmitLogin(s) ==
  /\ user = None
  /\ login[s] = "new"
  /\ login' = [login EXCEPT ![s] = "asked"]
  /\ UNCHANGED <<page, server, first, pc, kind, bearer, again, asked, got, doubled,
                 failed>>

\* api: the header is made from what the state is now.  The hash router loads
\* pages on the login screen too; the other two need the app.
Send(c) ==
  /\ Goto(c, "idle", "sent")
  /\ kind[c] # "load" => user # None
  /\ bearer' = [bearer EXCEPT ![c] = access]
  /\ UNCHANGED <<page, server, logins, kind, again, asked, got, doubled, failed>>

\* The call is over, whatever came back; a logout empties the state.
Done(c, from) ==
  /\ Goto(c, from, "done")
  /\ IF kind[c] = "logout" THEN Reset ELSE UNCHANGED page
  /\ UNCHANGED <<server, logins, kind, bearer, again, asked, got, doubled, failed>>

ReceiveOk(c) == Done(c, "ok")

ReceiveError(c) == Done(c, "error")

\* A 401 that nothing is done about.
ReceiveDenied(c) == (again[c] \/ refresh = None) /\ Done(c, "denied")

\* Refresh with token t.
Ask(c, t) ==
  /\ Goto(c, "denied", "refreshing")
  /\ asked' = [asked EXCEPT ![c] = t]
  /\ doubled' = IF \E q \in Call : pc[q] \in Refreshing /\ asked[q] = t
                THEN doubled \cup {t} ELSE doubled
  /\ UNCHANGED <<page, server, logins, kind, bearer, again, got, failed>>

\* Mutant: the refresh token that came with the call's own access token.
TryRefreshOwn(c) ==
  /\ ~again[c] /\ refresh # None
  /\ Ask(c, IF bearer[c] = None THEN refresh ELSE bearer[c])

\* tryRefresh, with the refresh token the state has now, whoever else sent it.
TryRefresh(c) == ~again[c] /\ refresh # None /\ Ask(c, refresh)

\* The tokens are those of the answer, and the call is sent again with them.
Refreshed(c) ==
  /\ Goto(c, "granted", "sent")
  /\ access' = got[c] /\ refresh' = got[c]
  /\ late' = (late \/ c \in stale)
  /\ bearer' = [bearer EXCEPT ![c] = got[c]]
  /\ again' = [again EXCEPT ![c] = TRUE]
  /\ UNCHANGED <<user, stale, server, logins, kind, asked, got, doubled, failed>>

\* tryRefresh: any other answer signs the page's user out.
SignOut(c) ==
  /\ Goto(c, "refused", "done")
  /\ Reset
  /\ UNCHANGED <<server, logins, kind, bearer, again, asked, got, doubled, failed>>

\* The console's kill-sessions button: logout(false) by a timer, whoever the
\* page's user is by then.
KillSessions ==
  /\ \E s \in Session : login[s] = "entered"
  /\ Reset
  /\ UNCHANGED <<server, logins, pc, kind, bearer, again, asked, got, doubled, failed>>

-----------------------------------------------------------------------------
(* The server *)

\* A fresh pair for session s.
Issue(s, t) == /\ of[t] = None /\ \A u \in Token : of[u] = None => t <= u
               /\ of' = [of EXCEPT ![t] = s]

OpenSession(s) ==
  /\ login[s] = "asked"
  /\ login' = [login EXCEPT ![s] = "opened"]
  /\ \E t \in Token : /\ Issue(s, t)
                      /\ rtk' = [rtk EXCEPT ![t] = "live"]
                      /\ first' = [first EXCEPT ![s] = t]
  /\ alive' = alive \cup {s}
  /\ UNCHANGED <<page, expired, pc, kind, bearer, again, asked, got, doubled, failed>>

Valid(t) == t # None /\ t \notin expired

Serve(c) ==
  /\ Goto(c, "sent", "ok")
  /\ Valid(bearer[c])
  /\ alive' = IF kind[c] = "logout" THEN alive \ {of[bearer[c]]} ELSE alive
  /\ UNCHANGED <<page, of, rtk, expired, logins, kind, bearer, again, asked, got,
                 doubled, failed>>

\* No token, an old one, or a transfer that wants MFA.
ServeDenied(c) ==
  /\ Goto(c, "sent", "denied")
  /\ Valid(bearer[c]) => kind[c] = "transfer"
  /\ UNCHANGED <<page, server, logins, kind, bearer, again, asked, got, doubled,
                 failed>>

\* rotate: reuse is refused, and marked so.
ReadUsed(c) ==
  /\ Goto(c, "refreshing", "refused")
  /\ rtk[asked[c]] = "used"
  /\ rtk' = [rtk EXCEPT ![asked[c]] = "compromised"]
  /\ UNCHANGED <<page, of, expired, alive, logins, kind, bearer, again, asked, got,
                 doubled, failed>>

ReadLive(c) ==
  /\ Goto(c, "refreshing", "rotating")
  /\ rtk[asked[c]] # "used"
  /\ UNCHANGED <<page, server, logins, kind, bearer, again, asked, got, doubled,
                 failed>>

\* The token is marked, a new one is issued, the session is there.
Rotate(c) ==
  /\ Goto(c, "rotating", "granted")
  /\ of[asked[c]] \in alive
  /\ \E t \in Token : /\ Issue(of[asked[c]], t)
                      /\ rtk' = [rtk EXCEPT ![asked[c]] = "used", ![t] = "live"]
                      /\ got' = [got EXCEPT ![c] = t]
  /\ UNCHANGED <<page, expired, alive, logins, kind, bearer, again, asked, doubled,
                 failed>>

\* The session is gone.  (So is the token issued before that was noticed.)
RotateRefused(c) ==
  /\ Goto(c, "rotating", "refused")
  /\ of[asked[c]] \notin alive
  /\ rtk' = [rtk EXCEPT ![asked[c]] = "used"]
  /\ UNCHANGED <<page, of, expired, alive, logins, kind, bearer, again, asked, got,
                 doubled, failed>>

\* The access token's fifteen minutes are over.
ExpireAccess(t) ==
  /\ of[t] # None /\ t \notin expired
  /\ expired' = expired \cup {t}
  /\ UNCHANGED <<page, of, rtk, alive, logins, pc, kind, bearer, again, asked, got,
                 doubled, failed>>

\* A call or a refresh fails on its way, before the server did its part or after.
Break(c) ==
  /\ "network" \in Faults
  /\ \/ pc[c] \in {"sent", "ok"} /\ pc' = [pc EXCEPT ![c] = "error"]
     \/ pc[c] \in {"refreshing", "rotating", "granted"}
          /\ pc' = [pc EXCEPT ![c] = "refused"]
  /\ failed' = failed \cup {c}
  /\ UNCHANGED <<page, server, logins, kind, bearer, again, asked, got, doubled>>

-----------------------------------------------------------------------------
\* No answer is outstanding.
Quiescent == /\ \A c \in Call : pc[c] \in {"idle", "done"}
             /\ \A s \in Session : login[s] \in {"new", "entered"}
             /\ UNCHANGED vars

Step(c) ==
  \/ Send(c) \/ ReceiveOk(c) \/ ReceiveError(c) \/ ReceiveDenied(c) \/ TryRefresh(c)
  \/ Refreshed(c) \/ SignOut(c) \/ Serve(c) \/ ServeDenied(c) \/ ReadUsed(c)
  \/ ReadLive(c) \/ Rotate(c) \/ RotateRefused(c) \/ Break(c)

Next == \/ \E c \in Call : Step(c)
        \/ \E s \in Session : SubmitLogin(s) \/ OpenSession(s) \/ Enter(s)
        \/ \E t \in Token : ExpireAccess(t)
        \/ KillSessions
        \/ Quiescent

Spec == Init /\ [][Next]_vars

-----------------------------------------------------------------------------
(* Properties *)

\* Every variable has its type.
TypeOK ==
  /\ access \in Token \cup {None} /\ refresh \in Token \cup {None}
  /\ user    \in Session \cup {None}
  /\ login   \in [Session -> {"new", "asked", "opened", "entered"}]
  /\ first   \in [Session -> Token \cup {None}]
  /\ of      \in [Token -> Session \cup {None}]
  /\ rtk     \in [Token -> {"absent", "live", "used", "compromised"}]
  /\ expired \subseteq Token /\ alive \subseteq Session
  /\ pc      \in [Call -> Refreshing \cup {"idle", "sent", "ok", "denied", "error",
                                           "done"}]
  /\ kind    \in [Call -> Kind]
  /\ again   \in [Call -> BOOLEAN]
  /\ bearer  \in [Call -> Token \cup {None}]
  /\ asked   \in [Call -> Token \cup {None}]
  /\ got     \in [Call -> Token \cup {None}]
  /\ stale \subseteq Call /\ failed \subseteq Call /\ doubled \subseteq Token
  /\ late \in BOOLEAN

\* The page acts for the user it shows: its tokens are those of that user's
\* login, and on the login screen it has none, unless the answer to a refresh
\* was applied that a sign-out or another login had overtaken (tryRefresh does
\* not look whose tokens it asked for).
TokensAreTheUsers ==
  late \/ \A t \in {access, refresh} :
            IF user = None THEN t = None ELSE t # None /\ of[t] = user

\* The program signs its user out only if the session was ended, the refresh
\* failed on its way, or two calls had sent one refresh token at once (any two
\* whose answers say 401, as refreshAll's do).
SignedOutForCause ==
  [][\A c \in Call : pc[c] = "refused" /\ pc'[c] = "done" =>
       \/ c \in failed
       \/ of[asked[c]] \notin alive
       \/ asked[c] \in doubled]_vars
=============================================================================
