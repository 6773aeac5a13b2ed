----------------------------- MODULE LoginGuards -----------------------------
(***************************************************************************)
(* Registering, logging in, MFA enrolment and MFA verification in the auth *)
(* service (routes_auth.py, repo.py): the rows of the users table, the     *)
(* failure counter and lock, and the Redis counter that throttles codes.   *)
(*                                                                         *)
(* Replicas may hold different signing keys (keyring_from_env) and session *)
(* keys (init_state).  Passwords and codes are right or wrong; how a       *)
(* session and its tokens are written is RefreshSessions' subject.         *)
(* Branches no state of the code reaches are left out: nobody unenrols, so *)
(* a pre-auth token's user is always enrolled.                             *)
(***************************************************************************)
EXTENDS Naturals, FiniteSets

CONSTANTS
  User,         \* e-mail addresses
  Replica, Key, \* replicas, and the keys they may hold
  Req,          \* the requests that may ever arrive (bound)
  MaxFails,     \* record_login_failure's max_fails
  MaxAttempts,  \* settings.mfa_verify_max_attempts
  NoKey, NoUser, NoReplica,
  Faults        \* "failure", "expiry"

ASSUME LoginGuardsAssumption ==
  /\ NoKey \notin Key
  /\ NoUser \notin User
  /\ NoReplica \notin Replica
  /\ MaxFails \in Nat \ {0}
  /\ MaxAttempts \in Nat \ {0}

VARIABLES
  ring, seal,   \* each replica's signing key and session key
  registered,   \* users table: e-mails with a committed row
  failed,       \* column failed_logins
  locked,       \* users whose lock_until lies ahead
  secret,       \* the session key a user's MFA secret is sealed with
  count, timed, \* Redis mfa:verify:*: the counter, and whether it has a TTL
  pre,          \* pre-auth tokens that have not expired: <<user, key>>
  pc, kind, who, at,  \* the handlers: where, which, whose, on which replica
  key,          \* the key that signed the token a verification presents
  draft,        \* a login's uncommitted failed_logins; MaxFails is
                \* short for 0 and a lock_until
  answer,       \* what each caller was told
  fails,        \* history: logins refused since a user's last success
                \* (bound: MaxFails)
  admitted,     \* history: codes let through since the counter started
  orphaned,     \* history: the counter's handler died before EXPIRE
  overtaken     \* history: requests that another one's commit overtook
                \* after they had read the user's row

keys     == <<ring, seal>>
users    == <<registered, failed, locked, secret>>
throttle == <<count, timed>>
handlers == <<pc, kind, who, at, key, draft, answer>>
history  == <<fails, admitted, orphaned, overtaken>>
vars     == <<keys, users, throttle, pre, handlers, history>>

Kind     == {"none", "register", "login", "verify", "enroll"}
InFlight == {"looking", "creating", "created", "reading", "failing", "refusing",
             "opening", "challenging", "counting", "expiring", "decoding",
             "checking", "enrolling"}
PC       == InFlight \cup {"idle", "answered"}
Answer   == {"none", "accepted", "invalid", "locked", "challenge", "session",
             "bare session", "throttled", "enrolled",
             "error", "phone taken", "failure"}

Init == /\ ring \in [Replica -> Key]
        /\ seal \in [Replica -> Key]
        /\ registered \in SUBSET User
        /\ locked \in SUBSET registered     \* locked by hand, or by another release
        /\ secret \in [User -> Key \cup {NoKey}]
        /\ \A u \in User : secret[u] # NoKey => u \in registered
        /\ failed    = [u \in User |-> 0]
        /\ count     = 0
        /\ timed     = FALSE
        /\ pre \in SUBSET ({u \in User : secret[u] # NoKey} \X Key)  \* others' too
        /\ pc        = [r \in Req |-> "idle"]
        /\ kind      = [r \in Req |-> "none"]
        /\ who       = [r \in Req |-> NoUser]
        /\ at        = [r \in Req |-> NoReplica]
        /\ key       = [r \in Req |-> NoKey]
        /\ draft     = [r \in Req |-> 0]
        /\ answer    = [r \in Req |-> "none"]
        /\ fails     = [u \in User |-> 0]
        /\ admitted  = 0
        /\ orphaned  = FALSE
        /\ overtaken = {}

-----------------------------------------------------------------------------
(* Helpers *)

Goto(r, from, to) == pc[r] = from /\ pc' = [pc EXCEPT ![r] = to]

\* A step of a handler that goes on, and its last one.
Step(r, from, to) == /\ Goto(r, from, to)
                     /\ UNCHANGED <<keys, kind, who, at, key, answer>>

Reply(r, from, a) == /\ Goto(r, from, "answered")
                     /\ answer' = [answer EXCEPT ![r] = a]
                     /\ UNCHANGED <<keys, kind, who, at, key>>

\* The same, and nothing shared is written.
Moves(r, from, to) == Step(r, from, to) /\ UNCHANGED <<users, throttle, pre, draft, history>>

Says(r, from, a) == Reply(r, from, a) /\ UNCHANGED <<users, throttle, pre, draft, history>>

Arrives(r, k, u, to) == /\ Goto(r, "idle", to)
                        /\ kind' = [kind EXCEPT ![r] = k]
                        /\ who' = [who EXCEPT ![r] = u]
                        /\ \E p \in Replica : at' = [at EXCEPT ![r] = p]
                        /\ UNCHANGED <<keys, users, throttle, pre, draft, answer, history>>

\* Requests about u that have read its row, and go on from what they read.
Overtakes(u) == overtaken' = overtaken \cup
  {q \in Req : who[q] = u /\ pc[q] \in {"creating", "failing", "opening", "challenging"}}

-----------------------------------------------------------------------------
(* POST /register *)

Register(r, u) ==
  /\ Arrives(r, "register", u, "looking")
  /\ UNCHANGED key

\* Mutant: the audit record's outcome returned to the caller.
RegisterRejected(r, breached) ==
  /\ Says(r, "looking", IF breached THEN "rejected" ELSE "ignored")
  /\ breached \/ who[r] \in registered

\* A breached password, or an e-mail that has a row: the same 202.
RegisterIgnored(r, breached) ==
  /\ Says(r, "looking", "accepted")
  /\ breached \/ who[r] \in registered

\* Mutant: INSERT without looking for the e-mail first.
LookUpUnchecked(r) == Moves(r, "looking", "creating")

LookUp(r) ==
  /\ Moves(r, "looking", "creating")
  /\ who[r] \notin registered

\* INSERT, flushed: it waits for another uncommitted row of the same e-mail.
Create(r) ==
  /\ Moves(r, "creating", "created")
  /\ who[r] \notin registered
  /\ ~ \E q \in Req : pc[q] = "created" /\ who[q] = who[r]

\* IntegrityError, which nothing handles.
CreateRaises(r) ==
  /\ Says(r, "creating", "error")
  /\ who[r] \in registered

\* The same for the phone number, which is unique as well: another user's row
\* has it.  (An error like the other; told apart for RegistrationsAlike.)
PhoneTaken(r) == Says(r, "creating", "phone taken")

CommitUser(r) ==
  /\ Reply(r, "created", "accepted")
  /\ registered' = registered \cup {who[r]}
  /\ Overtakes(who[r])
  /\ UNCHANGED <<failed, locked, secret, throttle, pre, draft, fails, admitted, orphaned>>

-----------------------------------------------------------------------------
(* POST /login *)

Login(r, u) ==
  /\ Arrives(r, "login", u, "reading")
  /\ UNCHANGED key

\* SELECT, then the password.  Without a row there is nothing to count.
RefuseUnknown(r) ==
  /\ Says(r, "reading", "invalid")
  /\ who[r] \notin registered

\* A wrong password, or a deactivated user, whether locked or not.
RefusePassword(r) ==
  /\ Step(r, "reading", "failing")
  /\ who[r] \in registered
  /\ draft' = [draft EXCEPT ![r] = failed[who[r]] + 1]
  /\ UNCHANGED <<users, throttle, pre, history>>

\* record_login_failure: UPDATE, flushed.  It holds the row until the end of
\* the transaction.
RecordFailure(r) ==
  /\ Moves(r, "failing", "refusing")
  /\ ~ \E q \in Req : pc[q] = "refusing" /\ who[q] = who[r]

\* raise HTTPException(401) inside `async with s.begin()`: the transaction,
\* and the recorded failure with it, is rolled back.
RaiseInvalid(r) ==
  /\ Reply(r, "refusing", "invalid")
  /\ fails' = [fails EXCEPT ![who[r]] = IF @ < MaxFails THEN @ + 1 ELSE @]
  /\ draft' = [draft EXCEPT ![r] = 0]
  /\ UNCHANGED <<users, throttle, pre, admitted, orphaned, overtaken>>

RefuseLocked(r) ==
  /\ Says(r, "reading", "locked")
  /\ who[r] \in locked

\* Mutant: mfa_enabled is not looked at.
PasswordAlone(r) ==
  /\ Moves(r, "reading", "opening")
  /\ who[r] \in registered \ locked

\* Right password, not locked: on to MFA or to a session, by the row read.
PasswordOk(r) ==
  /\ Moves(r, "reading", IF secret[who[r]] = NoKey THEN "opening" ELSE "challenging")
  /\ who[r] \in registered \ locked

\* clear_login_failures, committed with the rest.
Clear(u) == /\ failed' = [failed EXCEPT ![u] = 0]
            /\ locked' = locked \ {u}
            /\ fails' = [fails EXCEPT ![u] = 0]

\* The pre-auth token, good for 300 seconds, signed by this replica's key.
Challenge(r) ==
  /\ Reply(r, "challenging", "challenge")
  /\ pre' = pre \cup {<<who[r], ring[at[r]]>>}
  /\ Clear(who[r])
  /\ UNCHANGED <<registered, secret, throttle, draft, admitted, orphaned, overtaken>>

\* No MFA: a full session.
OpenSession(r) ==
  /\ Reply(r, "opening", IF secret[who[r]] = NoKey THEN "session" ELSE "bare session")
  /\ Clear(who[r])
  /\ UNCHANGED <<registered, secret, throttle, pre, draft, admitted, orphaned, overtaken>>

-----------------------------------------------------------------------------
(* POST /mfa/verify *)

\* A token whose first 32 characters are those of every token here.  It may have
\* expired; with NoKey no replica's key verifies it, or it is of another type.
\* (Any other counts on a name of its own and is refused.)
Token == User \X (Key \cup {NoKey})

Present(r, t) ==
  /\ Arrives(r, "verify", t[1], "counting")
  /\ key' = [key EXCEPT ![r] = t[2]]

\* Mutant: >= for >.
CountOneMore(r) ==
  /\ count <= MaxAttempts
  /\ Step(r, "counting", IF count = 0 THEN "expiring" ELSE "decoding")
  /\ count' = count + 1
  /\ admitted' = admitted + 1
  /\ UNCHANGED <<users, timed, pre, draft, fails, orphaned, overtaken>>

\* Mutant: EXPIRE when INCR returns the maximum plus one.
CountUntimed(r) ==
  /\ count < MaxAttempts
  /\ Step(r, "counting", IF count = MaxAttempts THEN "expiring" ELSE "decoding")
  /\ count' = count + 1
  /\ admitted' = admitted + 1
  /\ UNCHANGED <<users, timed, pre, draft, fails, orphaned, overtaken>>

\* INCR.  The counter's name ends in the first 32 characters of the token,
\* {"typ":"JWT","alg":"RS25 in base64: one counter for all pre-auth tokens.
Count(r) ==
  /\ count < MaxAttempts
  /\ Step(r, "counting", IF count = 0 THEN "expiring" ELSE "decoding")
  /\ count' = count + 1
  /\ admitted' = admitted + 1
  /\ UNCHANGED <<users, timed, pre, draft, fails, orphaned, overtaken>>

\* Beyond the maximum the counter still goes up (abstracted: all values above
\* the maximum are one).
Throttle(r) ==
  /\ count >= MaxAttempts
  /\ Reply(r, "counting", "throttled")
  /\ count' = MaxAttempts + 1
  /\ UNCHANGED <<users, timed, pre, draft, history>>

\* EXPIRE, by the handler whose INCR made the counter.
SetExpiry(r) ==
  /\ Step(r, "expiring", "decoding")
  /\ timed' = TRUE
  /\ UNCHANGED <<users, count, pre, draft, history>>

\* Only this replica's own signing key will do, only for 300 seconds, and only for
\* a pre-auth token.
RefuseToken(r) ==
  /\ Says(r, "decoding", "invalid")
  /\ key[r] # ring[at[r]] \/ <<who[r], key[r]>> \notin pre

DecodeToken(r) ==
  /\ Moves(r, "decoding", "checking")
  /\ key[r] = ring[at[r]] /\ <<who[r], key[r]>> \in pre

\* A secret sealed by a replica with another session key: InvalidTag.
SecretUnreadable(r) ==
  /\ Says(r, "checking", "error")
  /\ secret[who[r]] # seal[at[r]]

CheckCode(r, right) ==
  /\ Says(r, "checking", IF right THEN "session" ELSE "invalid")
  /\ secret[who[r]] = seal[at[r]]

-----------------------------------------------------------------------------
(* POST /mfa/enroll *)

Enroll(r, u) ==
  /\ Arrives(r, "enroll", u, "enrolling")
  /\ UNCHANGED key

\* A new secret, sealed with this replica's session key, replaces any other.
SaveSecret(r) ==
  /\ Reply(r, "enrolling", "enrolled")
  /\ who[r] \in registered
  /\ secret' = [secret EXCEPT ![who[r]] = seal[at[r]]]
  /\ Overtakes(who[r])
  /\ UNCHANGED <<registered, failed, locked, throttle, pre, draft, fails, admitted, orphaned>>

-----------------------------------------------------------------------------
(* Time and faults *)

\* 15 minutes after EXPIRE.
ExpireCounter ==
  /\ timed
  /\ count' = 0
  /\ timed' = FALSE
  /\ admitted' = 0
  /\ UNCHANGED <<keys, users, pre, handlers, fails, orphaned, overtaken>>

ExpireToken(t) ==
  /\ "expiry" \in Faults
  /\ pre' = pre \ {t}
  /\ UNCHANGED <<keys, users, throttle, handlers, history>>

ExpireLock(u) ==
  /\ "expiry" \in Faults
  /\ u \in locked
  /\ locked' = locked \ {u}
  /\ UNCHANGED <<keys, registered, failed, secret, throttle, pre, handlers, history>>

\* An exception or a crash at any await; open transactions are rolled back.
Fail(r) ==
  /\ "failure" \in Faults
  /\ pc[r] \in InFlight
  /\ Reply(r, pc[r], "failure")
  /\ draft' = [draft EXCEPT ![r] = 0]
  /\ orphaned' = (orphaned \/ pc[r] = "expiring")
  /\ UNCHANGED <<users, throttle, pre, fails, admitted, overtaken>>

Quiescent == /\ \A r \in Req : pc[r] = "answered"
             /\ UNCHANGED vars

Handle(r) == \/ \E b \in BOOLEAN : RegisterIgnored(r, b)
             \/ LookUp(r) \/ Create(r) \/ CreateRaises(r)
             \/ PhoneTaken(r) \/ CommitUser(r)
             \/ RefuseUnknown(r) \/ RefusePassword(r) \/ RecordFailure(r)
             \/ RaiseInvalid(r) \/ RefuseLocked(r) \/ PasswordOk(r)
             \/ Challenge(r) \/ OpenSession(r)
             \/ Count(r) \/ Throttle(r) \/ SetExpiry(r)
             \/ RefuseToken(r) \/ DecodeToken(r) \/ SecretUnreadable(r)
             \/ \E right \in BOOLEAN : CheckCode(r, right)
             \/ SaveSecret(r)

Next == \/ \E r \in Req :
              \/ \E u \in User : Register(r, u) \/ Login(r, u)
              \/ \E u \in registered : Enroll(r, u)
              \/ \E t \in Token : Present(r, t)
              \/ Handle(r) \/ Fail(r)
        \/ ExpireCounter
        \/ \E t \in pre : ExpireToken(t)
        \/ \E u \in User : ExpireLock(u)
        \/ Quiescent

Spec == Init /\ [][Next]_vars

-----------------------------------------------------------------------------
(* Properties *)

\* Every variable has its type.
TypeOK ==
  /\ ring \in [Replica -> Key]
  /\ seal \in [Replica -> Key]
  /\ registered \in SUBSET User
  /\ failed \in [User -> Nat]
  /\ locked \in SUBSET User
  /\ secret \in [User -> Key \cup {NoKey}]
  /\ count  \in Nat
  /\ timed  \in BOOLEAN
  /\ pre    \in SUBSET (User \X Key)
  /\ pc     \in [Req -> PC]
  /\ kind   \in [Req -> Kind]
  /\ who    \in [Req -> User \cup {NoUser}]
  /\ at     \in [Req -> Replica \cup {NoReplica}]
  /\ key    \in [Req -> Key \cup {NoKey}]
  /\ draft  \in [Req -> Nat]
  /\ answer \in [Req -> Answer]
  /\ fails  \in [User -> Nat]
  /\ admitted \in Nat
  /\ orphaned \in BOOLEAN
  /\ overtaken \in SUBSET Req

\* Between two expiries of the counter, no more than MaxAttempts codes get past
\* it, on all replicas together and however they interleave.
ThrottleBounds == admitted <= MaxAttempts

\* A counter that runs has a TTL, or its handler is about to set one, or died
\* before it could: INCR and EXPIRE are two commands.
CounterTimed ==
  count > 0 =>
    timed \/ orphaned \/ \E r \in Req : pc[r] = "expiring"

\* A session without MFA goes to an enrolled user only if the enrolment
\* overtook the login, which had read the row before.
EnrolledMeansMfa ==
  \A r \in Req : answer[r] = "bare session" => r \in overtaken

\* "Same unified 202 response": registrations that no fault ends are answered
\* alike, with two exceptions: another registration of the e-mail committed
\* between this one's SELECT and INSERT, or the phone number was taken.
RegistrationsAlike ==
  \A r \in Req : kind[r] = "register" /\ pc[r] = "answered" =>
    \/ answer[r] \in {"accepted", "phone taken", "failure"}
    \/ answer[r] = "error" /\ r \in overtaken

\* docs/01_SRD.md:35, FSR-08, "5 failed attempts -> 15 min lock": a user with
\* that many refused logins since the last success is locked.
LockedAfterFailures ==
  \A u \in User : fails[u] >= MaxFails => u \in locked
=============================================================================
