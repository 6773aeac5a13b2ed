------------------------- MODULE LoginGuards_proofs -------------------------
(***************************************************************************)
(* Theorems about LoginGuards: types, the throttle of codes and its TTL,   *)
(* who gets a session without MFA, and what a registration gives away, for *)
(* any number of users, requests, replicas and keys.                       *)
(***************************************************************************)
EXTENDS LoginGuards, TLAPS

-----------------------------------------------------------------------------
(* Types.  A handler that has begun is about a user, on a replica. *)

Named == \A r \in Req : pc[r] # "idle" => who[r] \in User /\ at[r] \in Replica

TypeInv == TypeOK /\ Named

\* TypeInv in three parts: what a handler keeps to itself, the users' rows and
\* what is remembered of them, and the rest.
HandlerTypes ==
  /\ ring \in [Replica -> Key]
  /\ seal \in [Replica -> Key]
  /\ pc   \in [Req -> PC]
  /\ kind \in [Req -> Kind]
  /\ who  \in [Req -> User \cup {NoUser}]
  /\ at   \in [Req -> Replica \cup {NoReplica}]
  /\ key  \in [Req -> Key \cup {NoKey}]
  /\ answer \in [Req -> Answer]
  /\ Named

RowTypes ==
  /\ registered \in SUBSET User
  /\ locked \in SUBSET User
  /\ failed \in [User -> Nat]
  /\ fails \in [User -> Nat]
  /\ secret \in [User -> Key \cup {NoKey}]

RestTypes ==
  /\ count \in Nat
  /\ admitted \in Nat
  /\ timed \in BOOLEAN
  /\ orphaned \in BOOLEAN
  /\ pre \in SUBSET (User \X Key)
  /\ draft \in [Req -> Nat]
  /\ overtaken \in SUBSET Req

\* The type invariant in three parts.
LEMMA TypeParts ==
  /\ TypeInv <=> HandlerTypes /\ RowTypes /\ RestTypes
  /\ TypeInv' <=> HandlerTypes' /\ RowTypes' /\ RestTypes'
<1>1. TypeInv <=> HandlerTypes /\ RowTypes /\ RestTypes
  BY DEF TypeInv, TypeOK, HandlerTypes, RowTypes, RestTypes
<1>. QED  BY <1>1, PTL

\* The initial states are typed.
LEMMA TypeInit == Init => TypeInv
<1> SUFFICES ASSUME Init PROVE HandlerTypes /\ RowTypes /\ RestTypes
  BY TypeParts
<1>1. HandlerTypes
  BY DEF Init, HandlerTypes, Named, PC, InFlight, Kind, Answer
<1>2. RowTypes
  BY DEF Init, RowTypes
<1>3. RestTypes
  <2>1. pre \in SUBSET (User \X Key)  BY DEF Init
  <2>. QED  BY <2>1 DEF Init, RestTypes
<1>. QED  BY <1>1, <1>2, <1>3

\* A step of a handler keeps what the handler keeps to itself typed.
LEMMA StepTypes == ASSUME HandlerTypes, NEW r \in Req, NEW from, from # "idle",
                          NEW to \in PC, Step(r, from, to)
                   PROVE  HandlerTypes'
<1>1. Named'
  BY DEF HandlerTypes, Named, Step, Goto
<1>. QED  BY <1>1 DEF HandlerTypes, Step, Goto, keys

\* A reply keeps the handlers' types.
LEMMA ReplyTypes == ASSUME HandlerTypes, NEW r \in Req, NEW from, from # "idle",
                           NEW a \in Answer, Reply(r, from, a)
                    PROVE  HandlerTypes'
<1>1. Named'
  BY DEF HandlerTypes, Named, Reply, Goto
<1>. QED  BY <1>1 DEF HandlerTypes, Reply, Goto, keys, PC

\* The same of a step that writes nothing shared.
LEMMA MovesTypes == ASSUME TypeInv, NEW r \in Req, NEW from, from # "idle",
                           NEW to \in PC, Moves(r, from, to)
                    PROVE  TypeInv'
<1>1. HandlerTypes'  BY StepTypes, TypeParts DEF Moves
<1>2. RowTypes' /\ RestTypes'
  BY TypeParts DEF Moves, RowTypes, RestTypes, users, throttle, history
<1>. QED  BY <1>1, <1>2, TypeParts

\* So does a reply and nothing else.
LEMMA SaysTypes == ASSUME TypeInv, NEW r \in Req, NEW from, from # "idle",
                          NEW a \in Answer, Says(r, from, a)
                   PROVE  TypeInv'
<1>1. HandlerTypes'  BY ReplyTypes, TypeParts DEF Says
<1>2. RowTypes' /\ RestTypes'
  BY TypeParts DEF Says, RowTypes, RestTypes, users, throttle, history
<1>. QED  BY <1>1, <1>2, TypeParts

\* One step of one handler; what it writes is typed because who[r] is a user
\* and at[r] a replica.
LEMMA TypeHandle == ASSUME TypeInv, NEW r \in Req, Handle(r) \/ Fail(r) PROVE TypeInv'
<1>0. HandlerTypes /\ RowTypes /\ RestTypes  BY TypeParts
<1>a. pc[r] # "idle" => who[r] \in User /\ at[r] \in Replica
  BY <1>0 DEF HandlerTypes, Named
<1>b. PC = InFlight \cup {"idle", "answered"}  BY DEF PC
<1> USE DEF InFlight, Answer
<1>1. CASE \E b \in BOOLEAN : RegisterIgnored(r, b)
  BY <1>1, SaysTypes DEF RegisterIgnored
<1>2. CASE LookUp(r) \/ Create(r) \/ RecordFailure(r) \/ DecodeToken(r)
  BY <1>2, <1>b, MovesTypes DEF LookUp, Create, RecordFailure, DecodeToken
<1>3. CASE CreateRaises(r) \/ PhoneTaken(r) \/ RefuseUnknown(r) \/ RefuseLocked(r)
  BY <1>3, SaysTypes DEF CreateRaises, PhoneTaken, RefuseUnknown, RefuseLocked
<1>4. CASE RefuseToken(r) \/ SecretUnreadable(r)
  BY <1>4, SaysTypes DEF RefuseToken, SecretUnreadable
<1>5. CASE \E right \in BOOLEAN : CheckCode(r, right)
  BY <1>5, SaysTypes DEF CheckCode
<1>6. CASE PasswordOk(r)
  <2>1. CASE secret[who[r]] = NoKey
    BY <1>6, <2>1, <1>b, MovesTypes DEF PasswordOk
  <2>2. CASE secret[who[r]] # NoKey
    BY <1>6, <2>2, <1>b, MovesTypes DEF PasswordOk
  <2>. QED  BY <2>1, <2>2
<1>7. CASE CommitUser(r)
  <2>1. HandlerTypes'  BY <1>7, <1>0, ReplyTypes DEF CommitUser
  <2>2. who[r] \in User  BY <1>7, <1>a DEF CommitUser, Reply, Goto
  <2>3. RowTypes'  BY <1>7, <1>0, <2>2 DEF CommitUser, RowTypes
  <2>4. RestTypes'  BY <1>7, <1>0 DEF CommitUser, RestTypes, throttle, Overtakes
  <2>. QED  BY <2>1, <2>3, <2>4, TypeParts
<1>8. CASE RefusePassword(r)
  <2>1. HandlerTypes'  BY <1>8, <1>0, <1>b, StepTypes DEF RefusePassword
  <2>2. who[r] \in User  BY <1>8, <1>a DEF RefusePassword, Step, Goto
  <2>3. failed[who[r]] + 1 \in Nat  BY <1>0, <2>2 DEF RowTypes
  <2>4. draft' \in [Req -> Nat]  BY <1>8, <1>0, <2>3 DEF RefusePassword, RestTypes
  <2>5. RowTypes'  BY <1>8, <1>0 DEF RefusePassword, RowTypes, users, history
  <2>6. RestTypes'  BY <1>8, <1>0, <2>4 DEF RefusePassword, RestTypes, throttle, history
  <2>. QED  BY <2>1, <2>5, <2>6, TypeParts
<1>9. CASE RaiseInvalid(r)
  <2>1. HandlerTypes'  BY <1>9, <1>0, ReplyTypes DEF RaiseInvalid
  <2>2. fails' \in [User -> Nat]
    <3>1. \A n \in Nat : (IF n < MaxFails THEN n + 1 ELSE n) \in Nat  OBVIOUS
    <3>. QED  BY <1>9, <1>0, <3>1 DEF RaiseInvalid, RowTypes
  <2>3. draft' \in [Req -> Nat]  BY <1>9, <1>0 DEF RaiseInvalid, RestTypes
  <2>4. RowTypes'  BY <1>9, <1>0, <2>2 DEF RaiseInvalid, RowTypes, users
  <2>5. RestTypes'  BY <1>9, <1>0, <2>3 DEF RaiseInvalid, RestTypes, throttle
  <2>. QED  BY <2>1, <2>4, <2>5, TypeParts
<1>10. CASE Challenge(r)
  <2>1. HandlerTypes'  BY <1>10, <1>0, ReplyTypes DEF Challenge
  <2>2. who[r] \in User /\ at[r] \in Replica
    BY <1>10, <1>a DEF Challenge, Reply, Goto
  <2>3. pre' \in SUBSET (User \X Key)
    <3>1. <<who[r], ring[at[r]]>> \in User \X Key
      BY <1>0, <2>2 DEF HandlerTypes
    <3>2. pre \in SUBSET (User \X Key)  BY <1>0 DEF RestTypes
    <3>. QED  BY <1>10, <3>1, <3>2 DEF Challenge
  <2>4. RowTypes'  BY <1>10, <1>0 DEF Challenge, Clear, RowTypes
  <2>5. RestTypes'  BY <1>10, <1>0, <2>3 DEF Challenge, RestTypes, throttle
  <2>. QED  BY <2>1, <2>4, <2>5, TypeParts
<1>11. CASE OpenSession(r)
  <2>1. PICK a \in Answer : Reply(r, "opening", a)
    BY <1>11 DEF OpenSession
  <2>2. HandlerTypes'  BY <1>0, <2>1, ReplyTypes
  <2>3. RowTypes'  BY <1>11, <1>0 DEF OpenSession, Clear, RowTypes
  <2>4. RestTypes'  BY <1>11, <1>0 DEF OpenSession, RestTypes, throttle
  <2>. QED  BY <2>2, <2>3, <2>4, TypeParts
<1>12. CASE Count(r)
  <2>1. PICK to \in PC : Step(r, "counting", to)
    BY <1>12, <1>b DEF Count
  <2>2. HandlerTypes'  BY <1>0, <2>1, StepTypes
  <2>3. RowTypes'  BY <1>12, <1>0 DEF Count, RowTypes, users
  <2>4. RestTypes'  BY <1>12, <1>0 DEF Count, RestTypes
  <2>. QED  BY <2>2, <2>3, <2>4, TypeParts
<1>13. CASE Throttle(r)
  <2>1. HandlerTypes'  BY <1>13, <1>0, ReplyTypes DEF Throttle
  <2>2. count' \in Nat  BY <1>13, LoginGuardsAssumption DEF Throttle, LoginGuardsAssumption
  <2>3. RowTypes'  BY <1>13, <1>0 DEF Throttle, RowTypes, users, history
  <2>4. RestTypes'  BY <1>13, <1>0, <2>2 DEF Throttle, RestTypes, history
  <2>. QED  BY <2>1, <2>3, <2>4, TypeParts
<1>14. CASE SetExpiry(r)
  <2>1. HandlerTypes'  BY <1>14, <1>0, <1>b, StepTypes DEF SetExpiry
  <2>2. RowTypes' /\ RestTypes'
    BY <1>14, <1>0 DEF SetExpiry, RowTypes, RestTypes, users, history
  <2>. QED  BY <2>1, <2>2, TypeParts
<1>15. CASE SaveSecret(r)
  <2>1. HandlerTypes'  BY <1>15, <1>0, ReplyTypes DEF SaveSecret
  <2>2. at[r] \in Replica  BY <1>15, <1>a DEF SaveSecret, Reply, Goto
  <2>3. seal[at[r]] \in Key  BY <1>0, <2>2 DEF HandlerTypes
  <2>4. RowTypes'  BY <1>15, <1>0, <2>3 DEF SaveSecret, RowTypes
  <2>5. RestTypes'  BY <1>15, <1>0 DEF SaveSecret, RestTypes, throttle, Overtakes
  <2>. QED  BY <2>1, <2>4, <2>5, TypeParts
<1>16. CASE Fail(r)
  <2>1. HandlerTypes'  BY <1>16, <1>0, ReplyTypes DEF Fail
  <2>2. draft' \in [Req -> Nat] /\ orphaned' \in BOOLEAN
    BY <1>16, <1>0 DEF Fail, RestTypes
  <2>3. RowTypes'  BY <1>16, <1>0 DEF Fail, RowTypes, users
  <2>4. RestTypes'  BY <1>16, <1>0, <2>2 DEF Fail, RestTypes, throttle
  <2>. QED  BY <2>1, <2>3, <2>4, TypeParts
<1>. QED
  BY <1>1, <1>2, <1>3, <1>4, <1>5, <1>6, <1>7, <1>8, <1>9, <1>10, <1>11, <1>12,
     <1>13, <1>14, <1>15, <1>16 DEF Handle

\* Every step keeps the types.
LEMMA TypeStep == TypeInv /\ [Next]_vars => TypeInv'
<1> SUFFICES ASSUME TypeInv, [Next]_vars PROVE TypeInv'
  OBVIOUS
<1> USE DEF TypeInv, TypeOK, Named, PC, InFlight, Kind, Goto, keys, users, throttle,
            handlers, history
<1>1. ASSUME NEW r \in Req, NEW u \in User, Register(r, u) \/ Login(r, u) \/ Enroll(r, u)
      PROVE TypeInv'
  BY <1>1 DEF Register, Login, Enroll, Arrives
<1>2. ASSUME NEW r \in Req, NEW t \in Token, Present(r, t) PROVE TypeInv'
  BY <1>2 DEF Present, Arrives, Token
<1>3. ASSUME NEW r \in Req, Handle(r) \/ Fail(r) PROVE TypeInv'
  BY <1>3, TypeHandle DEF TypeInv
<1>4. CASE ExpireCounter
  BY <1>4, LoginGuardsAssumption DEF ExpireCounter, LoginGuardsAssumption
<1>5. ASSUME NEW t \in pre, ExpireToken(t) PROVE TypeInv'
  BY <1>5 DEF ExpireToken
<1>6. ASSUME NEW u \in User, ExpireLock(u) PROVE TypeInv'
  BY <1>6 DEF ExpireLock
<1>7. CASE UNCHANGED vars
  BY <1>7 DEF vars
<1>. QED
  BY <1>1, <1>2, <1>3, <1>4, <1>5, <1>6, <1>7 DEF Next, Quiescent

\* Spec keeps every variable in its type.
THEOREM TypeCorrect == Spec => []TypeOK
<1>1. Spec => []TypeInv
  BY TypeInit, TypeStep, PTL DEF Spec
<1>. QED  BY <1>1, PTL DEF TypeInv

-----------------------------------------------------------------------------
(* The throttle of codes *)

\* What has been let through is what has been counted, up to the maximum.
Counted == admitted = IF count <= MaxAttempts THEN count ELSE MaxAttempts

\* Everything else leaves the counter alone, and no handler about to set the
\* TTL turns from it.
LEMMA CounterFrame ==
  ASSUME TypeInv, [Next]_vars
  PROVE  \/ \E r \in Req : Count(r) \/ Throttle(r) \/ SetExpiry(r) \/ Fail(r)
         \/ ExpireCounter
         \/ /\ UNCHANGED <<count, timed, admitted, orphaned>>
            /\ \A q \in Req : pc[q] = "expiring" => pc'[q] = "expiring"
<1> DEFINE Kept == /\ UNCHANGED <<count, timed, admitted, orphaned>>
                   /\ \A q \in Req : pc[q] = "expiring" => pc'[q] = "expiring"
<1>0. pc \in [Req -> PC]  BY DEF TypeInv, TypeOK
<1> USE DEF throttle, history, handlers, users, keys
<1>1. ASSUME NEW r \in Req, NEW from, NEW to, from # "expiring", Moves(r, from, to)
      PROVE  Kept
  BY <1>0, <1>1 DEF Moves, Step, Goto
<1>2. ASSUME NEW r \in Req, NEW from, NEW a, from # "expiring", Says(r, from, a)
      PROVE  Kept
  BY <1>0, <1>2 DEF Says, Reply, Goto
<1>3. ASSUME NEW r \in Req, NEW k, NEW u, NEW to, Arrives(r, k, u, to)
      PROVE  Kept
  BY <1>0, <1>3 DEF Arrives, Goto
<1>4. ASSUME NEW r \in Req, Handle(r)
      PROVE  Kept \/ Count(r) \/ Throttle(r) \/ SetExpiry(r)
  <2>1. CASE \/ \E b \in BOOLEAN : RegisterIgnored(r, b)
             \/ CreateRaises(r) \/ PhoneTaken(r) \/ RefuseUnknown(r) \/ RefuseLocked(r)
             \/ RefuseToken(r) \/ SecretUnreadable(r)
             \/ \E right \in BOOLEAN : CheckCode(r, right)
    BY <2>1, <1>2 DEF RegisterIgnored, CreateRaises, PhoneTaken, RefuseUnknown,
                      RefuseLocked, RefuseToken, SecretUnreadable, CheckCode
  <2>2. CASE LookUp(r) \/ Create(r) \/ RecordFailure(r) \/ DecodeToken(r) \/ PasswordOk(r)
    BY <2>2, <1>1 DEF LookUp, Create, RecordFailure, DecodeToken, PasswordOk
  <2>3. CASE RefusePassword(r)
    BY <2>3, <1>0 DEF RefusePassword, Step, Goto
  <2>4. CASE CommitUser(r) \/ SaveSecret(r)
    BY <2>4, <1>0 DEF CommitUser, SaveSecret, Reply, Goto
  <2>5. CASE RaiseInvalid(r)
    BY <2>5, <1>0 DEF RaiseInvalid, Reply, Goto
  <2>6. CASE Challenge(r) \/ OpenSession(r)
    BY <2>6, <1>0 DEF Challenge, OpenSession, Reply, Goto
  <2>. QED  BY <1>4, <2>1, <2>2, <2>3, <2>4, <2>5, <2>6 DEF Handle
<1>5. ASSUME NEW r \in Req, NEW u \in User, Register(r, u) \/ Login(r, u) \/ Enroll(r, u)
      PROVE  Kept
  BY <1>5, <1>3 DEF Register, Login, Enroll
<1>6. ASSUME NEW r \in Req, NEW t \in Token, Present(r, t) PROVE Kept
  BY <1>6, <1>3 DEF Present
<1>7. ASSUME NEW t \in pre, ExpireToken(t) PROVE Kept
  BY <1>7 DEF ExpireToken
<1>8. ASSUME NEW u \in User, ExpireLock(u) PROVE Kept
  BY <1>8 DEF ExpireLock
<1>9. CASE UNCHANGED vars
  BY <1>9 DEF vars
<1>10. registered \subseteq User  BY DEF TypeInv, TypeOK
<1>. QED
  BY <1>4, <1>5, <1>6, <1>7, <1>8, <1>9, <1>10 DEF Next, Quiescent

\* Every step keeps the count of codes let through.
LEMMA CountedStep == TypeInv /\ Counted /\ [Next]_vars => Counted'
<1> SUFFICES ASSUME TypeInv, Counted, [Next]_vars PROVE Counted'
  OBVIOUS
<1> USE LoginGuardsAssumption DEF LoginGuardsAssumption, Counted
<1>0. count \in Nat  BY DEF TypeInv, TypeOK
<1>1. ASSUME NEW r \in Req, Count(r) PROVE Counted'
  BY <1>0, <1>1 DEF Count
<1>2. ASSUME NEW r \in Req, Throttle(r) PROVE Counted'
  BY <1>0, <1>2 DEF Throttle, history
<1>3. ASSUME NEW r \in Req, SetExpiry(r) \/ Fail(r) PROVE Counted'
  BY <1>3 DEF SetExpiry, Fail, throttle, history
<1>4. CASE ExpireCounter
  BY <1>4 DEF ExpireCounter
<1>. QED
  BY <1>1, <1>2, <1>3, <1>4, CounterFrame

\* Between two expiries no more than MaxAttempts codes are let through,
\* however many replicas count on the one number.
THEOREM CodesBounded == Spec => []ThrottleBounds
<1>1. Init => Counted
  BY LoginGuardsAssumption DEF Init, Counted, LoginGuardsAssumption
<1>2. TypeInv /\ Counted => ThrottleBounds
  BY LoginGuardsAssumption
     DEF TypeInv, TypeOK, Counted, ThrottleBounds, LoginGuardsAssumption
<1>. QED
  BY <1>1, <1>2, TypeInit, TypeStep, CountedStep, PTL DEF Spec

\* Every step keeps the counter timed.
LEMMA TimedStep == TypeInv /\ CounterTimed /\ [Next]_vars => CounterTimed'
<1> SUFFICES ASSUME TypeInv, CounterTimed, [Next]_vars PROVE CounterTimed'
  OBVIOUS
<1> USE DEF CounterTimed
<1>0. count \in Nat /\ pc \in [Req -> PC]  BY DEF TypeInv, TypeOK
<1>1. ASSUME NEW r \in Req, Count(r) PROVE CounterTimed'
  <2>1. pc[r] = "counting" /\ UNCHANGED <<timed, orphaned>>
    BY <1>1 DEF Count, Step, Goto
  <2>2. CASE count = 0
    <3>1. pc'[r] = "expiring"  BY <1>0, <1>1, <2>2 DEF Count, Step, Goto
    <3>. QED  BY <3>1
  <2>3. CASE count > 0
    <3>1. \A q \in Req : pc[q] = "expiring" => pc'[q] = "expiring"
      BY <1>0, <1>1, <2>1 DEF Count, Step, Goto
    <3>. QED  BY <2>1, <2>3, <3>1
  <2>. QED  BY <1>0, <2>2, <2>3
<1>2. ASSUME NEW r \in Req, Throttle(r) PROVE CounterTimed'
  <2>1. count > 0
    BY <1>0, <1>2, LoginGuardsAssumption DEF Throttle, LoginGuardsAssumption
  <2>2. \A q \in Req : pc[q] = "expiring" => pc'[q] = "expiring"
    BY <1>0, <1>2 DEF Throttle, Reply, Goto
  <2>. QED  BY <1>2, <2>1, <2>2 DEF Throttle, history
<1>3. ASSUME NEW r \in Req, SetExpiry(r) PROVE CounterTimed'
  BY <1>3 DEF SetExpiry
<1>4. ASSUME NEW r \in Req, Fail(r) PROVE CounterTimed'
  <2>1. CASE pc[r] = "expiring"
    <3>1. orphaned'  BY <1>4, <2>1 DEF Fail
    <3>. QED  BY <3>1
  <2>2. CASE pc[r] # "expiring"
    <3>1. \A q \in Req : pc[q] = "expiring" => pc'[q] = "expiring"
      BY <1>0, <1>4, <2>2 DEF Fail, Reply, Goto
    <3>2. UNCHANGED <<count, timed>> /\ (orphaned => orphaned')
      BY <1>4 DEF Fail, throttle
    <3>. QED  BY <3>1, <3>2
  <2>. QED  BY <2>1, <2>2
<1>5. CASE ExpireCounter
  BY <1>5 DEF ExpireCounter
<1>6. CASE /\ UNCHANGED <<count, timed, admitted, orphaned>>
           /\ \A q \in Req : pc[q] = "expiring" => pc'[q] = "expiring"
  BY <1>6
<1>. QED
  BY <1>1, <1>2, <1>3, <1>4, <1>5, <1>6, CounterFrame

\* A counter without a TTL is one whose handler is about to set it or died.
THEOREM CounterGetsTtl == Spec => []CounterTimed
<1>1. Init => CounterTimed
  BY DEF Init, CounterTimed
<1>. QED
  BY <1>1, TypeInit, TypeStep, TimedStep, PTL DEF Spec

-----------------------------------------------------------------------------
(* What overtakes what *)

\* A login about to open a session read a row without a secret, and the row
\* has none still, unless an enrolment overtook the login.
OpeningRead ==
  \A q \in Req : pc[q] = "opening" => secret[who[q]] = NoKey \/ q \in overtaken

\* A registration is at one of the steps of one.
RegisterAt ==
  \A q \in Req : kind[q] = "register" =>
    pc[q] \in {"looking", "creating", "created", "answered"}

\* A registration about to INSERT found no row, and there is none still,
\* unless another registration overtook it.
CreatingRead ==
  \A q \in Req : pc[q] = "creating" => who[q] \notin registered \/ q \in overtaken

GuardInv == TypeInv /\ OpeningRead /\ EnrolledMeansMfa
                    /\ RegisterAt /\ CreatingRead /\ RegistrationsAlike

\* What a step of r leaves of the five parts: all that they say of another
\* handler, if the rows change only with an overtaking.
Undisturbed(q) ==
  /\ pc'[q] = pc[q] /\ who'[q] = who[q] /\ kind'[q] = kind[q] /\ answer'[q] = answer[q]
  /\ q \in overtaken => q \in overtaken'
  /\ pc[q] = "opening" => secret'[who[q]] = secret[who[q]] \/ q \in overtaken'
  /\ pc[q] = "creating" => (who[q] \in registered' => who[q] \in registered) \/ q \in overtaken'

\* What the invariant says of one handler.
Guarded(q) ==
  /\ pc[q] = "opening" => secret[who[q]] = NoKey \/ q \in overtaken
  /\ answer[q] = "bare session" => q \in overtaken
  /\ kind[q] = "register" => pc[q] \in {"looking", "creating", "created", "answered"}
  /\ pc[q] = "creating" => who[q] \notin registered \/ q \in overtaken
  /\ kind[q] = "register" /\ pc[q] = "answered" =>
       \/ answer[q] \in {"accepted", "phone taken", "failure"}
       \/ answer[q] = "error" /\ q \in overtaken

\* The guard invariant, handler by handler.
LEMMA GuardParts ==
  /\ GuardInv <=> TypeInv /\ \A q \in Req : Guarded(q)
  /\ GuardInv' <=> TypeInv' /\ \A q \in Req : Guarded(q)'
<1>1. GuardInv <=> TypeInv /\ \A q \in Req : Guarded(q)
  BY DEF GuardInv, OpeningRead, EnrolledMeansMfa, RegisterAt, CreatingRead,
         RegistrationsAlike, Guarded
<1>2. GuardInv' <=> TypeInv' /\ \A q \in Req : Guarded(q)'
  BY DEF GuardInv, OpeningRead, EnrolledMeansMfa, RegisterAt, CreatingRead,
         RegistrationsAlike, Guarded
<1>. QED  BY <1>1, <1>2

\* A handler whom a step leaves alone stays guarded.
LEMMA UndisturbedGuarded ==
  ASSUME NEW q \in Req, Guarded(q), Undisturbed(q) PROVE Guarded(q)'
  BY DEF Guarded, Undisturbed

\* A step that writes nothing shared, to a step that what r read allows.
LEMMA MovesGuarded ==
  ASSUME GuardInv, NEW r \in Req, NEW from, NEW to, Moves(r, from, to),
         kind[r] = "register" => to \in {"looking", "creating", "created"},
         to = "opening" => secret[who[r]] = NoKey,
         to = "creating" => who[r] \notin registered,
         to # "answered"
  PROVE  \A q \in Req : Guarded(q)'
<1>1. \A q \in Req : Guarded(q)  BY GuardParts
<1>2. pc \in [Req -> PC]  BY DEF GuardInv, TypeInv, TypeOK
<1>3. ASSUME NEW q \in Req, q # r PROVE Guarded(q)'
  <2>1. Undisturbed(q)
    BY <1>2, <1>3 DEF Moves, Step, Goto, users, history, Undisturbed
  <2>. QED  BY <1>1, <2>1, UndisturbedGuarded
<1>4. Guarded(r)'
  <2>1. pc'[r] = to  BY <1>2 DEF Moves, Step, Goto
  <2>2. UNCHANGED <<who, kind, answer, overtaken, secret, registered>>
    BY DEF Moves, Step, users, history
  <2>. QED  BY <1>1, <2>1, <2>2 DEF Guarded
<1>. QED  BY <1>3, <1>4

\* The same of a handler's last step.
LEMMA SaysGuarded ==
  ASSUME GuardInv, NEW r \in Req, NEW from, NEW a, Reply(r, from, a),
         UNCHANGED <<secret, registered>>, UNCHANGED overtaken,
         a = "bare session" => r \in overtaken,
         kind[r] = "register" =>
           a \in {"accepted", "phone taken", "failure"} \/ (a = "error" /\ r \in overtaken)
  PROVE  \A q \in Req : Guarded(q)'
<1>1. \A q \in Req : Guarded(q)  BY GuardParts
<1>2. pc \in [Req -> PC] /\ answer \in [Req -> Answer]
  BY DEF GuardInv, TypeInv, TypeOK
<1>3. ASSUME NEW q \in Req, q # r PROVE Guarded(q)'
  <2>1. Undisturbed(q)
    BY <1>2, <1>3 DEF Reply, Goto, Undisturbed
  <2>. QED  BY <1>1, <2>1, UndisturbedGuarded
<1>4. Guarded(r)'
  <2>1. pc'[r] = "answered" /\ answer'[r] = a  BY <1>2 DEF Reply, Goto
  <2>2. UNCHANGED <<who, kind, overtaken, secret, registered>>
    BY DEF Reply
  <2>. QED  BY <1>1, <2>1, <2>2 DEF Guarded
<1>. QED  BY <1>3, <1>4

\* A commit that other handlers may have overlooked: it overtakes them.
LEMMA OvertakesGuarded ==
  ASSUME GuardInv, NEW r \in Req, NEW from, NEW a \in {"accepted", "enrolled"},
         Reply(r, from, a), from \notin {"opening", "creating", "answered"},
         kind[r] = "register" => a = "accepted",
         Overtakes(who[r]),
         \A u \in User \ {who[r]} : secret'[u] = secret[u],
         \A u \in User \ {who[r]} : u \in registered' => u \in registered
  PROVE  \A q \in Req : Guarded(q)'
<1>1. \A q \in Req : Guarded(q)  BY GuardParts
<1>2. pc \in [Req -> PC] /\ answer \in [Req -> Answer] /\ Named
  BY DEF GuardInv, TypeInv, TypeOK
<1>3. overtaken \subseteq overtaken'  BY DEF Overtakes
<1>4. ASSUME NEW q \in Req, q # r PROVE Guarded(q)'
  <2>1. pc'[q] = pc[q] /\ who'[q] = who[q] /\ kind'[q] = kind[q] /\ answer'[q] = answer[q]
    BY <1>2, <1>4 DEF Reply, Goto
  <2>2. pc[q] \in {"opening", "creating"} => who[q] \in User
    BY <1>2 DEF Named
  <2>3. CASE who[q] = who[r]
    <3>1. pc[q] \in {"opening", "creating"} => q \in overtaken'
      BY <2>3 DEF Overtakes
    <3>. QED  BY <1>1, <1>3, <2>1, <3>1, UndisturbedGuarded DEF Undisturbed
  <2>4. CASE who[q] # who[r]
    BY <1>1, <1>3, <2>1, <2>2, <2>4, UndisturbedGuarded DEF Undisturbed
  <2>. QED  BY <2>3, <2>4
<1>5. Guarded(r)'
  <2>1. pc'[r] = "answered" /\ answer'[r] = a  BY <1>2 DEF Reply, Goto
  <2>2. UNCHANGED kind  BY DEF Reply
  <2>. QED  BY <1>1, <2>1, <2>2 DEF Guarded
<1>. QED  BY <1>4, <1>5

\* A handler's own steps, and its failures, keep the guards.
LEMMA GuardHandle == ASSUME GuardInv, NEW r \in Req, Handle(r) \/ Fail(r)
                     PROVE  \A q \in Req : Guarded(q)'
<1>0. Guarded(r) /\ Named /\ secret \in [User -> Key \cup {NoKey}]
      /\ (pc[r] # "idle" => who[r] \in User)
  BY GuardParts DEF GuardInv, TypeInv, TypeOK, Named
<1>a. kind[r] = "register" /\ pc[r] # "answered" => pc[r] \in {"looking", "creating", "created"}
  BY <1>0 DEF Guarded
<1> USE DEF users, history
<1>1. CASE (\E b \in BOOLEAN : RegisterIgnored(r, b)) \/ PhoneTaken(r)
  BY <1>1, SaysGuarded DEF RegisterIgnored, PhoneTaken, Says
<1>2. CASE LookUp(r)
  BY <1>2, MovesGuarded DEF LookUp
<1>3. CASE Create(r)
  BY <1>3, MovesGuarded DEF Create
<1>4. CASE CreateRaises(r)
  <2>1. r \in overtaken
    BY <1>0, <1>4 DEF CreateRaises, Says, Reply, Goto, Guarded
  <2>. QED  BY <1>4, <2>1, SaysGuarded DEF CreateRaises, Says
<1>5. CASE CommitUser(r)
  BY <1>5, OvertakesGuarded DEF CommitUser
<1>6. CASE \/ RefuseUnknown(r) \/ RefuseLocked(r) \/ RefuseToken(r) \/ SecretUnreadable(r)
           \/ \E right \in BOOLEAN : CheckCode(r, right)
  <2>1. PICK a \in Answer \ {"bare session"}, from \in {"reading", "decoding", "checking"} :
          Says(r, from, a)
    BY <1>6 DEF RefuseUnknown, RefuseLocked, RefuseToken, SecretUnreadable, CheckCode, Answer
  <2>2. kind[r] # "register"  BY <1>a, <2>1 DEF Says, Reply, Goto
  <2>. QED  BY <2>1, <2>2, SaysGuarded DEF Says
<1>7. CASE RecordFailure(r) \/ DecodeToken(r)
  <2>1. PICK to \in {"refusing", "checking"}, from \in {"failing", "decoding"} :
          Moves(r, from, to)
    BY <1>7 DEF RecordFailure, DecodeToken
  <2>2. kind[r] # "register"  BY <1>a, <2>1 DEF Moves, Step, Goto
  <2>. QED  BY <2>1, <2>2, MovesGuarded
<1>8. CASE PasswordOk(r)
  <2>1. PICK to \in {"opening", "challenging"} :
          Moves(r, "reading", to) /\ (to = "opening" => secret[who[r]] = NoKey)
    BY <1>8 DEF PasswordOk
  <2>2. kind[r] # "register"  BY <1>a, <2>1 DEF Moves, Step, Goto
  <2>. QED  BY <2>1, <2>2, MovesGuarded
<1>9. CASE RaiseInvalid(r) \/ Challenge(r)
  <2>1. PICK a \in {"invalid", "challenge"}, from \in {"refusing", "challenging"} :
          Reply(r, from, a)
    BY <1>9 DEF RaiseInvalid, Challenge
  <2>2. kind[r] # "register"  BY <1>a, <2>1 DEF Reply, Goto
  <2>3. UNCHANGED <<secret, registered, overtaken>>
    BY <1>9 DEF RaiseInvalid, Challenge
  <2>. QED  BY <2>1, <2>2, <2>3, SaysGuarded
<1>10. CASE OpenSession(r)
  <2>1. PICK a \in {"session", "bare session"} :
          Reply(r, "opening", a) /\ (a = "bare session" => secret[who[r]] # NoKey)
    BY <1>10 DEF OpenSession
  <2>2. pc[r] = "opening"  BY <2>1 DEF Reply, Goto
  <2>3. kind[r] # "register"  BY <1>a, <2>2
  <2>4. a = "bare session" => r \in overtaken  BY <1>0, <2>1, <2>2 DEF Guarded
  <2>5. UNCHANGED <<secret, registered, overtaken>>  BY <1>10 DEF OpenSession
  <2>. QED  BY <2>1, <2>3, <2>4, <2>5, SaysGuarded
<1>11. CASE Fail(r)
  <2>1. Reply(r, pc[r], "failure") /\ UNCHANGED <<secret, registered, overtaken>>
    BY <1>11 DEF Fail
  <2>. QED  BY <2>1, SaysGuarded
<1>12. CASE SaveSecret(r)
  <2>1. Reply(r, "enrolling", "enrolled") /\ Overtakes(who[r])
    BY <1>12 DEF SaveSecret
  <2>2. kind[r] # "register"  BY <1>a, <2>1 DEF Reply, Goto
  <2>3. \A u \in User \ {who[r]} : secret'[u] = secret[u]
    BY <1>0, <1>12 DEF SaveSecret
  <2>4. UNCHANGED registered  BY <1>12 DEF SaveSecret
  <2>. QED  BY <2>1, <2>2, <2>3, <2>4, OvertakesGuarded
<1>13. CASE Throttle(r)
  <2>1. kind[r] # "register"  BY <1>13, <1>a DEF Throttle, Reply, Goto
  <2>. QED  BY <1>13, <2>1, SaysGuarded DEF Throttle
<1>14. CASE RefusePassword(r) \/ Count(r) \/ SetExpiry(r)
  <2>1. PICK from \in {"reading", "counting", "expiring"}, to \in {"failing", "expiring", "decoding"} :
          Step(r, from, to)
    BY <1>14 DEF RefusePassword, Count, SetExpiry
  <2>2. UNCHANGED <<secret, registered, overtaken>>
    BY <1>14 DEF RefusePassword, Count, SetExpiry
  <2>3. kind[r] # "register"  BY <1>a, <2>1 DEF Step, Goto
  <2>4. pc \in [Req -> PC]  BY DEF GuardInv, TypeInv, TypeOK
  <2>5. ASSUME NEW q \in Req \ {r} PROVE Undisturbed(q)
    BY <2>1, <2>2, <2>4 DEF Step, Goto, Undisturbed
  <2>6. Guarded(r)'
    BY <1>0, <2>1, <2>2, <2>3, <2>4 DEF Step, Goto, Guarded
  <2>. QED  BY <2>5, <2>6, GuardParts, UndisturbedGuarded
<1>. QED
  BY <1>1, <1>2, <1>3, <1>4, <1>5, <1>6, <1>7, <1>8, <1>9, <1>10, <1>11, <1>12,
     <1>13, <1>14 DEF Handle

\* So does every other step.
LEMMA GuardStep == GuardInv /\ [Next]_vars => GuardInv'
<1> SUFFICES ASSUME GuardInv, [Next]_vars PROVE \A q \in Req : Guarded(q)'
  BY TypeStep, GuardParts DEF GuardInv
<1>0. /\ \A q \in Req : Guarded(q)
      /\ pc \in [Req -> PC] /\ kind \in [Req -> Kind] /\ registered \subseteq User
  BY GuardParts DEF GuardInv, TypeInv, TypeOK
<1> USE DEF users, handlers, history
<1>1. ASSUME NEW r \in Req, NEW k \in Kind, NEW u, NEW to, Arrives(r, k, u, to),
             to \notin {"opening", "creating", "answered"},
             k = "register" => to = "looking"
      PROVE  \A q \in Req : Guarded(q)'
  <2>1. ASSUME NEW q \in Req, q # r PROVE Undisturbed(q)
    BY <1>0, <1>1, <2>1 DEF Arrives, Goto, Undisturbed
  <2>2. Guarded(r)'
    <3>1. pc'[r] = to /\ kind'[r] = k /\ UNCHANGED <<answer, overtaken>>
      BY <1>0, <1>1 DEF Arrives, Goto
    <3>. QED  BY <1>0, <1>1, <3>1 DEF Guarded
  <2>. QED  BY <1>0, <2>1, <2>2, UndisturbedGuarded
<1>2. ASSUME NEW r \in Req, NEW u \in User, Register(r, u) \/ Login(r, u) \/ Enroll(r, u)
      PROVE  \A q \in Req : Guarded(q)'
  BY <1>1, <1>2 DEF Register, Login, Enroll, Kind
<1>3. ASSUME NEW r \in Req, NEW t \in Token, Present(r, t)
      PROVE  \A q \in Req : Guarded(q)'
  BY <1>1, <1>3 DEF Present, Kind
<1>4. ASSUME NEW r \in Req, Handle(r) \/ Fail(r)
      PROVE  \A q \in Req : Guarded(q)'
  BY <1>4, GuardHandle
<1>5. CASE UNCHANGED <<pc, who, kind, answer, secret, registered, overtaken>>
  <2>1. \A q \in Req : Undisturbed(q)  BY <1>5 DEF Undisturbed
  <2>. QED  BY <1>0, <2>1, UndisturbedGuarded
<1>6. CASE ExpireCounter \/ (\E t \in pre : ExpireToken(t)) \/ UNCHANGED vars
           \/ (\E u \in User : ExpireLock(u))
  BY <1>5, <1>6 DEF ExpireCounter, ExpireToken, ExpireLock, vars
<1>. QED
  BY <1>0, <1>2, <1>3, <1>4, <1>6 DEF Next, Quiescent

\* The guards hold throughout.
LEMMA GuardAlways == Spec => []GuardInv
<1>1. Init => GuardInv
  BY TypeInit DEF Init, GuardInv, OpeningRead, EnrolledMeansMfa, RegisterAt,
                  CreatingRead, RegistrationsAlike
<1>. QED  BY <1>1, GuardStep, PTL DEF Spec

\* An enrolled user gets a session without MFA only from a login that had read
\* the row before the enrolment was committed.
THEOREM MfaAsked == Spec => []EnrolledMeansMfa
<1>1. GuardInv => EnrolledMeansMfa  BY DEF GuardInv
<1>. QED  BY <1>1, GuardAlways, PTL

\* A registration is answered otherwise than the others only for a phone number
\* or for another registration between its SELECT and its INSERT.
THEOREM AnswersAlike == Spec => []RegistrationsAlike
<1>1. GuardInv => RegistrationsAlike  BY DEF GuardInv
<1>. QED  BY <1>1, GuardAlways, PTL
=============================================================================
