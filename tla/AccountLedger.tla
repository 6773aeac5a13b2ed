---------------------------- MODULE AccountLedger ----------------------------
(***************************************************************************)
(* Balance mutations of the account service (routes_accounts.py).          *)
(*                                                                         *)
(* Several replicas of the service handle credit and debit requests at     *)
(* once.  A handler looks for an idempotency marker in Redis, asks OPA,    *)
(* opens a PostgreSQL transaction, locks the row with SELECT ... FOR       *)
(* UPDATE, computes the new row in the ORM object, flushes, writes an      *)
(* audit record, commits, and only then writes the marker.  Every await    *)
(* of the handler is a step here, so handlers interleave at each of them.  *)
(*                                                                         *)
(* A client's retry is another member of Req carrying the same job.        *)
(* job[r], what request r carries, is picked once in Init.                 *)
(***************************************************************************)
EXTENDS Integers, FiniteSetsExt

CONSTANTS
  Account,      \* account ids, existing or not yet opened
  Req,          \* the requests that may ever arrive (the bound of the model)
  Key,          \* idempotency keys chosen by clients
  Amount,       \* amounts that pass validation (validation.py: positive)
  MaxBalance,   \* the largest value of the Numeric(18, 2) column
  NoReq,        \* "nobody holds the row lock"
  Faults        \* which environment faults happen: "failure", "expiry"

ASSUME AccountLedgerAssumption ==
  /\ Amount \subseteq Nat \ {0}
  /\ MaxBalance \in Nat
  /\ NoReq \notin Req
  /\ Faults \subseteq {"failure", "expiry"}

VARIABLES
  status,       \* accounts.status; "absent" while there is no such row
  balance,      \* accounts.balance, committed
  version,      \* accounts.version, committed
  lock,         \* holder of the row lock taken by SELECT ... FOR UPDATE
  marks,        \* idempotency markers present in Redis
  job,          \* what each request carries
  pc,           \* where each handler is
  snap,         \* the ORM object of each handler's session
  answer,       \* what each caller was told
  applied,      \* history: the requests whose transaction committed
  exposed       \* history: markers one of whose three windows was hit

row  == <<status, balance, version>>
vars == <<status, balance, version, lock, marks, job, pc, snap, answer,
          applied, exposed>>

Op     == {"credit", "debit"}
Job    == [op : Op, acc : Account, key : Key, amt : Amount]
Mark   == [op : Op, acc : Account, key : Key]
Status == {"absent", "active", "frozen"}
Image  == [status : Status, balance : Int, version : Int]
Answer == {"none", "ok", "replayed", "rejected", "error"}

\* A session that holds no row object.
NoImage == [status |-> "absent", balance |-> 0, version |-> 0]

InTransaction == {"locked", "flushed"}
PastCheck     == {"authorising", "locking", "locked", "flushed", "committed"}
InFlight      == PastCheck \cup {"received", "replaying"}
PC            == InFlight \cup {"idle", "answered"}

\* The key of the marker: it names the operation, the account and the
\* client's key, not the amount.
MarkOf(r) == [op |-> job[r].op, acc |-> job[r].acc, key |-> job[r].key]

Delta(r) == IF job[r].op = "credit" THEN job[r].amt ELSE -job[r].amt

Init == /\ status  = [a \in Account |-> "absent"]
        /\ balance = [a \in Account |-> 0]
        /\ version = [a \in Account |-> 0]
        /\ lock    = [a \in Account |-> NoReq]
        /\ marks   = {}
        /\ job \in [Req -> Job]
        /\ pc      = [r \in Req |-> "idle"]
        /\ snap    = [r \in Req |-> NoImage]
        /\ answer  = [r \in Req |-> "none"]
        /\ applied = {}
        /\ exposed = {}

-----------------------------------------------------------------------------
(* Helpers *)

Goto(r, from, to) == pc[r] = from /\ pc' = [pc EXCEPT ![r] = to]

\* Leaving `async with s.begin()`: the row lock goes with the transaction and
\* the ORM object with the session.
CloseSession(r) ==
  /\ lock' = [lock EXCEPT ![job[r].acc] = IF @ = r THEN NoReq ELSE @]
  /\ snap' = [snap EXCEPT ![r] = NoImage]

Reply(r, from, a) ==
  /\ Goto(r, from, "answered")
  /\ answer' = [answer EXCEPT ![r] = a]

\* Mutant: a refusal leaves the transaction, and its row lock, open.
RollBackLeaking(r, from, a) ==
  /\ Reply(r, from, a)
  /\ UNCHANGED <<row, lock, marks, job, snap, applied, exposed>>

\* A refusal or a failure inside the transaction rolls it back.
RollBack(r, from, a) ==
  /\ Reply(r, from, a)
  /\ CloseSession(r)
  /\ UNCHANGED <<row, marks, job, applied, exposed>>

-----------------------------------------------------------------------------
(* The handler _mutate *)

Arrive(r) ==
  /\ Goto(r, "idle", "received")
  /\ UNCHANGED <<row, lock, marks, job, snap, answer, applied, exposed>>

\* redis.get finds the marker: answer with the account as it is now.
CheckHit(r) ==
  /\ MarkOf(r) \in marks
  /\ Goto(r, "received", "replaying")
  /\ UNCHANGED <<row, lock, marks, job, snap, answer, applied, exposed>>

\* s.get without a lock; _to_out(None) would raise.
AnswerReplay(r) ==
  /\ Reply(r, "replaying",
           IF status[job[r].acc] = "absent" THEN "error" ELSE "replayed")
  /\ UNCHANGED <<row, lock, marks, job, snap, applied, exposed>>

\* No marker.  History: the window is hit when a request with the same
\* marker is past its own check and has not written the marker.
CheckMiss(r) ==
  /\ MarkOf(r) \notin marks
  /\ Goto(r, "received", "authorising")
  /\ exposed' = IF \E q \in Req \ {r} : /\ pc[q] \in PastCheck
                                        /\ MarkOf(q) = MarkOf(r)
                THEN exposed \cup {MarkOf(r)}
                ELSE exposed
  /\ UNCHANGED <<row, lock, marks, job, snap, answer, applied>>

\* Mutant: a refusal that no caller knows.
DenyUnknown(r) ==
  /\ Reply(r, "authorising", "forbidden")
  /\ UNCHANGED <<row, lock, marks, job, snap, applied, exposed>>

\* OPA refuses, or cannot be asked (it fails closed).
Deny(r) ==
  /\ Reply(r, "authorising", "rejected")
  /\ UNCHANGED <<row, lock, marks, job, snap, applied, exposed>>

\* Mutant: the marker is written before the work (SET NX on the way in).
AuthoriseMarking(r) ==
  /\ Goto(r, "authorising", "locking")
  /\ marks' = marks \cup {MarkOf(r)}
  /\ UNCHANGED <<row, lock, job, snap, answer, applied, exposed>>

Authorise(r) ==
  /\ Goto(r, "authorising", "locking")
  /\ UNCHANGED <<row, lock, marks, job, snap, answer, applied, exposed>>

NotFound(r) ==
  /\ status[job[r].acc] = "absent"
  /\ RollBack(r, "locking", "rejected")

\* Mutant: s.get without with_for_update.
LockRowPlain(r) ==
  LET a == job[r].acc IN
  /\ status[a] # "absent"
  /\ Goto(r, "locking", "locked")
  /\ snap' = [snap EXCEPT ![r] = [status  |-> status[a],
                                  balance |-> balance[a],
                                  version |-> version[a]]]
  /\ UNCHANGED <<row, lock, marks, job, answer, applied, exposed>>

\* SELECT ... FOR UPDATE waits for the lock and then reads the committed row.
LockRow(r) ==
  LET a == job[r].acc IN
  /\ status[a] # "absent"
  /\ lock[a] = NoReq
  /\ Goto(r, "locking", "locked")
  /\ lock' = [lock EXCEPT ![a] = r]
  /\ snap' = [snap EXCEPT ![r] = [status  |-> status[a],
                                  balance |-> balance[a],
                                  version |-> version[a]]]
  /\ UNCHANGED <<row, marks, job, answer, applied, exposed>>

RejectInactive(r) ==
  /\ snap[r].status # "active"
  /\ RollBack(r, "locked", "rejected")

RejectInsufficient(r) ==
  /\ snap[r].status = "active"
  /\ job[r].op = "debit"
  /\ snap[r].balance < job[r].amt
  /\ RollBack(r, "locked", "rejected")

\* Mutants: the balance check, or the status check, is forgotten.
MayMoveUncovered(r) == snap[r].status = "active"
MayMoveFrozen(r)    == job[r].op = "debit" => snap[r].balance >= job[r].amt

\* The guards of the debit and the credit, on the session's row object.
MayMove(r) == /\ snap[r].status = "active"
              /\ job[r].op = "debit" => snap[r].balance >= job[r].amt

\* The new row is sent to the database, uncommitted; the audit record follows.
Flush(r) ==
  /\ MayMove(r)
  /\ snap[r].balance + Delta(r) <= MaxBalance
  /\ Goto(r, "locked", "flushed")
  /\ snap' = [snap EXCEPT ![r].balance = @ + Delta(r),
                          ![r].version = @ + 1]
  /\ UNCHANGED <<row, lock, marks, job, answer, applied, exposed>>

\* The column is too narrow for the new balance: the UPDATE fails.
FlushOverflow(r) ==
  /\ MayMove(r)
  /\ snap[r].balance + Delta(r) > MaxBalance
  /\ RollBack(r, "locked", "error")

\* COMMIT: the UPDATE sets the columns the ORM saw change, balance and version.
Commit(r) ==
  LET a == job[r].acc IN
  /\ Goto(r, "flushed", "committed")
  /\ balance' = [balance EXCEPT ![a] = snap[r].balance]
  /\ version' = [version EXCEPT ![a] = snap[r].version]
  /\ applied' = applied \cup {r}
  /\ CloseSession(r)
  /\ UNCHANGED <<status, marks, job, answer, exposed>>

\* Mutant: the marker is forgotten.
MarkDoneUnmarked(r) ==
  /\ Reply(r, "committed", "ok")
  /\ UNCHANGED <<row, lock, marks, job, snap, applied, exposed>>

\* redis.set(idemp_key, "1", ex=24h), then the reply.
MarkDone(r) ==
  /\ Reply(r, "committed", "ok")
  /\ marks' = marks \cup {MarkOf(r)}
  /\ UNCHANGED <<row, lock, job, snap, applied, exposed>>

\* An exception or the death of the replica at any await: an open transaction
\* is rolled back.  After COMMIT the money has moved and no marker says so.
Fail(r) ==
  /\ "failure" \in Faults
  /\ pc[r] \in InFlight
  /\ Reply(r, pc[r], "error")
  /\ CloseSession(r)
  /\ exposed' = IF pc[r] = "committed" THEN exposed \cup {MarkOf(r)}
                ELSE exposed
  /\ UNCHANGED <<row, marks, job, applied>>

-----------------------------------------------------------------------------
(* The environment of the handlers *)

\* create_account: the INSERT commits with its defaults, or nothing does; no
\* request can name the id before the reply to this one.
OpenAccount(a) ==
  /\ status[a] = "absent"
  /\ status' = [status EXCEPT ![a] = "active"]
  /\ UNCHANGED <<balance, version, lock, marks, job, pc, snap, answer,
                 applied, exposed>>

\* External: playbook PB-003 has the account frozen.  Nothing under src/ writes
\* the status; any UPDATE of the row waits for the row lock.
Freeze(a) ==
  /\ status[a] = "active"
  /\ lock[a] = NoReq
  /\ status' = [status EXCEPT ![a] = "frozen"]
  /\ UNCHANGED <<balance, version, lock, marks, job, pc, snap, answer,
                 applied, exposed>>

\* The marker's 24 hours are over.
ExpireMark(m) ==
  /\ "expiry" \in Faults
  /\ m \in marks
  /\ marks' = marks \ {m}
  /\ exposed' = exposed \cup {m}
  /\ UNCHANGED <<row, lock, job, pc, snap, answer, applied>>

\* Every request of the bound was served.
Quiescent == /\ \A r \in Req : pc[r] = "answered"
             /\ UNCHANGED vars

Handle(r) == \/ CheckHit(r) \/ AnswerReplay(r) \/ CheckMiss(r)
             \/ Deny(r) \/ Authorise(r)
             \/ NotFound(r) \/ LockRow(r)
             \/ RejectInactive(r) \/ RejectInsufficient(r)
             \/ Flush(r) \/ FlushOverflow(r)
             \/ Commit(r) \/ MarkDone(r)

Next == \/ \E r \in Req : Arrive(r) \/ Handle(r) \/ Fail(r)
        \/ \E a \in Account : OpenAccount(a) \/ Freeze(a)
        \/ \E m \in marks : ExpireMark(m)
        \/ Quiescent

Spec == Init /\ [][Next]_vars

\* A handler that can take a step takes one: the event loop runs it, and
\* Redis, OPA and PostgreSQL answer or raise.  Arrivals, faults, account
\* opening and freezing are not owed to anybody.
FairSpec == Spec /\ \A r \in Req : WF_vars(Handle(r))

-----------------------------------------------------------------------------
(* Properties *)

\* Every variable has its type.
TypeOK ==
  /\ status  \in [Account -> Status]
  /\ balance \in [Account -> Int]
  /\ version \in [Account -> Int]
  /\ lock    \in [Account -> Req \cup {NoReq}]
  /\ marks   \in SUBSET Mark
  /\ job     \in [Req -> Job]
  /\ pc      \in [Req -> PC]
  /\ snap    \in [Req -> Image]
  /\ answer  \in [Req -> Answer]
  /\ applied \in SUBSET Req
  /\ exposed \in SUBSET Mark

\* No committed balance is negative or wider than the column, whatever debits
\* and credits run concurrently (the guard of _mutate and Numeric(18, 2)).
BalanceInBounds == \A a \in Account : balance[a] \in 0 .. MaxBalance

\* The books balance: each committed row is the sum of the movements whose
\* transaction committed, and its version counts them.  A lost update, a
\* movement of a rolled back transaction or a double write would break it.
BooksBalance ==
  \A a \in Account :
    LET moved == {r \in applied : job[r].acc = a}
    IN /\ balance[a] = MapThenSumSet(Delta, moved)
       /\ version[a] = Cardinality(moved)

\* A caller is never misled: "ok" means that its own movement committed, a
\* refusal that it did not, and a replayed answer that some request with the
\* same operation, account and key committed one (line 115, "We already
\* processed this").
AnswersAreHonest ==
  \A r \in Req :
    /\ answer[r] = "ok" => r \in applied
    /\ answer[r] = "rejected" => r \notin applied
    /\ answer[r] = "replayed" =>
         \E q \in applied : /\ job[q].op  = job[r].op
                            /\ job[q].acc = job[r].acc
                            /\ job[q].key = job[r].key

\* What the idempotency key really buys: outside the three windows (two
\* requests with the key between check and mark, a failure between commit and
\* mark, an expired marker) the key is applied at most once.
AtMostOnceOutsideWindows ==
  \A p, q \in applied :
    MarkOf(p) = MarkOf(q) /\ MarkOf(p) \notin exposed => p = q

\* What the comment at line 115 and CSRF-04 of docs/01_SRD.md say without
\* exception: a key is applied at most once.
AtMostOncePerKey == \A p, q \in applied : MarkOf(p) = MarkOf(q) => p = q

\* Row by row the service implements the ledger: every step is one atomic
\* movement on the current row, an opening, a freeze, or no change.  In
\* particular a frozen account never moves.
AbstractLedger == INSTANCE Ledger
                    WITH status <- status, balance <- balance, version <- version
ImplementsLedger == AbstractLedger!Spec

\* Every request that arrived is answered: no handler waits for a row lock
\* that is never released.
EveryRequestAnswered ==
  \A r \in Req : pc[r] # "idle" ~> pc[r] = "answered"
=============================================================================
