------------------------ MODULE AccountLedger_proofs ------------------------
(***************************************************************************)
(* Proofs about AccountLedger for every set of accounts, requests, keys    *)
(* and amounts, and every width of the balance column.                     *)
(***************************************************************************)
EXTENDS AccountLedger, FiniteSetTheorems, TLAPS

\* A request's marker is a marker, and its amount an integer.
LEMMA JobTypes ==
  ASSUME TypeOK, NEW r \in Req
  PROVE  /\ MarkOf(r) \in Mark
         /\ job[r].acc \in Account
         /\ Delta(r) \in Int
<1>1. job[r] \in Job
  BY DEF TypeOK
<1>2. MarkOf(r) \in Mark /\ job[r].acc \in Account
  BY <1>1 DEF Job, Mark, MarkOf
<1>3. job[r].amt \in Nat
  BY <1>1, AccountLedgerAssumption DEF Job
<1>4. Delta(r) \in Int
  BY <1>3 DEF Delta
<1>. QED
  BY <1>2, <1>4

\* The initial states are typed.
LEMMA TypeInit == Init => TypeOK
  BY AccountLedgerAssumption
     DEF Init, TypeOK, Status, Image, NoImage, PC, InFlight, PastCheck, Answer

\* Every step of every handler and of the environment keeps the types.
LEMMA TypeStep == TypeOK /\ [Next]_vars => TypeOK'
<1> USE AccountLedgerAssumption
<1>2. ASSUME TypeOK, [Next]_vars PROVE TypeOK'
  <2> USE <1>2 DEF TypeOK, PC, InFlight, PastCheck, Answer, Job, Mark, row
  <2>1. ASSUME NEW r \in Req, Arrive(r) PROVE TypeOK'
    BY <2>1 DEF Arrive, Goto
  <2>2. ASSUME NEW r \in Req, CheckHit(r) PROVE TypeOK'
    BY <2>2 DEF CheckHit, Goto
  <2>3. ASSUME NEW r \in Req, AnswerReplay(r) PROVE TypeOK'
    BY <2>3 DEF AnswerReplay, Reply, Goto
  <2>4. ASSUME NEW r \in Req, CheckMiss(r) PROVE TypeOK'
    BY <2>4, JobTypes DEF CheckMiss, Goto
  <2>5. ASSUME NEW r \in Req, Deny(r) PROVE TypeOK'
    BY <2>5 DEF Deny, Reply, Goto
  <2>6. ASSUME NEW r \in Req, Authorise(r) PROVE TypeOK'
    BY <2>6 DEF Authorise, Goto
  <2>7. ASSUME NEW r \in Req, NEW f, NEW a \in Answer, RollBack(r, f, a) PROVE TypeOK'
    BY <2>7 DEF RollBack, Reply, Goto, CloseSession, NoImage, Image, Status
  <2>8. ASSUME NEW r \in Req, LockRow(r) PROVE TypeOK'
    BY <2>8 DEF LockRow, Goto, Image
  <2>9. ASSUME NEW r \in Req, Flush(r) PROVE TypeOK'
    BY <2>9, JobTypes, SMTT(20) DEF Flush, Goto, Image
  <2>10. ASSUME NEW r \in Req, Commit(r) PROVE TypeOK'
    BY <2>10 DEF Commit, Goto, CloseSession, NoImage, Image, Status
  <2>11. ASSUME NEW r \in Req, MarkDone(r) PROVE TypeOK'
    BY <2>11, JobTypes DEF MarkDone, Reply, Goto
  <2>12. ASSUME NEW r \in Req, Fail(r) PROVE TypeOK'
    BY <2>12, JobTypes DEF Fail, Reply, Goto, CloseSession, NoImage, Image, Status
  <2>13. ASSUME NEW a \in Account, OpenAccount(a) PROVE TypeOK'
    BY <2>13 DEF OpenAccount, Status
  <2>14. ASSUME NEW a \in Account, Freeze(a) PROVE TypeOK'
    BY <2>14 DEF Freeze, Status
  <2>15. ASSUME NEW m \in marks, ExpireMark(m) PROVE TypeOK'
    BY <2>15 DEF ExpireMark
  <2>16. CASE UNCHANGED vars
    BY <2>16 DEF vars
  <2>. QED
    BY <2>1, <2>2, <2>3, <2>4, <2>5, <2>6, <2>7, <2>8, <2>9, <2>10, <2>11,
       <2>12, <2>13, <2>14, <2>15, <2>16
       DEF Next, Handle, NotFound, RejectInactive, RejectInsufficient,
           FlushOverflow, Quiescent
<1>. QED
  BY <1>2

\* Spec keeps every variable in its type.
THEOREM TypeCorrect == Spec => []TypeOK
  BY TypeInit, TypeStep, PTL DEF Spec

-----------------------------------------------------------------------------
(* Isolation: what a handler computed from its snapshot is still true of the
   row when it commits, because it has held the row lock in between. *)

SnapshotCurrent(r) ==
  LET a == job[r].acc IN
  /\ pc[r] \in InTransaction => lock[a] = r /\ status[a] # "absent"
  /\ pc[r] = "locked" => snap[r] = [status  |-> status[a],
                                    balance |-> balance[a],
                                    version |-> version[a]]
  /\ pc[r] = "flushed" => /\ status[a] = "active"
                          /\ snap[r].balance = balance[a] + Delta(r)
                          /\ snap[r].version = version[a] + 1
                          /\ snap[r].balance \in 0 .. MaxBalance

Snapshots == \A r \in Req : SnapshotCurrent(r)

Isolation == TypeOK /\ BalanceInBounds /\ Snapshots

\* A handler that another one's step leaves alone, on a row that the step
\* leaves alone, keeps its snapshot.
LEMMA Undisturbed ==
  ASSUME TypeOK, NEW q \in Req, SnapshotCurrent(q),
         pc'[q] = pc[q], snap'[q] = snap[q], job' = job,
         pc[q] \in InTransaction =>
            /\ lock'[job[q].acc] = lock[job[q].acc]
            /\ status'[job[q].acc] = status[job[q].acc]
            /\ balance'[job[q].acc] = balance[job[q].acc]
            /\ version'[job[q].acc] = version[job[q].acc]
  PROVE  SnapshotCurrent(q)'
  BY DEF SnapshotCurrent, InTransaction, Delta

\* A handler outside its transaction has no snapshot to keep.
LEMMA OutsideTransaction ==
  ASSUME NEW q \in Req, pc'[q] \notin InTransaction
  PROVE  SnapshotCurrent(q)'
  BY DEF SnapshotCurrent, InTransaction

\* A step that touches no row and no lock, and takes one handler from outside
\* a transaction to outside a transaction.
LEMMA NoRowStep ==
  ASSUME Isolation, NEW r \in Req, NEW to \in PC \ InTransaction,
         pc' = [pc EXCEPT ![r] = to],
         UNCHANGED <<row, lock, job, snap>>
  PROVE  /\ BalanceInBounds'
         /\ Snapshots'
<1> USE DEF Isolation, Snapshots, row
<1>1. BalanceInBounds'
  BY DEF BalanceInBounds
<1>2. ASSUME NEW q \in Req PROVE SnapshotCurrent(q)'
  <2>1. CASE q = r
    BY <2>1, OutsideTransaction DEF TypeOK
  <2>2. CASE q # r
    BY <2>2, Undisturbed DEF TypeOK
  <2>. QED BY <2>1, <2>2
<1>. QED
  BY <1>1, <1>2

\* A step that ends a handler, its transaction included, without a commit.
LEMMA EndStep ==
  ASSUME Isolation, NEW r \in Req, pc' = [pc EXCEPT ![r] = "answered"],
         CloseSession(r), UNCHANGED <<row, job>>
  PROVE  /\ BalanceInBounds'
         /\ Snapshots'
<1> USE DEF Isolation, Snapshots, row
<1>1. BalanceInBounds'
  BY DEF BalanceInBounds
<1>2. ASSUME NEW q \in Req PROVE SnapshotCurrent(q)'
  <2>1. CASE q = r
    BY <2>1, OutsideTransaction DEF TypeOK, InTransaction
  <2>2. CASE q # r
    <3>1. pc'[q] = pc[q] /\ snap'[q] = snap[q]
      BY <2>2 DEF TypeOK, CloseSession
    <3>2. pc[q] \in InTransaction => lock[job[q].acc] = q
      BY DEF SnapshotCurrent
    <3>3. pc[q] \in InTransaction => lock'[job[q].acc] = lock[job[q].acc]
      BY <2>2, <3>2, JobTypes DEF CloseSession, TypeOK
    <3>. QED
      BY <3>1, <3>3, Undisturbed
  <2>. QED BY <2>1, <2>2
<1>. QED
  BY <1>1, <1>2

\* The row lock makes a handler's read-compute-write indivisible (lines
\* 124-144): its snapshot is current until its own commit.
THEOREM IsolationInductive == Spec => []Isolation
<1> USE AccountLedgerAssumption
<1>1. Init => Isolation
  BY TypeInit
     DEF Init, Isolation, BalanceInBounds, Snapshots, SnapshotCurrent,
         InTransaction
<1>2. ASSUME Isolation, [Next]_vars
      PROVE  BalanceInBounds' /\ Snapshots'
  <2> USE <1>2
  <2>1. ASSUME NEW r \in Req,
               \/ Arrive(r) \/ CheckHit(r) \/ AnswerReplay(r) \/ CheckMiss(r)
               \/ Deny(r) \/ Authorise(r) \/ MarkDone(r)
        PROVE  BalanceInBounds' /\ Snapshots'
    <3>1. PICK to \in PC \ InTransaction : pc' = [pc EXCEPT ![r] = to]
      BY <2>1 DEF Arrive, CheckHit, AnswerReplay, CheckMiss, Deny, Authorise,
                  MarkDone, Reply, Goto, PC, InFlight, PastCheck, InTransaction
    <3>2. UNCHANGED <<row, lock, job, snap>>
      BY <2>1 DEF Arrive, CheckHit, AnswerReplay, CheckMiss, Deny, Authorise,
                  MarkDone
    <3>. QED
      BY <3>1, <3>2, NoRowStep
  <2>2. ASSUME NEW r \in Req, NEW f, NEW a, RollBack(r, f, a)
        PROVE  BalanceInBounds' /\ Snapshots'
    BY <2>2, EndStep DEF RollBack, Reply, Goto
  <2>3. ASSUME NEW r \in Req, Fail(r)
        PROVE  BalanceInBounds' /\ Snapshots'
    BY <2>3, EndStep DEF Fail, Reply, Goto
  <2>4. ASSUME NEW r \in Req, LockRow(r)
        PROVE  BalanceInBounds' /\ Snapshots'
    <3>1. BalanceInBounds'
      BY <2>4 DEF LockRow, row, BalanceInBounds, Isolation
    <3>2. ASSUME NEW q \in Req PROVE SnapshotCurrent(q)'
      <4>1. CASE q = r
        BY <4>1, <2>4, JobTypes
           DEF LockRow, Goto, row, SnapshotCurrent, Snapshots, Isolation, TypeOK
      <4>2. CASE q # r
        <5>1. pc[q] \in InTransaction => lock[job[q].acc] = q
          BY DEF Isolation, Snapshots, SnapshotCurrent
        <5>2. pc[q] \in InTransaction => lock'[job[q].acc] = lock[job[q].acc]
          BY <2>4, <4>2, <5>1, JobTypes DEF LockRow, Isolation, TypeOK
        <5>3. pc'[q] = pc[q] /\ snap'[q] = snap[q]
          BY <2>4, <4>2 DEF LockRow, Goto, Isolation, TypeOK
        <5>. QED
          BY <2>4, <5>2, <5>3, Undisturbed DEF LockRow, row, Isolation, Snapshots
      <4>. QED BY <4>1, <4>2
    <3>. QED BY <3>1, <3>2 DEF Snapshots
  <2>5. ASSUME NEW r \in Req, Flush(r)
        PROVE  BalanceInBounds' /\ Snapshots'
    <3>1. BalanceInBounds'
      BY <2>5 DEF Flush, row, BalanceInBounds, Isolation
    <3>2. ASSUME NEW q \in Req PROVE SnapshotCurrent(q)'
      <4>1. CASE q = r
        <5> DEFINE a == job[r].acc
        <5>1. /\ snap[r].status = status[a]
              /\ snap[r].balance = balance[a]
              /\ snap[r].version = version[a]
              /\ lock[a] = r
          <6>1. SnapshotCurrent(r) /\ pc[r] = "locked"
            BY <2>5 DEF Flush, Goto, Isolation, Snapshots
          <6>. QED
            BY <6>1 DEF SnapshotCurrent, InTransaction
        <5>2. /\ a \in Account
              /\ snap[r] \in Image
              /\ balance[a] \in 0 .. MaxBalance
          BY JobTypes DEF Isolation, TypeOK, BalanceInBounds
        <5>3. /\ snap'[r].balance = balance[a] + Delta(r)
              /\ snap'[r].version = version[a] + 1
              /\ status[a] = "active"
          BY <2>5, <5>1, <5>2 DEF Flush, MayMove, Isolation, TypeOK, Image
        <5>4. job[r].amt \in Nat /\ job[r].op \in Op
          <6>1. job[r] \in Job
            BY DEF Isolation, TypeOK
          <6>. QED
            BY <6>1 DEF Job
        <5>5. balance[a] + Delta(r) \in 0 .. MaxBalance
          BY <2>5, <5>1, <5>2, <5>4 DEF Flush, MayMove, Delta, Op
        <5>6. pc'[r] = "flushed" /\ UNCHANGED <<row, lock, job>>
          BY <2>5 DEF Flush, Goto, Isolation, TypeOK
        <5>. QED
          BY <4>1, <5>1, <5>3, <5>5, <5>6
             DEF SnapshotCurrent, row, InTransaction, Delta
      <4>2. CASE q # r
        <5>1. pc'[q] = pc[q] /\ snap'[q] = snap[q]
          BY <2>5, <4>2 DEF Flush, Goto, Isolation, TypeOK
        <5>. QED
          BY <2>5, <5>1, Undisturbed DEF Flush, row, Isolation, Snapshots
      <4>. QED BY <4>1, <4>2
    <3>. QED BY <3>1, <3>2 DEF Snapshots
  <2>6. ASSUME NEW r \in Req, Commit(r)
        PROVE  BalanceInBounds' /\ Snapshots'
    <3>1. job[r].acc \in Account /\ lock[job[r].acc] = r
          /\ snap[r].balance \in 0 .. MaxBalance
      BY <2>6, JobTypes
         DEF Commit, Goto, Isolation, Snapshots, SnapshotCurrent, InTransaction
    <3>2. BalanceInBounds'
      BY <2>6, <3>1 DEF Commit, BalanceInBounds, Isolation, TypeOK
    <3>3. ASSUME NEW q \in Req PROVE SnapshotCurrent(q)'
      <4>1. CASE q = r
        BY <4>1, <2>6, OutsideTransaction
           DEF Commit, Goto, Isolation, TypeOK, InTransaction
      <4>2. CASE q # r
        <5>1. pc'[q] = pc[q] /\ snap'[q] = snap[q]
          BY <2>6, <4>2 DEF Commit, Goto, CloseSession, Isolation, TypeOK
        <5>2. pc[q] \in InTransaction => job[q].acc # job[r].acc
          BY <3>1, <4>2 DEF Isolation, Snapshots, SnapshotCurrent
        <5>3. job[q].acc \in Account
          BY JobTypes DEF Isolation
        <5>. QED
          BY <2>6, <3>1, <5>1, <5>2, <5>3, Undisturbed
             DEF Commit, CloseSession, Isolation, Snapshots, TypeOK
      <4>. QED BY <4>1, <4>2
    <3>. QED BY <3>2, <3>3 DEF Snapshots
  <2>7. ASSUME NEW a \in Account, OpenAccount(a) \/ Freeze(a)
        PROVE  BalanceInBounds' /\ Snapshots'
    <3>1. BalanceInBounds'
      BY <2>7 DEF OpenAccount, Freeze, BalanceInBounds, Isolation
    <3>2. ASSUME NEW q \in Req PROVE SnapshotCurrent(q)'
      <4>1. job[q].acc \in Account
        BY JobTypes DEF Isolation
      <4>2. pc[q] \in InTransaction => lock[job[q].acc] = q
        BY DEF Isolation, Snapshots, SnapshotCurrent
      <4>3. CASE job[q].acc = a /\ Freeze(a)
        BY <4>2, <4>3, OutsideTransaction DEF Freeze
      <4>4. CASE job[q].acc # a
        BY <2>7, <4>1, <4>4, Undisturbed
           DEF OpenAccount, Freeze, Isolation, Snapshots, TypeOK
      <4>5. CASE job[q].acc = a /\ OpenAccount(a)
        <5>1. pc[q] \notin InTransaction
          BY <4>5 DEF OpenAccount, Isolation, Snapshots, SnapshotCurrent
        <5>. QED
          BY <4>5, <5>1, OutsideTransaction DEF OpenAccount
      <4>. QED BY <2>7, <4>3, <4>4, <4>5
    <3>. QED BY <3>1, <3>2 DEF Snapshots
  <2>8. ASSUME NEW m \in marks, ExpireMark(m)
        PROVE  BalanceInBounds' /\ Snapshots'
    BY <2>8, Undisturbed
       DEF ExpireMark, row, BalanceInBounds, Isolation, Snapshots
  <2>9. CASE UNCHANGED vars
    BY <2>9, Undisturbed DEF vars, row, BalanceInBounds, Isolation, Snapshots
  <2>. QED
    BY <2>1, <2>2, <2>3, <2>4, <2>5, <2>6, <2>7, <2>8, <2>9
       DEF Next, Handle, NotFound, RejectInactive, RejectInsufficient,
           FlushOverflow, Quiescent
<1>3. Isolation /\ [Next]_vars => Isolation'
  BY <1>2, TypeStep DEF Isolation
<1>. QED
  BY <1>1, <1>3, PTL DEF Spec

\* No interleaving of handlers drives a committed balance below zero or past
\* the column's width.
THEOREM NoOverdraft == Spec => []BalanceInBounds
  BY IsolationInductive, PTL DEF Isolation

-----------------------------------------------------------------------------
(* Refinement: the rows behave as the atomic ledger. *)

\* Only three kinds of step touch a row, and each is a step of the ledger.
LEMMA LedgerStep ==
  ASSUME Isolation, [Next]_vars
  PROVE  [AbstractLedger!Next]_(AbstractLedger!ledgerVars)
<1> USE DEF AbstractLedger!Next, AbstractLedger!ledgerVars
<1>1. ASSUME NEW r \in Req, Commit(r)
      PROVE  AbstractLedger!Next
  <2> DEFINE a == job[r].acc
             d == Delta(r)
  <2>1. SnapshotCurrent(r) /\ pc[r] = "flushed"
    BY <1>1 DEF Commit, Goto, Isolation, Snapshots
  <2>2. a \in Account /\ balance[a] \in Int /\ d \in Int
    BY JobTypes DEF Isolation, TypeOK
  <2>3. AbstractLedger!Move(a, d)
    BY <1>1, <2>1, <2>2
       DEF AbstractLedger!Move, Commit, SnapshotCurrent, Isolation, TypeOK
  <2>4. PICK m \in Amount : d = m \/ d = -m
    <3>1. job[r] \in Job
      BY DEF Isolation, TypeOK
    <3>. QED
      BY <3>1 DEF Job, Delta
  <2>. QED
    BY <2>2, <2>3, <2>4
<1>2. ASSUME NEW a \in Account, OpenAccount(a)
      PROVE  AbstractLedger!Next
  BY <1>2 DEF OpenAccount, AbstractLedger!Open
<1>3. ASSUME NEW a \in Account, Freeze(a)
      PROVE  AbstractLedger!Next
  BY <1>3 DEF Freeze, AbstractLedger!Freeze
<1>4. ASSUME NEW r \in Req,
             Arrive(r) \/ (Handle(r) /\ ~Commit(r)) \/ Fail(r)
      PROVE  UNCHANGED row
  BY <1>4
     DEF Handle, Arrive, CheckHit, AnswerReplay, CheckMiss, Deny, Authorise,
         NotFound, LockRow, RejectInactive, RejectInsufficient, Flush,
         FlushOverflow, MarkDone, Fail, RollBack
<1>5. ASSUME NEW m \in marks, ExpireMark(m)
      PROVE  UNCHANGED row
  BY <1>5 DEF ExpireMark
<1>. QED
  BY <1>1, <1>2, <1>3, <1>4, <1>5 DEF Next, Quiescent, vars, row

\* Whatever handlers interleave, fail or are retried, an observer of the rows
\* sees atomic openings, freezes and movements only.
THEOREM RefinesLedger == Spec => ImplementsLedger
<1>1. Init => AbstractLedger!Init
  BY DEF Init, AbstractLedger!Init
<1>2. Isolation /\ [Next]_vars
        => [AbstractLedger!Next]_(AbstractLedger!ledgerVars)
  BY LedgerStep
<1>. QED
  BY <1>1, <1>2, IsolationInductive, PTL
     DEF Spec, ImplementsLedger, AbstractLedger!Spec

-----------------------------------------------------------------------------
(* Idempotency: what the marker does and does not guarantee. *)

\* How the outcome of a handler and its commit relate.
Outcomes ==
  \A r \in Req :
    /\ r \in applied => pc[r] \in {"committed", "answered"}
    /\ pc[r] = "committed" => r \in applied
    /\ answer[r] # "none" => pc[r] = "answered"
    /\ answer[r] = "ok" => r \in applied
    /\ answer[r] = "rejected" => r \notin applied

\* A marker, and a handler that read one, witness a committed movement.
Witnessed ==
  /\ \A m \in marks : \E q \in applied : MarkOf(q) = m
  /\ \A r \in Req : pc[r] = "replaying" \/ answer[r] = "replayed" =>
       \E q \in applied : MarkOf(q) = MarkOf(r)

\* Outside the windows, a committed movement is marked or about to be, and
\* excludes any other handler with its marker past the check.
Marked(p) ==
  p \in applied /\ MarkOf(p) \notin exposed =>
     MarkOf(p) \in marks \/ pc[p] = "committed"

Alone(p, q) ==
  p # q /\ MarkOf(p) = MarkOf(q) /\ MarkOf(p) \notin exposed =>
     /\ ~(pc[p] \in PastCheck /\ pc[q] \in PastCheck)
     /\ p \in applied => q \notin applied /\ pc[q] \notin PastCheck

Idempotency == /\ TypeOK /\ Outcomes /\ Witnessed
               /\ \A p \in Req : Marked(p)
               /\ \A p, q \in Req : Alone(p, q)

\* One step of any handler or of the environment keeps the outcomes right.
LEMMA OutcomesStep ==
  ASSUME TypeOK, Outcomes, [Next]_vars
  PROVE  Outcomes'
<1> USE DEF Outcomes, TypeOK, PC, InFlight, PastCheck, InTransaction
<1>1. ASSUME NEW r \in Req,
             \/ Arrive(r) \/ CheckHit(r) \/ CheckMiss(r) \/ Authorise(r)
             \/ LockRow(r) \/ Flush(r)
      PROVE  Outcomes'
  BY <1>1 DEF Arrive, CheckHit, CheckMiss, Authorise, LockRow, Flush, Goto
<1>2. ASSUME NEW r \in Req, AnswerReplay(r) \/ Deny(r) PROVE Outcomes'
  BY <1>2 DEF AnswerReplay, Deny, Reply, Goto
<1>3. ASSUME NEW r \in Req, NEW f \in {"locking", "locked"},
             NEW a \in {"rejected", "error"}, RollBack(r, f, a)
      PROVE  Outcomes'
  BY <1>3 DEF RollBack, Reply, Goto
<1>4. ASSUME NEW r \in Req, Commit(r) PROVE Outcomes'
  BY <1>4 DEF Commit, Goto
<1>5. ASSUME NEW r \in Req, MarkDone(r) PROVE Outcomes'
  BY <1>5 DEF MarkDone, Reply, Goto
<1>6. ASSUME NEW r \in Req, Fail(r) PROVE Outcomes'
  BY <1>6 DEF Fail, Reply, Goto
<1>7. ASSUME UNCHANGED <<pc, answer, applied>> PROVE Outcomes'
  BY <1>7
<1>. QED
  BY <1>1, <1>2, <1>3, <1>4, <1>5, <1>6, <1>7
     DEF Next, Handle, NotFound, RejectInactive, RejectInsufficient,
         FlushOverflow, Quiescent, OpenAccount, Freeze, ExpireMark, vars

\* job never changes, so a marker's name stays with its request.
LEMMA MarkOfStable ==
  ASSUME [Next]_vars
  PROVE  job' = job /\ \A r \in Req : MarkOf(r)' = MarkOf(r)
<1>1. job' = job
  BY DEF Next, Handle, Arrive, CheckHit, AnswerReplay, CheckMiss, Deny,
         Authorise, NotFound, LockRow, RejectInactive, RejectInsufficient,
         Flush, FlushOverflow, Commit, MarkDone, Fail, RollBack, OpenAccount,
         Freeze, ExpireMark, Quiescent, vars
<1>. QED
  BY <1>1 DEF MarkOf

\* Committed movements and exposed markers are never forgotten.
LEMMA HistoryGrows ==
  ASSUME [Next]_vars
  PROVE  applied \subseteq applied' /\ exposed \subseteq exposed'
BY DEF Next, Handle, Arrive, CheckHit, AnswerReplay, CheckMiss, Deny,
       Authorise, NotFound, LockRow, RejectInactive, RejectInsufficient,
       Flush, FlushOverflow, Commit, MarkDone, Fail, RollBack, OpenAccount,
       Freeze, ExpireMark, Quiescent, vars

\* Markers are written after a commit only, and read by later requests.
LEMMA WitnessedStep ==
  ASSUME TypeOK, Outcomes, Witnessed, [Next]_vars
  PROVE  Witnessed'
<1> USE DEF TypeOK
<1>1. applied \subseteq applied' /\ applied \subseteq Req
  BY HistoryGrows
<1>2. \A r \in Req : MarkOf(r)' = MarkOf(r)
  BY MarkOfStable
<1>3. ASSUME NEW m \in marks' PROVE \E q \in applied' : MarkOf(q)' = m
  <2>1. m \in marks \/ \E r \in Req : MarkDone(r) /\ m = MarkOf(r)
    BY DEF Next, Handle, Arrive, CheckHit, AnswerReplay, CheckMiss, Deny,
       Authorise, NotFound, LockRow, RejectInactive, RejectInsufficient,
       Flush, FlushOverflow, Commit, MarkDone, Fail, RollBack, OpenAccount,
       Freeze, ExpireMark, Quiescent, vars
  <2>2. CASE m \in marks
    BY <1>1, <1>2, <2>2 DEF Witnessed
  <2>3. ASSUME NEW r \in Req, MarkDone(r), m = MarkOf(r)
        PROVE  \E q \in applied' : MarkOf(q)' = m
    <3>1. r \in applied
      BY <2>3 DEF MarkDone, Reply, Goto, Outcomes
    <3>. QED
      BY <1>1, <1>2, <2>3, <3>1
  <2>. QED BY <2>1, <2>2, <2>3
<1>4. ASSUME NEW r \in Req, pc'[r] = "replaying" \/ answer'[r] = "replayed"
      PROVE  \E q \in applied' : MarkOf(q)' = MarkOf(r)'
  <2>1. \/ pc[r] = "replaying" \/ answer[r] = "replayed"
        \/ MarkOf(r) \in marks
    <3>1. ASSUME NEW p \in Req, Arrive(p) \/ Handle(p) \/ Fail(p)
          PROVE  \/ pc[r] = "replaying" \/ answer[r] = "replayed"
                 \/ MarkOf(r) \in marks
      BY <1>4, <3>1
         DEF Handle, Arrive, CheckHit, AnswerReplay, CheckMiss, Deny,
             Authorise, NotFound, LockRow, RejectInactive,
             RejectInsufficient, Flush, FlushOverflow, Commit, MarkDone,
             Fail, RollBack, Reply, Goto
    <3>. QED
      BY <1>4, <3>1 DEF Next, OpenAccount, Freeze, ExpireMark, Quiescent, vars
  <2>. QED
    BY <1>1, <1>2, <2>1 DEF Witnessed
<1>. QED
  BY <1>3, <1>4 DEF Witnessed

\* The only ways a step touches a commit, a marker or a passed check.
LEMMA WindowSteps ==
  ASSUME TypeOK, Outcomes, [Next]_vars, NEW p \in Req
  PROVE  /\ p \in applied' /\ p \notin applied =>
              /\ pc[p] = "flushed" /\ pc'[p] = "committed"
              /\ applied' = applied \cup {p}
              /\ \A q \in Req \ {p} : pc'[q] = pc[q]
         /\ pc[p] = "committed" /\ pc'[p] # "committed" =>
              MarkOf(p) \in marks' \cup exposed'
         /\ pc'[p] \in PastCheck /\ pc[p] \notin PastCheck =>
              /\ MarkOf(p) \notin marks
              /\ applied' = applied
              /\ \A q \in Req \ {p} :
                    /\ pc'[q] = pc[q]
                    /\ pc[q] \in PastCheck /\ MarkOf(q) = MarkOf(p) =>
                         MarkOf(p) \in exposed'
         /\ marks \subseteq marks' \cup exposed'
<1> USE DEF TypeOK, PastCheck
<1>1. ASSUME NEW r \in Req,
             \/ Arrive(r) \/ CheckHit(r) \/ AnswerReplay(r) \/ Deny(r)
             \/ Authorise(r) \/ NotFound(r) \/ LockRow(r)
             \/ RejectInactive(r) \/ RejectInsufficient(r) \/ Flush(r)
             \/ FlushOverflow(r)
      PROVE  /\ applied' = applied /\ marks' = marks
             /\ pc[p] = "committed" => pc'[p] = "committed"
             /\ pc'[p] \in PastCheck => pc[p] \in PastCheck
  BY <1>1
     DEF Arrive, CheckHit, AnswerReplay, Deny, Authorise, NotFound, LockRow,
         RejectInactive, RejectInsufficient, Flush, FlushOverflow, RollBack,
         Reply, Goto
<1>2. ASSUME NEW r \in Req, CheckMiss(r)
      PROVE  /\ applied' = applied /\ marks' = marks
             /\ pc[p] = "committed" => pc'[p] = "committed"
             /\ pc'[p] \in PastCheck /\ pc[p] \notin PastCheck =>
                  /\ MarkOf(p) \notin marks
                  /\ \A q \in Req \ {p} :
                        /\ pc'[q] = pc[q]
                        /\ pc[q] \in PastCheck /\ MarkOf(q) = MarkOf(p) =>
                             MarkOf(p) \in exposed'
  BY <1>2 DEF CheckMiss, Goto
<1>3. ASSUME NEW r \in Req, Commit(r)
      PROVE  /\ p \in applied' /\ p \notin applied =>
                  /\ pc[p] = "flushed" /\ pc'[p] = "committed"
                  /\ applied' = applied \cup {p}
                  /\ \A q \in Req \ {p} : pc'[q] = pc[q]
             /\ pc[p] = "committed" => pc'[p] = "committed"
             /\ pc'[p] \in PastCheck => pc[p] \in PastCheck
             /\ marks' = marks
  BY <1>3 DEF Commit, Goto
<1>4. ASSUME NEW r \in Req, MarkDone(r)
      PROVE  /\ applied' = applied
             /\ pc[p] = "committed" /\ pc'[p] # "committed" =>
                  MarkOf(p) \in marks'
             /\ pc'[p] \in PastCheck => pc[p] \in PastCheck
             /\ marks \subseteq marks'
  BY <1>4 DEF MarkDone, Reply, Goto
<1>5. ASSUME NEW r \in Req, Fail(r)
      PROVE  /\ applied' = applied /\ marks' = marks
             /\ pc[p] = "committed" /\ pc'[p] # "committed" =>
                  MarkOf(p) \in exposed'
             /\ pc'[p] \in PastCheck => pc[p] \in PastCheck
  BY <1>5 DEF Fail, Reply, Goto
<1>6. ASSUME NEW m \in marks, ExpireMark(m)
      PROVE  UNCHANGED <<pc, applied>> /\ marks \subseteq marks' \cup exposed'
  BY <1>6 DEF ExpireMark
<1>7. ASSUME NEW a \in Account, OpenAccount(a) \/ Freeze(a)
      PROVE  UNCHANGED <<pc, applied, marks>>
  BY <1>7 DEF OpenAccount, Freeze
<1>8. UNCHANGED vars => UNCHANGED <<pc, applied, marks>>
  BY DEF vars
<1>. QED
  BY <1>1, <1>2, <1>3, <1>4, <1>5, <1>6, <1>7, <1>8
     DEF Next, Handle, Quiescent

\* A committed movement stays marked until its marker is lost.
LEMMA MarkedStep ==
  ASSUME Idempotency, [Next]_vars, NEW p \in Req
  PROVE  Marked(p)'
<1>1. MarkOf(p)' = MarkOf(p) /\ exposed \subseteq exposed'
  BY MarkOfStable, HistoryGrows
<1>2. SUFFICES ASSUME p \in applied', MarkOf(p) \notin exposed'
               PROVE  MarkOf(p) \in marks' \/ pc'[p] = "committed"
  BY <1>1 DEF Marked
<1>3. CASE p \notin applied
  BY <1>2, <1>3, WindowSteps DEF Idempotency
<1>4. CASE p \in applied
  <2>1. MarkOf(p) \in marks \/ pc[p] = "committed"
    BY <1>1, <1>2, <1>4 DEF Idempotency, Marked
  <2>2. CASE MarkOf(p) \in marks
    BY <1>2, <2>2, WindowSteps DEF Idempotency
  <2>3. CASE pc[p] = "committed"
    BY <1>2, <2>3, WindowSteps DEF Idempotency
  <2>. QED BY <2>1, <2>2, <2>3
<1>. QED
  BY <1>3, <1>4

\* Two requests with one marker stay apart until a window is hit.
LEMMA AloneStep ==
  ASSUME Idempotency, [Next]_vars, NEW p \in Req, NEW q \in Req
  PROVE  Alone(p, q)'
<1>1. /\ MarkOf(p)' = MarkOf(p) /\ MarkOf(q)' = MarkOf(q)
      /\ exposed \subseteq exposed'
  BY MarkOfStable, HistoryGrows
<1>2. SUFFICES ASSUME p # q, MarkOf(p) = MarkOf(q), MarkOf(p) \notin exposed'
               PROVE  /\ ~(pc'[p] \in PastCheck /\ pc'[q] \in PastCheck)
                      /\ p \in applied' => /\ q \notin applied'
                                           /\ pc'[q] \notin PastCheck
  BY <1>1 DEF Alone
<1>3. /\ ~(pc[p] \in PastCheck /\ pc[q] \in PastCheck)
      /\ p \in applied => q \notin applied /\ pc[q] \notin PastCheck
      /\ q \in applied => p \notin applied /\ pc[p] \notin PastCheck
      /\ p \in applied => MarkOf(p) \in marks \/ pc[p] = "committed"
  BY <1>1, <1>2 DEF Idempotency, Alone, Marked
<1>4. /\ pc'[p] \in PastCheck /\ pc[p] \notin PastCheck =>
           pc'[q] = pc[q] /\ pc[q] \notin PastCheck
      /\ pc'[q] \in PastCheck /\ pc[q] \notin PastCheck =>
           /\ pc'[p] = pc[p] /\ pc[p] \notin PastCheck
           /\ MarkOf(q) \notin marks
           /\ applied' = applied
      /\ p \in applied' /\ p \notin applied =>
           /\ pc[p] = "flushed" /\ applied' = applied \cup {p}
           /\ pc'[q] = pc[q]
      /\ q \in applied' /\ q \notin applied => pc[q] = "flushed"
  BY <1>2, WindowSteps DEF Idempotency
<1>5. ~(pc'[p] \in PastCheck /\ pc'[q] \in PastCheck)
  BY <1>3, <1>4
<1>6. ASSUME p \in applied' PROVE q \notin applied' /\ pc'[q] \notin PastCheck
  <2>1. CASE p \in applied
    BY <1>2, <1>3, <1>4, <2>1 DEF PastCheck
  <2>2. CASE p \notin applied
    <3>1. pc[p] \in PastCheck /\ applied' = applied \cup {p} /\ pc'[q] = pc[q]
      BY <1>4, <1>6, <2>2 DEF PastCheck
    <3>. QED
      BY <1>2, <1>3, <3>1
  <2>. QED BY <2>1, <2>2
<1>. QED
  BY <1>5, <1>6

\* Markers, checks and commits keep to the idempotency discipline.
THEOREM IdempotencyInductive == Spec => []Idempotency
<1>1. Init => Idempotency
  BY TypeInit
     DEF Init, Idempotency, Outcomes, Witnessed, Marked, Alone, PastCheck
<1>2. ASSUME Idempotency, [Next]_vars PROVE Idempotency'
  <2>1. TypeOK' /\ Outcomes' /\ Witnessed'
    BY <1>2, TypeStep, OutcomesStep, WitnessedStep DEF Idempotency
  <2>. QED
    BY <1>2, <2>1, MarkedStep, AloneStep DEF Idempotency
<1>. QED
  BY <1>1, <1>2, PTL DEF Spec

\* A retried request moves the money again only through one of the three
\* windows between lines 113 and 145 of routes_accounts.py.
THEOREM OnceOutsideWindows == Spec => []AtMostOnceOutsideWindows
<1>1. Idempotency => AtMostOnceOutsideWindows
  BY DEF Idempotency, Alone, AtMostOnceOutsideWindows, TypeOK
<1>. QED
  BY <1>1, IdempotencyInductive, PTL

\* What the caller is told agrees with what was committed.
THEOREM HonestAnswers == Spec => []AnswersAreHonest
<1>1. Idempotency => AnswersAreHonest
  <2>1. \A p, q \in Req : MarkOf(q) = MarkOf(p) =>
           /\ job[q].op = job[p].op
           /\ job[q].acc = job[p].acc
           /\ job[q].key = job[p].key
    BY DEF MarkOf
  <2>. QED
    BY <2>1 DEF Idempotency, Outcomes, Witnessed, AnswersAreHonest, TypeOK
<1>. QED
  BY <1>1, IdempotencyInductive, PTL
-----------------------------------------------------------------------------
(* Sums over finite sets.  The library's MapThenSumSet takes the elements in
   the order CHOOSE gives, so a larger set's sum need not pass through a
   smaller one's.  That the order does not matter takes an induction; since
   the library's induction theorems cannot be instantiated here, each one is
   the argument that a set of counterexamples has no smallest member. *)

\* The element that is taken first.
Pick(s) == CHOOSE x \in s : TRUE

\* g[s] is the sum of f over s, for every subset s of S.
Adds(g, f, S) ==
  g = [s \in SUBSET S |-> IF s = {} THEN 0 ELSE f[Pick(s)] + g[s \ {Pick(s)}]]

\* A set that is not empty has a first element.
LEMMA Picked == \A s : s # {} => Pick(s) \in s
  BY DEF Pick

\* Finite sets cannot shrink for ever: any collection of them has a member
\* none of whose proper subsets is in the collection.
LEMMA SmallestSet ==
  ASSUME NEW S, NEW T \in SUBSET FiniteSubsetsOf(S), T # {}
  PROVE  \E U \in T : \A V \in SUBSET U : V # U => V \notin T
<1>1. PICK U \in T : \A V \in T : ~(<<V, U>> \in StrictSubsetOrdering(S))
  BY FS_StrictSubsetOrderingWellFounded, WFMin
<1>2. ASSUME NEW V \in SUBSET U, V # U, V \in T
      PROVE  FALSE
  <2>1. <<V, U>> \in StrictSubsetOrdering(S)
    BY <1>2 DEF StrictSubsetOrdering, FiniteSubsetsOf
  <2>. QED
    BY <1>1, <1>2, <2>1
<1>. QED
  BY <1>2

\* One step of the sum.
LEMMA AddsStep ==
  ASSUME NEW f, NEW S, NEW g, Adds(g, f, S), NEW s \in SUBSET S
  PROVE  /\ s = {} => g[s] = 0
         /\ s # {} => g[s] = f[Pick(s)] + g[s \ {Pick(s)}]
BY DEF Adds

\* Two sums of one function agree on the sets that both cover.
LEMMA AddsAgree ==
  ASSUME NEW f, NEW S, NEW V, NEW g, NEW h, Adds(g, f, S), Adds(h, f, V),
         NEW s \in SUBSET (S \cap V), IsFiniteSet(s)
  PROVE  g[s] = h[s]
<1> DEFINE D == S \cap V
           Bad == {u \in FiniteSubsetsOf(D) : g[u] # h[u]}
<1>1. SUFFICES ASSUME Bad # {} PROVE FALSE
  BY DEF FiniteSubsetsOf
<1> HIDE DEF D
<1>2. PICK u \in Bad : \A v \in SUBSET u : v # u => v \notin Bad
  BY <1>1, SmallestSet, ZenonT(40)
<1> USE DEF D
<1>3. /\ u \in SUBSET S /\ u \in SUBSET V /\ u \in SUBSET (S \cap V)
      /\ IsFiniteSet(u) /\ g[u] # h[u]
  BY DEF FiniteSubsetsOf
<1>4. CASE u = {}
  BY <1>3, <1>4, AddsStep
<1>5. CASE u # {}
  <2>1. Pick(u) \in u
    BY <1>5, Picked
  <2>2. u \ {Pick(u)} \in FiniteSubsetsOf(S \cap V)
    BY <1>3, FS_Subset DEF FiniteSubsetsOf
  <2>3. g[u \ {Pick(u)}] = h[u \ {Pick(u)}]
    BY <1>2, <2>1, <2>2
  <2>4. /\ g[u] = f[Pick(u)] + g[u \ {Pick(u)}]
        /\ h[u] = f[Pick(u)] + h[u \ {Pick(u)}]
    BY <1>3, <1>5, AddsStep, SMTT(20)
  <2>. QED
    BY <1>3, <2>3, <2>4, Zenon
<1>. QED
  BY <1>4, <1>5

\* The recursion does define a function: the sums of the proper subsets,
\* which agree, determine the next one.
LEMMA AddsExist ==
  ASSUME NEW f, NEW S, IsFiniteSet(S)
  PROVE  \E g : Adds(g, f, S)
<1> DEFINE Bad == {u \in FiniteSubsetsOf(S) : \A g : ~Adds(g, f, u)}
<1>1. SUFFICES ASSUME Bad # {} PROVE FALSE
  BY FS_Subset DEF FiniteSubsetsOf
<1>2. PICK u \in Bad : \A v \in SUBSET u : v # u => v \notin Bad
  BY <1>1, SmallestSet
<1>3. u \in SUBSET S /\ IsFiniteSet(u) /\ \A g : ~Adds(g, f, u)
  BY DEF FiniteSubsetsOf
<1> DEFINE G(v) == CHOOSE g : Adds(g, f, v)
           Below == {v \in SUBSET u : v # u}
           h == [s \in SUBSET u |->
                   IF s = {} THEN 0
                   ELSE f[Pick(s)] + G(s \ {Pick(s)})[s \ {Pick(s)}]]
<1>4. ASSUME NEW v \in Below PROVE Adds(G(v), f, v) /\ IsFiniteSet(v)
  <2>1. v \in FiniteSubsetsOf(S)
    BY <1>3, FS_Subset DEF FiniteSubsetsOf
  <2>2. \E g : Adds(g, f, v)
    BY <1>2, <2>1
  <2>. QED
    BY <2>1, <2>2, Zenon DEF FiniteSubsetsOf
<1> HIDE DEF G
<1>5. ASSUME NEW v \in Below PROVE h[v] = G(v)[v]
  <2>1. CASE v = {}
    <3>1. Adds(G(v), f, v) /\ v \in SUBSET v
      BY <1>4
    <3>2. G(v)[v] = 0
      BY <2>1, <3>1, AddsStep
    <3>. QED
      BY <2>1, <3>2
  <2>2. CASE v # {}
    <3> DEFINE w == v \ {Pick(v)}
    <3>1. w \in Below /\ w \in SUBSET v
      BY <2>2, Picked
    <3>2. Adds(G(v), f, v) /\ Adds(G(w), f, w) /\ IsFiniteSet(w)
      BY <1>4, <3>1
    <3>3. G(v)[w] = G(w)[w]
      BY <3>1, <3>2, AddsAgree
    <3>4. G(v)[v] = f[Pick(v)] + G(v)[w]
      BY <2>2, <3>2, AddsStep
    <3>5. h[v] = f[Pick(v)] + G(w)[w]
      BY <2>2
    <3>. QED
      BY <3>3, <3>4, <3>5
  <2>. QED
    BY <2>1, <2>2
<1>6. \A s \in SUBSET u : s # {} => h[s \ {Pick(s)}] = G(s \ {Pick(s)})[s \ {Pick(s)}]
  <2>1. ASSUME NEW s \in SUBSET u, s # {} PROVE s \ {Pick(s)} \in Below
    BY <2>1, Picked
  <2>. QED
    BY <1>5, <2>1
<1>7. Adds(h, f, u)
  <2>1. h = [s \in SUBSET u |->
               IF s = {} THEN 0 ELSE f[Pick(s)] + h[s \ {Pick(s)}]]
    <3> DEFINE k == [s \in SUBSET u |->
                       IF s = {} THEN 0 ELSE f[Pick(s)] + h[s \ {Pick(s)}]]
    <3>1. ASSUME NEW s \in SUBSET u PROVE h[s] = k[s]
      <4>1. CASE s = {}
        BY <4>1
      <4>2. CASE s # {}
        <5>1. h[s] = f[Pick(s)] + G(s \ {Pick(s)})[s \ {Pick(s)}]
          BY <4>2
        <5>. QED
          BY <1>6, <4>2, <5>1
      <4>. QED
        BY <4>1, <4>2
    <3>. QED
      BY <3>1
  <2>. QED
    BY <2>1, Zenon DEF Adds
<1>. QED
  BY <1>3, <1>7

\* Two terms change places.
LEMMA Swap == \A i, j, k \in Int : i + (j + k) = j + (i + k)
  OBVIOUS

\* Any element may be taken first.
LEMMA AddsAnyOrder ==
  ASSUME NEW D, NEW f \in [D -> Int], NEW S \in SUBSET D, IsFiniteSet(S),
         NEW g, Adds(g, f, S)
  PROVE  \A s \in SUBSET S :
           g[s] \in Int /\ \A x \in s : g[s] = f[x] + g[s \ {x}]
<1> DEFINE Right(s) == g[s] \in Int /\ \A x \in s : g[s] = f[x] + g[s \ {x}]
           Bad == {u \in FiniteSubsetsOf(S) : ~Right(u)}
<1> HIDE DEF Right
<1>1. SUFFICES ASSUME Bad # {} PROVE FALSE
  <2>1. SUBSET S \subseteq FiniteSubsetsOf(S)
    BY FS_Subset DEF FiniteSubsetsOf
  <2>. QED
    BY <2>1 DEF Right
<1>2. PICK u \in Bad : \A v \in SUBSET u : v # u => v \notin Bad
  BY <1>1, SmallestSet
<1>3. u \in SUBSET S /\ IsFiniteSet(u) /\ ~Right(u)
  BY DEF FiniteSubsetsOf
<1>4. \A v \in SUBSET u : v # u => Right(v)
  <2>1. \A v \in SUBSET u : v \in FiniteSubsetsOf(S)
    BY <1>3, FS_Subset DEF FiniteSubsetsOf
  <2>. QED
    BY <1>2, <2>1
<1>5. CASE u = {}
  BY <1>3, <1>5, AddsStep DEF Right
<1>6. CASE u # {}
  <2> DEFINE c == Pick(u)
  <2>1. c \in u /\ g[u] = f[c] + g[u \ {c}]
    BY <1>3, <1>6, Picked, AddsStep
  <2> HIDE DEF c
  <2>2. g[u \ {c}] \in Int /\ f[c] \in Int
    BY <1>3, <1>4, <2>1 DEF Right
  <2>3. ASSUME NEW x \in u PROVE g[u] = f[x] + g[u \ {x}]
    <3>1. CASE x = c
      BY <2>1, <3>1
    <3>2. CASE x # c
      <4>1. (u \ {c}) \ {x} = (u \ {x}) \ {c}
        OBVIOUS
      <4>2. g[u \ {c}] = f[x] + g[(u \ {c}) \ {x}]
        BY <1>4, <2>1, <3>2 DEF Right
      <4>3. g[u \ {x}] = f[c] + g[(u \ {x}) \ {c}]
        BY <1>4, <2>1, <3>2 DEF Right
      <4>4. g[(u \ {c}) \ {x}] \in Int /\ f[x] \in Int
        BY <1>3, <1>4, <2>1, <3>2 DEF Right
      <4>5. f[c] + (f[x] + g[(u \ {c}) \ {x}])
              = f[x] + (f[c] + g[(u \ {c}) \ {x}])
        BY <2>2, <4>4, Swap
      <4>. QED
        BY <2>1, <4>1, <4>2, <4>3, <4>5, Zenon
    <3>. QED
      BY <3>1, <3>2
  <2>4. g[u] \in Int
    BY <2>1, <2>2
  <2>. QED
    BY <1>3, <2>3, <2>4 DEF Right
<1>. QED
  BY <1>5, <1>6

\* In particular from the whole set.
LEMMA AddsWhole ==
  ASSUME NEW D, NEW f \in [D -> Int], NEW S \in SUBSET D, IsFiniteSet(S),
         NEW g, Adds(g, f, S), NEW x \in S
  PROVE  g[S] = f[x] + g[S \ {x}]
<1>1. S \in SUBSET S
  OBVIOUS
<1>. QED
  BY <1>1, AddsAnyOrder

\* The sum of f over S.
SumOf(f, S) == (CHOOSE g : Adds(g, f, S))[S]

\* Nothing sums to zero.
LEMMA SumOfEmpty == ASSUME NEW f PROVE SumOf(f, {}) = 0
<1>1. \E g : Adds(g, f, {})
  BY AddsExist, FS_EmptySet
<1>2. PICK g : Adds(g, f, {}) /\ SumOf(f, {}) = g[{}]
  BY <1>1, Zenon DEF SumOf
<1>. QED
  BY <1>2, AddsStep

\* One more element adds its own value to the sum.
LEMMA SumOfOneMore ==
  ASSUME NEW D, NEW f \in [D -> Int], NEW S \in SUBSET D, IsFiniteSet(S),
         NEW x \in D \ S
  PROVE  SumOf(f, S \cup {x}) = SumOf(f, S) + f[x]
<1> DEFINE V == S \cup {x}
<1>1. IsFiniteSet(V) /\ V \in SUBSET D /\ V \ {x} = S
  BY FS_AddElement
<1>2. PICK g : Adds(g, f, S) /\ SumOf(f, S) = g[S]
  BY AddsExist, Zenon DEF SumOf
<1> HIDE DEF V
<1>3. PICK h : Adds(h, f, V) /\ SumOf(f, V) = h[V]
  BY <1>1, AddsExist, Zenon DEF SumOf
<1>4. x \in V /\ S \in SUBSET (S \cap V)
  BY DEF V
<1>5. h[V] = f[x] + h[S]
  BY <1>1, <1>3, <1>4, AddsWhole
<1>6. h[S] = g[S]
  BY <1>2, <1>3, <1>4, AddsAgree
<1>7. g[S] \in Int /\ f[x] \in Int
  BY <1>2, AddsAnyOrder
<1>. QED
  BY <1>2, <1>3, <1>5, <1>6, <1>7 DEF V

-----------------------------------------------------------------------------
(* The books: what each row holds is what the committed requests moved. *)

\* What every request would move, and the requests that did move a row.
Deltas   == [r \in Req |-> Delta(r)]
Moved(a) == {r \in applied : job[r].acc = a}

\* The sum in BooksBalance is the one the lemmas above are about.
LEMMA SumsOfDeltas ==
  ASSUME NEW S \in SUBSET Req, IsFiniteSet(S)
  PROVE  MapThenSumSet(Delta, S) = SumOf(Deltas, S)
<1> DEFINE It(g) == g = [s \in SUBSET S |->
                           IF s = {} THEN 0
                           ELSE Delta(CHOOSE x \in s : TRUE)
                                  + g[s \ {CHOOSE x \in s : TRUE}]]
<1>1. MapThenSumSet(Delta, S) = (CHOOSE g : It(g))[S]
  BY Zenon DEF MapThenSumSet, MapThenFoldSet
<1>2. \A s \in SUBSET S : s # {} => Pick(s) \in Req
  BY Picked
<1>3. \A g : Adds(g, Deltas, S) <=> It(g)
  BY <1>2 DEF Adds, Pick, Deltas
<1>4. PICK g : Adds(g, Deltas, S) /\ SumOf(Deltas, S) = g[S]
  BY AddsExist, Zenon DEF SumOf
<1> HIDE DEF It
<1>5. PICK h : It(h) /\ MapThenSumSet(Delta, S) = h[S]
  BY <1>1, <1>3, <1>4, Zenon
<1>. QED
  BY <1>3, <1>4, <1>5, AddsAgree

\* The books, with the sum of the lemmas.
BooksKept ==
  \A a \in Account : /\ balance[a] = SumOf(Deltas, Moved(a))
                     /\ version[a] = Cardinality(Moved(a))

\* A request commits once, on a snapshot that is current: what its commit
\* writes is the old row plus its own movement.
Kept  == IsFiniteSet(applied) /\ BooksKept
Books == Isolation /\ Outcomes /\ Kept

\* Nothing but a commit touches an account's sum, its version or the history.
LEMMA OnlyCommitsMove ==
  ASSUME [Next]_vars
  PROVE  \/ \E r \in Req : Commit(r)
         \/ UNCHANGED <<balance, version, applied>>
BY ZenonT(40) DEF Next, Handle, Arrive, CheckHit, AnswerReplay, CheckMiss, Deny,
       Authorise, NotFound, LockRow, RejectInactive, RejectInsufficient,
       Flush, FlushOverflow, MarkDone, Fail, RollBack, OpenAccount,
       Freeze, ExpireMark, Quiescent, vars, row

\* A commit adds its movement to the sum of its row, and one to its version.
LEMMA CommitKeepsBooks ==
  ASSUME Books, [Next]_vars, NEW r \in Req, Commit(r)
  PROVE  Kept'
<1> DEFINE b == job[r].acc
<1>1. /\ job' = job
      /\ applied' = applied \cup {r}
      /\ balance' = [balance EXCEPT ![b] = snap[r].balance]
      /\ version' = [version EXCEPT ![b] = snap[r].version]
  BY MarkOfStable DEF Commit
<1>2. /\ r \notin applied
      /\ snap[r].balance = balance[b] + Delta(r)
      /\ snap[r].version = version[b] + 1
  <2>1. pc[r] = "flushed" /\ SnapshotCurrent(r)
    BY DEF Commit, Goto, Books, Isolation, Snapshots
  <2>. QED
    BY <2>1 DEF SnapshotCurrent, Books, Outcomes
<1>3. /\ b \in Account /\ applied \in SUBSET Req
      /\ balance \in [Account -> Int] /\ version \in [Account -> Int]
      /\ IsFiniteSet(applied)
  BY JobTypes DEF Books, Kept, Isolation, TypeOK
<1>4. Deltas \in [Req -> Int] /\ Deltas[r] = Delta(r) /\ Deltas' = Deltas
  BY <1>1, JobTypes DEF Deltas, Delta, Books, Isolation
<1>5. IsFiniteSet(applied')
  BY <1>1, <1>3, FS_AddElement
<1>6. ASSUME NEW a \in Account
      PROVE  /\ balance'[a] = SumOf(Deltas, Moved(a)')
             /\ version'[a] = Cardinality(Moved(a)')
  <2>1. /\ balance[a] = SumOf(Deltas, Moved(a))
        /\ version[a] = Cardinality(Moved(a))
    BY DEF Books, Kept, BooksKept
  <2>2. CASE a # b
    <3>1. Moved(a)' = Moved(a)
      BY <1>1, <2>2 DEF Moved
    <3>. QED
      BY <1>1, <1>3, <2>1, <2>2, <3>1
  <2>3. CASE a = b
    <3>1. Moved(a)' = Moved(a) \cup {r}
      BY <1>1, <2>3 DEF Moved
    <3>2. Moved(a) \in SUBSET Req /\ IsFiniteSet(Moved(a)) /\ r \notin Moved(a)
      BY <1>2, <1>3, FS_Subset DEF Moved
    <3>3. SumOf(Deltas, Moved(a) \cup {r}) = SumOf(Deltas, Moved(a)) + Deltas[r]
      BY <1>4, <3>2, SumOfOneMore
    <3>4. Cardinality(Moved(a) \cup {r}) = Cardinality(Moved(a)) + 1
      BY <3>2, FS_AddElement
    <3>5. balance'[a] = balance[a] + Delta(r) /\ version'[a] = version[a] + 1
      BY <1>1, <1>2, <1>3, <2>3
    <3>. QED
      BY <1>4, <2>1, <3>1, <3>3, <3>4, <3>5, Zenon
  <2>. QED
    BY <2>2, <2>3
<1>. QED
  BY <1>4, <1>5, <1>6, Zenon DEF Kept, BooksKept

\* The books are kept by every step.
THEOREM BooksInductive == Spec => []Books
<1>1. Init => Kept
  <2>1. ASSUME Init, NEW a \in Account
        PROVE  /\ balance[a] = SumOf(Deltas, Moved(a))
               /\ version[a] = Cardinality(Moved(a))
    <3>1. Moved(a) = {} /\ balance[a] = 0 /\ version[a] = 0
      BY <2>1 DEF Init, Moved
    <3>. QED
      BY <3>1, SumOfEmpty, FS_EmptySet, Zenon
  <2>. QED
    BY <2>1, FS_EmptySet DEF Init, Kept, BooksKept
<1>2. ASSUME Books, [Next]_vars PROVE Kept'
  <2>1. CASE \E r \in Req : Commit(r)
    BY <1>2, <2>1, CommitKeepsBooks
  <2>2. CASE UNCHANGED <<balance, version, applied>>
    <3>1. job' = job
      BY <1>2, MarkOfStable
    <3>2. Deltas' = Deltas /\ \A a : Moved(a)' = Moved(a)
      BY <2>2, <3>1 DEF Deltas, Delta, Moved
    <3>. QED
      BY <1>2, <2>2, <3>2, Zenon DEF Books, Kept, BooksKept
  <2>. QED
    BY <1>2, <2>1, <2>2, OnlyCommitsMove
<1>3. Isolation /\ Idempotency /\ Kept => Books
  BY DEF Books, Idempotency
<1>4. Isolation /\ Idempotency /\ Kept /\ [Next]_vars => Kept'
  BY <1>2, <1>3
<1>. QED
  BY <1>1, <1>3, <1>4, IsolationInductive, IdempotencyInductive, PTL DEF Spec

\* Each committed row is the sum of the movements that were committed to it,
\* and its version counts them, however handlers interleave, fail or repeat:
\* no update is lost, none is applied twice by one request, and nothing of a
\* rolled back transaction stays (lines 124-144).
THEOREM BooksAlwaysBalance == Spec => []BooksBalance
<1>1. Books => BooksBalance
  <2>1. ASSUME Books, NEW a \in Account
        PROVE  /\ balance[a] = MapThenSumSet(Delta, Moved(a))
               /\ version[a] = Cardinality(Moved(a))
    <3>1. Moved(a) \in SUBSET Req /\ IsFiniteSet(Moved(a))
      BY <2>1, FS_Subset DEF Books, Kept, Isolation, TypeOK, Moved
    <3>2. MapThenSumSet(Delta, Moved(a)) = SumOf(Deltas, Moved(a))
      BY <3>1, SumsOfDeltas
    <3>. QED
      BY <2>1, <3>2, Zenon DEF Books, Kept, BooksKept
  <2>. QED
    BY <2>1 DEF BooksBalance, Moved
<1>. QED
  BY <1>1, BooksInductive, PTL
=============================================================================
