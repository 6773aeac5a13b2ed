----------------------- MODULE TransferIntake_proofs ------------------------
(***************************************************************************)
(* Proofs about TransferIntake for every set of initiators, keys, amounts, *)
(* replicas and requests, and every combination of faults.                 *)
(***************************************************************************)
EXTENDS TransferIntake, TLAPS

\* What a request carries is typed, so the slot it writes to is a slot.
LEMMA JobTypes ==
  ASSUME TypeOK, NEW r \in Req
  PROVE  /\ SlotOf(r) \in Slot
         /\ job[r].user \in User
         /\ job[r].amt \in Amount
         /\ job[r].rep \in Replica
  BY DEF TypeOK, Job, Slot, SlotOf

\* Rolling back transactions leaves a typed index.
LEMMA WithdrawTypes ==
  ASSUME TypeOK, NEW rs, Withdraw(rs)
  PROVE  pending' \in [Slot -> Req \cup {NoReq}]
  BY DEF TypeOK, Withdraw

\* The event of a handler that holds a row is an event.
LEMMA EventTypes ==
  ASSUME TypeOK, NEW r \in Req, tx[r] \in Req
  PROVE  EventOf(r) \in Event
  BY JobTypes DEF EventOf, Event

\* A handler that has got past the insert holds a row.
HoldsRow(r) == pc[r] \in {"inserted", "found", "publishing", "replying"}
Holding     == \A r \in Req : HoldsRow(r) => tx[r] \in Req

\* The initial states are typed.
LEMMA TypeInit == Init => TypeOK /\ Holding
  BY TransferIntakeAssumption
     DEF Init, TypeOK, Holding, HoldsRow, PC, InFlight, Answer

\* Every step of every handler and every restart keeps the types.
LEMMA TypeStep == TypeOK /\ Holding /\ [Next]_vars => TypeOK' /\ Holding'
<1> SUFFICES ASSUME TypeOK, Holding, [Next]_vars PROVE TypeOK' /\ Holding'
  OBVIOUS
<1> USE TransferIntakeAssumption
        DEF TypeOK, Holding, HoldsRow, PC, InFlight, Answer
<1>1. ASSUME NEW r \in Req, Arrive(r) PROVE TypeOK' /\ Holding'
  BY <1>1 DEF Arrive, Goto
<1>2. ASSUME NEW r \in Req, NEW f \in PC,
             NEW t \in {"authorising", "inserting", "conflicted"}, Goto(r, f, t),
             UNCHANGED <<table, pending, log, producer, job, tx, answer>>
      PROVE  TypeOK' /\ Holding'
  BY <1>2 DEF Goto
<1>3. ASSUME NEW r \in Req, NEW f, NEW a \in Answer, Reply(r, f, a),
             UNCHANGED <<table, pending, log, producer, job, tx>>
      PROVE  TypeOK' /\ Holding'
  BY <1>3 DEF Reply, Goto
<1>4. ASSUME NEW r \in Req, Insert(r) PROVE TypeOK' /\ Holding'
  BY <1>4, JobTypes DEF Insert, Goto
<1>5. ASSUME NEW r \in Req, FindPrior(r) PROVE TypeOK' /\ Holding'
  BY <1>5, JobTypes DEF FindPrior, Goto
<1>6. ASSUME NEW r \in Req, Commit(r) PROVE TypeOK' /\ Holding'
  BY <1>6, JobTypes, WithdrawTypes DEF Commit, Goto
<1>7. ASSUME NEW r \in Req, LeaveWithPrior(r) PROVE TypeOK' /\ Holding'
  BY <1>7 DEF LeaveWithPrior, Goto
<1>8. ASSUME NEW r \in Req, Publish(r) PROVE TypeOK' /\ Holding'
  BY <1>8, EventTypes DEF Publish, Goto
<1>9. ASSUME NEW r \in Req, SkipPublish(r) PROVE TypeOK' /\ Holding'
  BY <1>9 DEF SkipPublish, Goto
<1>10. ASSUME NEW r \in Req, PublishFails(r) PROVE TypeOK' /\ Holding'
  <2>1. EventOf(r) \in Event
    BY <1>10, EventTypes DEF PublishFails, Reply, Goto
  <2>2. log' \in Seq(Event)
    BY <1>10, <2>1, SMTT(20) DEF PublishFails
  <2>. QED
    BY <1>10, <2>2 DEF PublishFails, Reply, Goto
<1>11. ASSUME NEW r \in Req, Fail(r) PROVE TypeOK' /\ Holding'
  BY <1>11, WithdrawTypes DEF Fail, Reply, Goto
<1>12. ASSUME NEW p \in Replica, Restart(p) PROVE TypeOK' /\ Holding'
  BY <1>12, WithdrawTypes DEF Restart
<1>13. CASE UNCHANGED vars
  BY <1>13 DEF vars
<1>. QED
  BY <1>1, <1>2, <1>3, <1>4, <1>5, <1>6, <1>7, <1>8, <1>9, <1>10, <1>11,
     <1>12, <1>13
     DEF Next, Handle, RejectStepUp, PassStepUp, Deny, Admit, InsertFails,
         FindNothing, SelectRaises, Accept, Quiescent

\* Spec keeps every variable in its type.
THEOREM TypeCorrect == Spec => []TypeOK
<1>1. Spec => [](TypeOK /\ Holding)
  BY TypeInit, TypeStep, PTL DEF Spec
<1>. QED
  BY <1>1, PTL

-----------------------------------------------------------------------------
(* The rows: what a handler holds is the committed row of its key, and a    *)
(* committed row never changes.                                             *)

\* A row, committed or not, stands in the slot of the request that wrote it,
\* and the uncommitted ones belong to handlers about to commit them.
RowsInTheirSlots ==
  \A s \in Slot :
    /\ table[s] # NoReq => SlotOf(table[s]) = s
    /\ pending[s] # NoReq => /\ SlotOf(pending[s]) = s
                             /\ pc[pending[s]] = "inserted"
                             /\ table[s] = NoReq

\* A handler after its insert holds its own row, alone on its key.
InsertedIsOwn ==
  \A r \in Req : pc[r] = "inserted" => tx[r] = r /\ pending[SlotOf(r)] = r

\* A handler after its transaction, or told "found" by its SELECT, and a
\* caller told "accepted", hold the committed row.
HeldIsCommitted ==
  \A r \in Req :
    /\ pc[r] \in {"found", "publishing", "replying"} \/ answer[r] = "accepted" =>
         tx[r] \in Req /\ table[SlotOf(r)] = tx[r]
    /\ answer[r] # "none" => pc[r] = "answered"

RowsInv == RowsInTheirSlots /\ InsertedIsOwn /\ HeldIsCommitted

\* Committed rows, what requests carry and events published are for good.
Durable ==
  /\ \A s \in Slot : table[s] # NoReq => table'[s] = table[s]
  /\ job' = job
  /\ \A i \in DOMAIN log : i \in DOMAIN log' /\ log'[i] = log[i]

\* Nothing has happened yet.
LEMMA RowsInit == Init => RowsInv /\ EventsFollowRows
  BY TransferIntakeAssumption
     DEF Init, RowsInv, RowsInTheirSlots, InsertedIsOwn, HeldIsCommitted,
         EventsFollowRows, PC, InFlight

\* Every step keeps the rows in order.
LEMMA RowsStep == TypeOK /\ Holding /\ RowsInv /\ [Next]_vars => RowsInv'
<1> SUFFICES ASSUME TypeOK, Holding, RowsInv, [Next]_vars PROVE RowsInv'
  OBVIOUS
<1> USE TransferIntakeAssumption, JobTypes
        DEF TypeOK, Holding, HoldsRow, PC, InFlight, RowsInv, RowsInTheirSlots,
            InsertedIsOwn, HeldIsCommitted, SlotOf
<1>1. ASSUME NEW r \in Req, Arrive(r) PROVE RowsInv'
  BY <1>1 DEF Arrive, Goto
<1>2. ASSUME NEW r \in Req, NEW f \in {"received", "authorising", "inserting"},
             NEW t \in {"authorising", "inserting", "conflicted"}, Goto(r, f, t),
             UNCHANGED <<table, pending, log, producer, job, tx, answer>>
      PROVE  RowsInv'
  BY <1>2 DEF Goto
<1>3. ASSUME NEW r \in Req, NEW a \in Answer \ {"accepted", "none"},
             NEW f \in {"received", "authorising", "conflicted"}, Reply(r, f, a),
             UNCHANGED <<table, pending, log, producer, job, tx>>
      PROVE  RowsInv'
  BY <1>3 DEF Reply, Goto
<1>4. ASSUME NEW r \in Req, Accept(r) PROVE RowsInv'
  BY <1>4 DEF Accept, Reply, Goto
<1>5. ASSUME NEW r \in Req, Insert(r) PROVE RowsInv'
  <2>1. /\ pc' = [pc EXCEPT ![r] = "inserted"] /\ pc[r] = "inserting"
        /\ tx' = [tx EXCEPT ![r] = r]
        /\ pending' = [pending EXCEPT ![SlotOf(r)] = r]
        /\ table[SlotOf(r)] = NoReq /\ pending[SlotOf(r)] = NoReq
        /\ UNCHANGED <<table, job, answer>>
    BY <1>5 DEF Insert, Goto
  <2>2. \A q \in Req : SlotOf(q) \in Slot /\ SlotOf(q)' = SlotOf(q)
    BY <2>1
  <2>3. RowsInTheirSlots'
    BY <2>1, <2>2
  <2>4. InsertedIsOwn'
    <3>1. ASSUME NEW q \in Req \ {r}, pc[q] = "inserted"
          PROVE  pending'[SlotOf(q)] = q
      BY <2>1, <2>2, <3>1
    <3>. QED
      BY <2>1, <2>2, <3>1
  <2>5. HeldIsCommitted'
    BY <2>1, <2>2
  <2>. QED
    BY <2>3, <2>4, <2>5
<1>6. ASSUME NEW r \in Req, FindPrior(r) PROVE RowsInv'
  BY <1>6, SMTT(20) DEF FindPrior, Goto
<1>7. ASSUME NEW r \in Req, Commit(r) PROVE RowsInv'
  BY <1>7 DEF Commit, Goto, Withdraw
<1>8. ASSUME NEW r \in Req, LeaveWithPrior(r) PROVE RowsInv'
  BY <1>8 DEF LeaveWithPrior, Goto
<1>9. ASSUME NEW r \in Req, Publish(r) PROVE RowsInv'
  BY <1>9 DEF Publish, Goto
<1>10. ASSUME NEW r \in Req, SkipPublish(r) PROVE RowsInv'
  BY <1>10 DEF SkipPublish, Goto
<1>11. ASSUME NEW r \in Req, PublishFails(r) PROVE RowsInv'
  BY <1>11 DEF PublishFails, Reply, Goto
<1>12. ASSUME NEW r \in Req, Fail(r) PROVE RowsInv'
  BY <1>12 DEF Fail, Reply, Goto, Withdraw
<1>13. ASSUME NEW p \in Replica, Restart(p) PROVE RowsInv'
  BY <1>13 DEF Restart, Withdraw
<1>14. CASE UNCHANGED vars
  BY <1>14 DEF vars
<1>. QED
  BY <1>1, <1>2, <1>3, <1>4, <1>5, <1>6, <1>7, <1>8, <1>9, <1>10, <1>11,
     <1>12, <1>13, <1>14
     DEF Next, Handle, RejectStepUp, PassStepUp, Deny, Admit, InsertFails,
         FindNothing, SelectRaises, Quiescent, Answer

\* Types and rows together, the invariant every theorem below starts from.
LEMMA RowsCorrect == Spec => [](TypeOK /\ Holding /\ RowsInv)
  BY TypeInit, RowsInit, TypeStep, RowsStep, PTL DEF Spec

\* Every caller told "accepted" for one initiator and key was told of the row
\* that is committed for it (lines 53-81).
THEOREM AcceptedAgree == Spec => []ReceiptsAgree
<1>1. RowsInv => ReceiptsAgree
  BY DEF RowsInv, HeldIsCommitted, ReceiptsAgree
<1>. QED
  BY <1>1, RowsCorrect, PTL

\* What a step does to the topic: nothing, or one event of a handler at the send.
Sends(r) == /\ pc[r] = "publishing"
            /\ pc'[r] # "publishing"
            /\ log' = Append(log, EventOf(r))
            /\ UNCHANGED <<table, pending, producer, job, tx>>

\* A step sends one event or none.
LEMMA LogStep ==
  ASSUME TypeOK, [Next]_vars
  PROVE  log' = log \/ \E r \in Req : Sends(r)
<1>1. ASSUME NEW r \in Req, Publish(r) PROVE Sends(r)
  BY <1>1 DEF Publish, Goto, Sends, TypeOK
<1>2. ASSUME NEW r \in Req, PublishFails(r) PROVE log' = log \/ Sends(r)
  BY <1>2 DEF PublishFails, Reply, Goto, Sends, TypeOK
<1>. QED
  BY <1>1, <1>2
     DEF Next, Handle, Arrive, RejectStepUp, PassStepUp, Deny, Admit, Insert,
         InsertFails, FindPrior, FindNothing, SelectRaises, Commit,
         LeaveWithPrior, SkipPublish, Accept, Fail, Restart, Quiescent, vars

\* Rows, payloads and events stay.
LEMMA DurableStep ==
  ASSUME TypeOK, Holding, RowsInv, [Next]_vars
  PROVE  Durable
<1>1. job' = job
  BY DEF Next, Handle, Arrive, RejectStepUp, PassStepUp, Deny, Admit, Insert,
         InsertFails, FindPrior, FindNothing, SelectRaises, Commit,
         LeaveWithPrior, Publish, SkipPublish, PublishFails, Accept, Fail,
         Restart, Quiescent, vars
<1>2. \A s \in Slot : table[s] # NoReq => table'[s] = table[s]
  <2>1. ASSUME NEW r \in Req, Commit(r)
        PROVE  \A s \in Slot : table[s] # NoReq => table'[s] = table[s]
    <3>1. SlotOf(r) \in Slot /\ table[SlotOf(r)] = NoReq
      BY <2>1, JobTypes, TransferIntakeAssumption
         DEF Commit, Goto, RowsInv, InsertedIsOwn, RowsInTheirSlots
    <3>. QED
      BY <2>1, <3>1 DEF Commit, TypeOK
  <2>. QED
    BY <2>1
       DEF Next, Handle, Arrive, RejectStepUp, PassStepUp, Deny, Admit, Insert,
           InsertFails, FindPrior, FindNothing, SelectRaises,
           LeaveWithPrior, Publish, SkipPublish, PublishFails, Accept, Fail,
           Restart, Quiescent, vars
<1>3. \A i \in DOMAIN log : i \in DOMAIN log' /\ log'[i] = log[i]
  <2>1. ASSUME NEW r \in Req, Sends(r)
        PROVE  \A i \in DOMAIN log : i \in DOMAIN log' /\ log'[i] = log[i]
    BY <2>1 DEF Sends, TypeOK
  <2>. QED
    BY <2>1, LogStep
<1>. QED
  BY <1>1, <1>2, <1>3 DEF Durable

\* A committed row is never rewritten and a published event never taken back
\* or changed, whatever retries, failures and restarts follow: a consumer that
\* looks an event's transaction up finds it, however late.
THEOREM RowsAndEventsStay == Spec => [][Durable]_vars
<1>1. TypeOK /\ Holding /\ RowsInv /\ [Next]_vars => [Durable]_vars
  BY DurableStep
<1>. QED
  BY <1>1, RowsCorrect, PTL DEF Spec

\* Every step keeps the events behind committed rows.
LEMMA EventsStep ==
  ASSUME TypeOK, Holding, RowsInv, EventsFollowRows, [Next]_vars
  PROVE  EventsFollowRows'
<1>1. job' = job /\ \A s \in Slot : table[s] # NoReq => table'[s] = table[s]
  BY DurableStep DEF Durable
<1>2. ASSUME NEW e \in Event, table[SlotOf(e.tx)] = e.tx, job[e.tx].user = e.user
      PROVE  table'[SlotOf(e.tx)] = e.tx
  <2>1. e.tx \in Req
    BY DEF Event
  <2>. QED
    BY <1>1, <1>2, <2>1, JobTypes, TransferIntakeAssumption
<1>3. \A i \in DOMAIN log : log[i] \in Event
  BY DEF TypeOK
<1>4. ASSUME NEW r \in Req, Sends(r)
      PROVE  EventsFollowRows'
  <2>1. tx[r] \in Req /\ table[SlotOf(r)] = tx[r] /\ SlotOf(r) \in Slot
    BY <1>4, JobTypes DEF Sends, RowsInv, HeldIsCommitted
  <2>2. SlotOf(tx[r]) = SlotOf(r)
    BY <2>1, TransferIntakeAssumption DEF RowsInv, RowsInTheirSlots
  <2>3. job[tx[r]].user = job[r].user
    BY <2>1, <2>2, JobTypes DEF SlotOf
  <2>4. /\ EventOf(r) \in Event
        /\ table[SlotOf(EventOf(r).tx)] = EventOf(r).tx
        /\ job[EventOf(r).tx].user = EventOf(r).user
    BY <2>1, <2>2, <2>3, EventTypes DEF EventOf
  <2>5. table'[SlotOf(EventOf(r).tx)] = EventOf(r).tx
    BY <1>2, <2>4
  <2>6. ASSUME NEW i \in DOMAIN log'
        PROVE  /\ table'[SlotOf(log'[i].tx)] = log'[i].tx
               /\ job[log'[i].tx].user = log'[i].user
    <3>1. \/ log'[i] = EventOf(r)
          \/ i \in DOMAIN log /\ log'[i] = log[i]
      BY <1>4, <2>4 DEF Sends, TypeOK
    <3>. QED
      BY <1>2, <1>3, <2>4, <2>5, <3>1 DEF EventsFollowRows
  <2>. QED
    BY <1>1, <2>6 DEF EventsFollowRows, SlotOf
<1>5. CASE log' = log
  <2>1. ASSUME NEW i \in DOMAIN log
        PROVE  table'[SlotOf(log[i].tx)] = log[i].tx
    BY <1>2, <1>3 DEF EventsFollowRows
  <2>. QED
    BY <1>1, <1>5, <2>1 DEF EventsFollowRows, SlotOf
<1>. QED
  BY <1>4, <1>5, LogStep

\* No event is ever published for a transaction that is not committed, or for
\* somebody else's (line 86, after the end of the transaction).
THEOREM PublishedIsCommitted == Spec => []EventsFollowRows
<1>1. Init => EventsFollowRows
  BY RowsInit
<1>2. TypeOK /\ Holding /\ RowsInv /\ EventsFollowRows /\ [Next]_vars
        => EventsFollowRows'
  BY EventsStep
<1>. QED
  BY <1>1, <1>2, RowsCorrect, PTL DEF Spec

\* What a caller was told is final, and so is the row behind an acceptance.
ReceiptStands ==
  \A r \in Req :
    answer[r] # "none" => /\ answer'[r] = answer[r]
                          /\ answer[r] = "accepted" =>
                               tx'[r] = tx[r] /\ table'[SlotOf(r)] = tx[r]

\* An answer is given once.
LEMMA AnsweredStays ==
  ASSUME TypeOK, Holding, RowsInv, [Next]_vars, NEW r \in Req, answer[r] # "none"
  PROVE  answer'[r] = answer[r] /\ tx'[r] = tx[r]
<1>1. pc[r] = "answered"
  BY DEF RowsInv, HeldIsCommitted
<1>2. ASSUME NEW q \in Req, Arrive(q) \/ Handle(q) \/ Fail(q)
      PROVE  answer'[r] = answer[r] /\ tx'[r] = tx[r]
  BY <1>1, <1>2
     DEF Handle, Arrive, RejectStepUp, PassStepUp, Deny, Admit, Insert,
         InsertFails, FindPrior, FindNothing, SelectRaises, Commit,
         LeaveWithPrior, Publish, SkipPublish, PublishFails, Accept, Fail,
         Reply, Goto, InFlight, TypeOK
<1>3. ASSUME NEW p \in Replica, Restart(p)
      PROVE  answer'[r] = answer[r] /\ tx'[r] = tx[r]
  BY <1>1, <1>3 DEF Restart, InFlight, TypeOK
<1>. QED
  BY <1>2, <1>3 DEF Next, Quiescent, vars

\* The receipt of an accepted transfer stays true through every later retry,
\* failure and restart.
THEOREM ReceiptsStand == Spec => [][ReceiptStands]_vars
<1>1. ASSUME TypeOK, Holding, RowsInv, [Next]_vars PROVE ReceiptStands
  <2>1. \A s \in Slot : table[s] # NoReq => table'[s] = table[s]
    BY <1>1, DurableStep DEF Durable
  <2>2. ASSUME NEW r \in Req, answer[r] = "accepted"
        PROVE  table'[SlotOf(r)] = tx[r]
    BY <1>1, <2>1, <2>2, JobTypes, TransferIntakeAssumption
       DEF RowsInv, HeldIsCommitted
  <2>. QED
    BY <1>1, <2>2, AnsweredStays DEF ReceiptStands
<1>. QED
  BY <1>1, RowsCorrect, PTL DEF Spec

-----------------------------------------------------------------------------
(* The topic.                                                               *)

\* Every step keeps replies behind their events.
LEMMA ReplyingStep ==
  ASSUME TypeOK, Holding, AcceptedHasEvent, [Next]_vars
  PROVE  AcceptedHasEvent'
<1> USE DEF TypeOK
<1>1. ASSUME NEW r \in Req, Publish(r) PROVE AcceptedHasEvent'
  <2>1. EventOf(r) \in Event /\ EventOf(r).tx = tx[r]
    BY <1>1, EventTypes DEF Publish, Goto, Holding, HoldsRow, EventOf
  <2>2. /\ log' = Append(log, EventOf(r)) /\ job' = job /\ tx' = tx
        /\ producer' = producer /\ pc' = [pc EXCEPT ![r] = "replying"]
    BY <1>1 DEF Publish, Goto
  <2>3. \E i \in DOMAIN log' : log'[i].tx = tx'[r]
    BY <2>1, <2>2
  <2>4. \A i \in DOMAIN log : i \in DOMAIN log' /\ log'[i] = log[i]
    BY <2>1, <2>2
  <2>5. ASSUME NEW q \in Req \ {r}, pc'[q] = "replying", producer[job[q].rep]
        PROVE  \E i \in DOMAIN log' : log'[i].tx = tx'[q]
    BY <2>2, <2>4, <2>5 DEF AcceptedHasEvent
  <2>. QED
    BY <2>2, <2>3, <2>5 DEF AcceptedHasEvent
<1>2. ASSUME NEW r \in Req, PublishFails(r) PROVE AcceptedHasEvent'
  <2>1. EventOf(r) \in Event
    BY <1>2, EventTypes DEF PublishFails, Reply, Goto, Holding, HoldsRow
  <2>2. \A i \in DOMAIN log : i \in DOMAIN log' /\ log'[i] = log[i]
    BY <1>2, <2>1 DEF PublishFails
  <2>. QED
    BY <1>2, <2>2 DEF PublishFails, Reply, Goto, AcceptedHasEvent
<1>3. ASSUME NEW p \in Replica, Restart(p) PROVE AcceptedHasEvent'
  <2>1. ASSUME NEW r \in Req, pc'[r] = "replying"
        PROVE  pc[r] = "replying" /\ job[r].rep # p
    BY <1>3, <2>1 DEF Restart, InFlight
  <2>2. ASSUME NEW r \in Req, pc'[r] = "replying"
        PROVE  producer'[job[r].rep] = producer[job[r].rep]
    BY <1>3, <2>1, <2>2, JobTypes DEF Restart
  <2>. QED
    BY <1>3, <2>1, <2>2 DEF Restart, AcceptedHasEvent
<1>4. ASSUME NEW r \in Req,
             Insert(r) \/ FindPrior(r)
      PROVE  AcceptedHasEvent'
  BY <1>4 DEF Insert, FindPrior, Goto, AcceptedHasEvent
<1>5. ASSUME NEW r \in Req,
             \/ Arrive(r) \/ RejectStepUp(r) \/ PassStepUp(r) \/ Deny(r) \/ Admit(r)
             \/ InsertFails(r) \/ FindNothing(r) \/ SelectRaises(r) \/ Commit(r)
             \/ LeaveWithPrior(r) \/ SkipPublish(r) \/ Accept(r) \/ Fail(r)
      PROVE  AcceptedHasEvent'
  BY <1>5
     DEF Arrive, RejectStepUp, PassStepUp, Deny, Admit, InsertFails, FindNothing,
         SelectRaises, Commit, LeaveWithPrior, SkipPublish, Accept, Fail,
         Reply, Goto, AcceptedHasEvent
<1>6. CASE UNCHANGED vars
  BY <1>6 DEF vars, AcceptedHasEvent
<1>. QED
  BY <1>1, <1>2, <1>3, <1>4, <1>5, <1>6 DEF Next, Handle, Quiescent

\* No transfer is accepted unheard where the replica has a producer: the send
\* was acknowledged before the 202.
THEOREM AcceptedIsHeard == Spec => []AcceptedHasEvent
<1>1. Init => AcceptedHasEvent
  BY DEF Init, AcceptedHasEvent
<1>2. TypeOK /\ Holding /\ AcceptedHasEvent /\ [Next]_vars => AcceptedHasEvent'
  BY ReplyingStep
<1>. QED
  BY <1>1, <1>2, RowsCorrect, PTL DEF Spec

\* Where the SELECT after a rollback raises, a handler only ever holds its own
\* row; its event is in the topic at most once, when it is past the send, and
\* carries its own amount.
OwnRowsOnly ==
  \A r \in Req : /\ HoldsRow(r) => tx[r] = r
                 /\ pc[r] # "found"

OwnEvents ==
  \A i \in DOMAIN log :
    /\ log[i].amt = job[log[i].tx].amt
    /\ pc[log[i].tx] \in {"replying", "answered"}

EventsInv == OwnRowsOnly /\ OwnEvents /\ EventMatchesRow

\* Every step keeps handlers on their own rows.
LEMMA OwnRowsStep ==
  ASSUME "reads" \notin AfterRollback, TypeOK, OwnRowsOnly, [Next]_vars
  PROVE  OwnRowsOnly'
<1> USE DEF TypeOK, OwnRowsOnly, HoldsRow
<1>1. ASSUME NEW r \in Req, Arrive(r) \/ Handle(r) \/ Fail(r)
      PROVE  OwnRowsOnly'
  BY <1>1
     DEF Handle, Arrive, RejectStepUp, PassStepUp, Deny, Admit, Insert,
         InsertFails, FindPrior, FindNothing, SelectRaises, Commit,
         LeaveWithPrior, Publish, SkipPublish, PublishFails, Accept, Fail,
         Reply, Goto
<1>2. ASSUME NEW p \in Replica, Restart(p) PROVE OwnRowsOnly'
  BY <1>2 DEF Restart
<1>. QED
  BY <1>1, <1>2 DEF Next, Quiescent, vars

\* A handler past the send stays past it.
LEMMA PastSendStays ==
  ASSUME TypeOK, [Next]_vars, NEW r \in Req, pc[r] \in {"replying", "answered"}
  PROVE  pc'[r] \in {"replying", "answered"}
<1> USE DEF TypeOK
<1>1. ASSUME NEW q \in Req, Arrive(q) \/ Handle(q) \/ Fail(q)
      PROVE  pc'[r] \in {"replying", "answered"}
  BY <1>1
     DEF Handle, Arrive, RejectStepUp, PassStepUp, Deny, Admit, Insert,
         InsertFails, FindPrior, FindNothing, SelectRaises, Commit,
         LeaveWithPrior, Publish, SkipPublish, PublishFails, Accept, Fail,
         Reply, Goto
<1>2. ASSUME NEW p \in Replica, Restart(p)
      PROVE  pc'[r] \in {"replying", "answered"}
  BY <1>2 DEF Restart
<1>. QED
  BY <1>1, <1>2 DEF Next, Quiescent, vars

\* Every step keeps the events their rows' own.
LEMMA EventsInvStep ==
  ASSUME "reads" \notin AfterRollback, TypeOK, Holding, RowsInv, EventsInv, [Next]_vars
  PROVE  EventsInv'
<1>1. OwnRowsOnly'
  BY OwnRowsStep DEF EventsInv
<1>2. job' = job
  BY DurableStep DEF Durable
<1>3. \A i \in DOMAIN log : log[i] \in Event /\ log[i].tx \in Req
  <2>1. \A i \in DOMAIN log : log[i] \in Event
    BY DEF TypeOK
  <2>. QED
    BY <2>1 DEF Event
<1>4. \A i \in DOMAIN log : pc'[log[i].tx] \in {"replying", "answered"}
  BY <1>3, PastSendStays DEF EventsInv, OwnEvents
<1>5. CASE log' = log
  BY <1>1, <1>2, <1>4, <1>5 DEF EventsInv, OwnEvents, EventMatchesRow
<1>6. ASSUME NEW r \in Req, Sends(r)
      PROVE  EventsInv'
  <2>1. tx[r] = r
    BY <1>6 DEF EventsInv, OwnRowsOnly, HoldsRow, Sends
  <2>2. EventOf(r) \in Event /\ EventOf(r).tx = r /\ EventOf(r).amt = job[r].amt
    BY <2>1, EventTypes DEF EventOf
  <2>3. \A i \in DOMAIN log : log[i].tx # r
    BY <1>6, <1>3 DEF Sends, EventsInv, OwnEvents
  <2>4. pc'[r] \in {"replying", "answered"}
    BY <1>6, ZenonT(40)
       DEF Sends, Next, Handle, Arrive, RejectStepUp, PassStepUp, Deny, Admit,
           Insert, InsertFails, FindPrior, FindNothing, SelectRaises, Commit,
           LeaveWithPrior, Publish, SkipPublish, PublishFails, Accept, Fail,
           Restart, Quiescent, Reply, Goto, TypeOK, vars
  <2>5. /\ Len(log') = Len(log) + 1 /\ DOMAIN log' = 1 .. Len(log')
        /\ DOMAIN log = 1 .. Len(log) /\ Len(log) \in Nat
        /\ log'[Len(log) + 1] = EventOf(r)
        /\ \A i \in DOMAIN log : log'[i] = log[i]
    BY <1>6, <2>2 DEF Sends, TypeOK
  <2>6. \A i \in DOMAIN log' : i \in DOMAIN log \/ i = Len(log) + 1
    BY <2>5
  <2>7. OwnEvents'
    BY <1>2, <1>4, <2>2, <2>4, <2>5, <2>6 DEF EventsInv, OwnEvents
  <2>8. EventMatchesRow'
    BY <1>2, <2>2, <2>3, <2>5, <2>6, <2>7 DEF EventsInv, OwnEvents, EventMatchesRow
  <2>. QED
    BY <1>1, <2>7, <2>8 DEF EventsInv
<1>. QED
  BY <1>5, <1>6, LogStep

\* With a library that raises on the SELECT after a rollback (SQLAlchemy 2) the
\* topic has at most one event of each transaction, with its row's amount.
THEOREM OneEventPerRow ==
  ASSUME "reads" \notin AfterRollback
  PROVE  Spec => []EventMatchesRow
<1>1. Init => EventsInv
  BY DEF Init, EventsInv, OwnRowsOnly, OwnEvents, EventMatchesRow, HoldsRow
<1>2. TypeOK /\ Holding /\ RowsInv /\ EventsInv /\ [Next]_vars => EventsInv'
  BY EventsInvStep
<1>3. EventsInv => EventMatchesRow
  BY DEF EventsInv
<1>. QED
  BY <1>1, <1>2, <1>3, RowsCorrect, PTL DEF Spec
=============================================================================
