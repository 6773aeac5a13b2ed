--------------------------- MODULE TransferIntake ---------------------------
(***************************************************************************)
(* Accepting a transfer in the transaction service (routes_transfers.py,   *)
(* state.py).                                                              *)
(*                                                                         *)
(* A handler passes the step-up gate and OPA, inserts a pending row under  *)
(* the unique constraint (initiator, idempotency key), falls back to the   *)
(* prior row when the insert raises, leaves the transaction, publishes an  *)
(* event to Kafka and answers 202.  Handlers run on several replicas,      *)
(* which may restart; whether a replica has a Kafka producer is decided    *)
(* when it starts and never again.                                         *)
(*                                                                         *)
(* A row's uuid is drawn by the request that inserts it, so the request's  *)
(* name stands for it, and the row's columns are what that request carries.*)
(***************************************************************************)
EXTENDS Integers, Sequences

CONSTANTS
  User, Key,        \* initiators and client-chosen idempotency keys
  Amount,           \* amounts that pass validation
  StepUpThreshold,  \* settings.step_up_threshold_pkr
  Replica,          \* replicas of the service
  Req,              \* the requests that may ever arrive (bound)
  NoReq,            \* no row, no uncommitted insert
  AfterRollback,    \* what a SELECT does after s.rollback() inside
                    \* `async with s.begin()`: "reads" or "raises".
                    \* SQLAlchemy 2 raises; both are of interest.
  Faults            \* "failure", "restart", "database", "kafka"

ASSUME TransferIntakeAssumption ==
  /\ Amount \subseteq Nat
  /\ StepUpThreshold \in Nat
  /\ NoReq \notin Req
  /\ AfterRollback \subseteq {"reads", "raises"}

VARIABLES
  table,      \* transactions, committed: the row of each (initiator, key)
  pending,    \* uncommitted inserts, visible to the unique index only
  log,        \* topic tx.transfers.v1
  producer,   \* which replicas have a Kafka producer
  job,        \* what each request carries, and the replica that serves it
  pc,         \* where each handler is
  tx,         \* the row each handler holds
  answer      \* what each caller was told

vars == <<table, pending, log, producer, job, pc, tx, answer>>

Job    == [user : User, key : Key, amt : Amount, mfa : BOOLEAN, rep : Replica]
Event  == [tx : Req, user : User, amt : Amount]
Slot   == User \X Key
Answer == {"none", "rejected", "accepted", "conflict", "error"}

InFlight == {"received", "authorising", "inserting", "conflicted", "inserted",
             "found", "publishing", "replying"}
PC       == InFlight \cup {"idle", "answered"}

SlotOf(r) == <<job[r].user, job[r].key>>

\* risk.py: the gate closes at the threshold itself.
StepUpRequired(r) == job[r].amt >= StepUpThreshold

Init == /\ table    = [s \in Slot |-> NoReq]
        /\ pending  = [s \in Slot |-> NoReq]
        /\ log      = <<>>
        /\ producer \in [Replica -> BOOLEAN]
        /\ job      \in [Req -> Job]
        /\ pc       = [r \in Req |-> "idle"]
        /\ tx       = [r \in Req |-> NoReq]
        /\ answer   = [r \in Req |-> "none"]

-----------------------------------------------------------------------------
(* Helpers *)

Goto(r, from, to) == pc[r] = from /\ pc' = [pc EXCEPT ![r] = to]

Reply(r, from, a) == /\ Goto(r, from, "answered")
                     /\ answer' = [answer EXCEPT ![r] = a]

\* Mutant: the connection goes back to the pool with its transaction open.
WithdrawNothing(rs) == UNCHANGED pending

\* Leaving the transaction without its insert.
Withdraw(rs) == pending' = [s \in Slot |-> IF pending[s] \in rs THEN NoReq
                                                                ELSE pending[s]]

-----------------------------------------------------------------------------
(* The handler transfer *)

Arrive(r) == /\ Goto(r, "idle", "received")
             /\ UNCHANGED <<table, pending, log, producer, job, tx, answer>>

RejectStepUp(r) ==
  /\ StepUpRequired(r) /\ ~job[r].mfa
  /\ Reply(r, "received", "rejected")
  /\ UNCHANGED <<table, pending, log, producer, job, tx>>

PassStepUp(r) ==
  /\ StepUpRequired(r) => job[r].mfa
  /\ Goto(r, "received", "authorising")
  /\ UNCHANGED <<table, pending, log, producer, job, tx, answer>>

Deny(r) ==
  /\ Reply(r, "authorising", "rejected")
  /\ UNCHANGED <<table, pending, log, producer, job, tx>>

\* OPA allows; the risk score is computed on the way (it changes nothing).
Admit(r) ==
  /\ Goto(r, "authorising", "inserting")
  /\ UNCHANGED <<table, pending, log, producer, job, tx, answer>>

\* Mutant: the event leaves before the commit.
InsertPublishing(r) ==
  LET s == SlotOf(r) IN
  /\ table[s] = NoReq /\ pending[s] = NoReq
  /\ Goto(r, "inserting", "inserted")
  /\ pending' = [pending EXCEPT ![s] = r]
  /\ tx' = [tx EXCEPT ![r] = r]
  /\ log' = Append(log, [tx |-> r, user |-> job[r].user, amt |-> job[r].amt])
  /\ UNCHANGED <<table, producer, job, answer>>

\* The INSERT waits while another transaction holds the same key uncommitted.
Insert(r) ==
  LET s == SlotOf(r) IN
  /\ table[s] = NoReq /\ pending[s] = NoReq
  /\ Goto(r, "inserting", "inserted")
  /\ pending' = [pending EXCEPT ![s] = r]
  /\ tx' = [tx EXCEPT ![r] = r]
  /\ UNCHANGED <<table, log, producer, job, answer>>

\* flush raises: the key is taken, or (except Exception) for any other reason.
InsertFails(r) ==
  /\ \/ table[SlotOf(r)] # NoReq
     \/ "database" \in Faults
  /\ Goto(r, "inserting", "conflicted")
  /\ UNCHANGED <<table, pending, log, producer, job, tx, answer>>

\* Mutant: the row read is not the row answered with (tx = res forgotten).
FindPriorKeepingOwn(r) ==
  /\ "reads" \in AfterRollback
  /\ table[SlotOf(r)] # NoReq
  /\ Goto(r, "conflicted", "found")
  /\ tx' = [tx EXCEPT ![r] = r]
  /\ UNCHANGED <<table, pending, log, producer, job, answer>>

\* Mutant: the lookup runs in a session of its own, so that it always reads.
FindPriorAlways(r) ==
  /\ table[SlotOf(r)] # NoReq
  /\ Goto(r, "conflicted", "found")
  /\ tx' = [tx EXCEPT ![r] = table[SlotOf(r)]]
  /\ UNCHANGED <<table, pending, log, producer, job, answer>>

\* "Idempotent retry - fetch the prior record": the SELECT after the rollback.
FindPrior(r) ==
  /\ "reads" \in AfterRollback
  /\ table[SlotOf(r)] # NoReq
  /\ Goto(r, "conflicted", "found")
  /\ tx' = [tx EXCEPT ![r] = table[SlotOf(r)]]
  /\ UNCHANGED <<table, pending, log, producer, job, answer>>

\* Mutant: an answer that no caller knows.
FindNothingUnknown(r) ==
  /\ "reads" \in AfterRollback
  /\ table[SlotOf(r)] = NoReq
  /\ Reply(r, "conflicted", "duplicate")
  /\ UNCHANGED <<table, pending, log, producer, job, tx>>

FindNothing(r) ==
  /\ "reads" \in AfterRollback
  /\ table[SlotOf(r)] = NoReq
  /\ Reply(r, "conflicted", "conflict")
  /\ UNCHANGED <<table, pending, log, producer, job, tx>>

SelectRaises(r) ==
  /\ "raises" \in AfterRollback
  /\ Reply(r, "conflicted", "error")
  /\ UNCHANGED <<table, pending, log, producer, job, tx>>

\* The audit record, then COMMIT.
Commit(r) ==
  /\ Goto(r, "inserted", "publishing")
  /\ table' = [table EXCEPT ![SlotOf(r)] = r]
  /\ Withdraw({r})
  /\ UNCHANGED <<log, producer, job, tx, answer>>

\* The same for a retry, whose transaction has written nothing.
LeaveWithPrior(r) ==
  /\ Goto(r, "found", "publishing")
  /\ UNCHANGED <<table, pending, log, producer, job, tx, answer>>

\* The event names the row held but carries this request's own payload.
EventOf(r) == [tx |-> tx[r], user |-> job[r].user, amt |-> job[r].amt]

Publish(r) ==
  /\ producer[job[r].rep]
  /\ Goto(r, "publishing", "replying")
  /\ log' = Append(log, EventOf(r))
  /\ UNCHANGED <<table, pending, producer, job, tx, answer>>

SkipPublish(r) ==
  /\ ~producer[job[r].rep]
  /\ Goto(r, "publishing", "replying")
  /\ UNCHANGED <<table, pending, log, producer, job, tx, answer>>

\* Mutant: the exception of send_and_wait is logged and the handler goes on.
PublishFailsQuietly(r) ==
  /\ "kafka" \in Faults
  /\ producer[job[r].rep]
  /\ Goto(r, "publishing", "replying")
  /\ log' \in {log, Append(log, EventOf(r))}
  /\ UNCHANGED <<table, pending, producer, job, tx, answer>>

\* send_and_wait raises; the brokers may or may not have the event.
PublishFails(r) ==
  /\ "kafka" \in Faults
  /\ producer[job[r].rep]
  /\ Reply(r, "publishing", "error")
  /\ log' \in {log, Append(log, EventOf(r))}
  /\ UNCHANGED <<table, pending, producer, job, tx>>

Accept(r) ==
  /\ Reply(r, "replying", "accepted")
  /\ UNCHANGED <<table, pending, log, producer, job, tx>>

\* An exception at any await of the handler.
Fail(r) ==
  /\ "failure" \in Faults
  /\ pc[r] \in InFlight
  /\ Reply(r, pc[r], "error")
  /\ Withdraw({r})
  /\ UNCHANGED <<table, log, producer, job, tx>>

\* A replica goes down with its handlers and comes back; init_state decides
\* once whether it has a producer.
Restart(p) ==
  LET down == {r \in Req : pc[r] \in InFlight /\ job[r].rep = p} IN
  /\ "restart" \in Faults
  /\ pc' = [r \in Req |-> IF r \in down THEN "answered" ELSE pc[r]]
  /\ answer' = [r \in Req |-> IF r \in down THEN "error" ELSE answer[r]]
  /\ Withdraw(down)
  /\ \E up \in BOOLEAN : producer' = [producer EXCEPT ![p] = up]
  /\ UNCHANGED <<table, log, job, tx>>

Quiescent == /\ \A r \in Req : pc[r] = "answered"
             /\ UNCHANGED vars

Handle(r) == \/ RejectStepUp(r) \/ PassStepUp(r) \/ Deny(r) \/ Admit(r)
             \/ Insert(r) \/ InsertFails(r)
             \/ FindPrior(r) \/ FindNothing(r) \/ SelectRaises(r)
             \/ Commit(r) \/ LeaveWithPrior(r)
             \/ Publish(r) \/ SkipPublish(r) \/ PublishFails(r)
             \/ Accept(r)

Next == \/ \E r \in Req : Arrive(r) \/ Handle(r) \/ Fail(r)
        \/ \E p \in Replica : Restart(p)
        \/ Quiescent

Spec == Init /\ [][Next]_vars

\* The event loop runs every handler and the stores answer or raise.
FairSpec == Spec /\ \A r \in Req : WF_vars(Handle(r))

-----------------------------------------------------------------------------
(* Properties *)

\* Every variable has its type.
TypeOK ==
  /\ table    \in [Slot -> Req \cup {NoReq}]
  /\ pending  \in [Slot -> Req \cup {NoReq}]
  /\ log      \in Seq(Event)
  /\ producer \in [Replica -> BOOLEAN]
  /\ job      \in [Req -> Job]
  /\ pc       \in [Req -> PC]
  /\ tx       \in [Req -> Req \cup {NoReq}]
  /\ answer   \in [Req -> Answer]

\* Whoever is told "accepted" for one initiator and key is told of the same
\* transaction, and that transaction is the committed row of the key: the
\* unique constraint and the fallback to the prior row (lines 53-81).
ReceiptsAgree ==
  \A r \in Req : answer[r] = "accepted" => table[SlotOf(r)] = tx[r]

\* An event is published for a committed row of its initiator only: the send
\* comes after the end of the transaction (line 86).
EventsFollowRows ==
  \A i \in DOMAIN log :
    LET e == log[i] IN /\ table[SlotOf(e.tx)] = e.tx
                       /\ job[e.tx].user = e.user

\* Consumers can trust an event's amount and see a transaction once.  True as
\* long as a retry never reaches the send.
EventMatchesRow ==
  /\ \A i \in DOMAIN log : log[i].amt = job[log[i].tx].amt
  /\ \A i, j \in DOMAIN log : log[i].tx = log[j].tx => i = j

\* Every handler answers, the waiters on the unique index included.
EveryRequestAnswered ==
  \A r \in Req : pc[r] # "idle" ~> pc[r] = "answered"

\* No transfer is accepted unheard: where there is a producer, a handler that
\* is about to answer 202 has its event in the topic.  (A replica without one
\* accepts transfers that nobody is ever told of, and does not retry: T-TX-2
\* of docs/02_threat_model.md promises more.)
AcceptedHasEvent ==
  \A r \in Req : pc[r] = "replying" /\ producer[job[r].rep] =>
    \E i \in DOMAIN log : log[i].tx = tx[r]
=============================================================================
