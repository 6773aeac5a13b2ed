---------------------------- MODULE ConsumerGroup ----------------------------
(***************************************************************************)
(* The delivery that SecureConsumer.stream (kafka.py) gives the handlers   *)
(* of one consumer group: read the next event of an owned partition, hand  *)
(* it over if its envelope verifies, commit afterwards, go on.             *)
(*                                                                         *)
(* What the group coordinator and aiokafka do (membership, rebalances, a   *)
(* commit after a rebalance) is modelled from how stream uses them.  A     *)
(* handler is one step here; EventWorkers gives its steps.                 *)
(***************************************************************************)
EXTENDS Naturals

CONSTANTS
  Event,      \* events in the topic; numbers, in the order of the topic
  Partition, Worker,
  MaxFaults,  \* bound: restarts, failed starts and failed commits together
  NoEvent, NoWorker

ASSUME ConsumerGroupAssumption ==
  /\ Event \subseteq Nat \ {0}
  /\ NoEvent \notin Event
  /\ NoWorker \notin Worker
  /\ MaxFaults \in Nat

VARIABLES
  home,       \* the partition each event was sent to
  valid,      \* the events whose envelope verifies
  offset,     \* committed: the last event of each partition, or 0
  owner,      \* the member each partition is assigned to
  stage,      \* where each worker's loop is
  cur,        \* the event each worker has taken
  stale,      \* workers whose assignment changed since they took it
  attempts,   \* history: how often each event was handed to a handler
  faults      \* faults so far

topic == <<home, valid>>
cgVars == <<topic, offset, owner, stage, cur, stale, attempts, faults>>

Stage == {"starting", "polling", "handling", "committing", "dead", "gone"}

Member == {w \in Worker : stage[w] \notin {"starting", "gone"}}
Busy   == {w \in Worker : stage[w] \in {"handling", "committing"}}

Committed(e) == e <= offset[home[e]]

\* Mutant: reading ahead in the partition.
IsNextAny(e) == ~Committed(e)

IsNext(e) == /\ ~Committed(e)
             /\ \A f \in Event : home[f] = home[e] /\ ~Committed(f) => e <= f

Init == /\ home  \in [Event -> Partition]
        /\ valid \in SUBSET Event
        /\ offset   = [p \in Partition |-> 0]
        /\ owner    = [p \in Partition |-> NoWorker]
        /\ stage    = [w \in Worker |-> "starting"]
        /\ cur      = [w \in Worker |-> NoEvent]
        /\ stale    = {}
        /\ attempts = [e \in Event |-> 0]
        /\ faults   = 0

-----------------------------------------------------------------------------
(* Helpers *)

Goto(w, from, to) == stage[w] = from /\ stage' = [stage EXCEPT ![w] = to]

Fault == faults < MaxFaults /\ faults' = faults + 1

\* Assignments over a set of members: no member is left without a partition
\* while another has two of them.
Assignments(ms) ==
  IF ms = {} THEN {[p \in Partition |-> NoWorker]}
  ELSE {f \in [Partition -> ms] :
          (\E p, q \in Partition : p # q /\ f[p] = f[q])
            => \A w \in ms : \E p \in Partition : f[p] = w}

\* The coordinator hands every partition out again, among members ms; whoever
\* of the others is in the middle of an event has lost the position that came
\* with it.
Rebalance(ms, others) == /\ owner' \in Assignments(ms)
                         /\ stale' = Busy \cap others

-----------------------------------------------------------------------------
(* The life of a worker *)

\* init_state: the consumer joins the group and the loop starts.
Start(w) ==
  /\ Goto(w, "starting", "polling")
  /\ Rebalance(Member \cup {w}, Member)
  /\ UNCHANGED <<topic, offset, cur, attempts, faults>>

\* init_state swallows the exception and the loop never runs: the consumer
\* had not joined the group, or had (the second client failed to start).
StartFails(w) ==
  /\ Fault
  /\ \/ /\ Goto(w, "starting", "gone")
        /\ UNCHANGED <<owner, stale>>
     \/ /\ Goto(w, "starting", "dead")
        /\ Rebalance(Member \cup {w}, Member)
  /\ UNCHANGED <<topic, offset, cur, attempts>>

\* The process goes down, wherever its loop was, and comes back.
Restart(w) ==
  /\ Fault
  /\ stage[w] # "starting"
  /\ stage' = [stage EXCEPT ![w] = "starting"]
  /\ cur' = [cur EXCEPT ![w] = NoEvent]
  /\ IF stage[w] = "gone" THEN UNCHANGED <<owner, stale>>
     ELSE Rebalance(Member \ {w}, Member \ {w})
  /\ UNCHANGED <<topic, offset, attempts>>

\* Mutant: a silent member is given partitions again.
ExpelRejoining(w) ==
  /\ Goto(w, "dead", "dead")
  /\ Rebalance(Member, Member)
  /\ UNCHANGED <<topic, offset, cur, attempts, faults>>

\* A member that no longer polls is put out of the group.
Expel(w) ==
  /\ Goto(w, "dead", "gone")
  /\ Rebalance(Member \ {w}, Member \ {w})
  /\ UNCHANGED <<topic, offset, cur, attempts, faults>>

-----------------------------------------------------------------------------
(* SecureConsumer.stream *)

\* The next message; one whose envelope does not verify is only committed.
Take(w, e) ==
  /\ owner[home[e]] = w
  /\ IsNext(e)
  /\ Goto(w, "polling", IF e \in valid THEN "handling" ELSE "committing")
  /\ cur' = [cur EXCEPT ![w] = e]
  /\ stale' = stale \ {w}
  /\ attempts' = IF e \in valid THEN [attempts EXCEPT ![e] = @ + 1] ELSE attempts
  /\ UNCHANGED <<topic, offset, owner, faults>>

\* The handler comes back, normally or not: the loop swallows its exceptions.
Return(w) ==
  /\ Goto(w, "handling", "committing")
  /\ UNCHANGED <<topic, offset, owner, cur, stale, attempts, faults>>

\* Mutant: the position of before the rebalance.
AdvanceLate(w) == [offset EXCEPT ![home[cur[w]]] = cur[w]]

\* The position commit() sends: none that is left from before a rebalance.
Advance(w) == IF w \in stale THEN offset
              ELSE [offset EXCEPT ![home[cur[w]]] = cur[w]]

Commit(w) ==
  /\ Goto(w, "committing", "polling")
  /\ offset' = Advance(w)
  /\ cur' = [cur EXCEPT ![w] = NoEvent]
  /\ stale' = stale \ {w}
  /\ UNCHANGED <<topic, owner, attempts, faults>>

\* commit() raises, its request lost or only its answer: stream ends, and
\* with it the task of the loop.
CommitFails(w) ==
  /\ Fault
  /\ Goto(w, "committing", "dead")
  /\ offset' \in {offset, Advance(w)}
  /\ cur' = [cur EXCEPT ![w] = NoEvent]
  /\ stale' = stale \ {w}
  /\ UNCHANGED <<topic, owner, attempts>>

Next == \E w \in Worker :
          \/ Start(w) \/ StartFails(w) \/ Restart(w) \/ Expel(w)
          \/ \E e \in Event : Take(w, e)
          \/ Return(w) \/ Commit(w) \/ CommitFails(w)

Spec == Init /\ [][Next]_cgVars

-----------------------------------------------------------------------------
(* Properties *)

\* Every variable has its type.
GroupTypeOK ==
  /\ home     \in [Event -> Partition]
  /\ valid    \in SUBSET Event
  /\ offset   \in [Partition -> Event \cup {0}]
  /\ owner    \in [Partition -> Worker \cup {NoWorker}]
  /\ stage    \in [Worker -> Stage]
  /\ cur      \in [Worker -> Event \cup {NoEvent}]
  /\ stale    \in SUBSET Worker
  /\ attempts \in [Event -> Nat]
  /\ faults   \in 0..MaxFaults

\* At least once: whatever rebalances, restarts and lost commits there were, an
\* event is behind the committed offset only if a handler was given it or its
\* envelope was refused (stream commits after the yield, line 147).
CommittedWasHandled ==
  \A e \in valid : Committed(e) => attempts[e] > 0

\* A late commit of a worker that lost its partition never takes the group
\* back (or past events that nobody was given).
OffsetsAdvance ==
  [][\A p \in Partition : offset'[p] >= offset[p]]_cgVars
=============================================================================
