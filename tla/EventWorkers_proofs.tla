-------------------------- MODULE EventWorkers_proofs --------------------------
(***************************************************************************)
(* What stream gives every handler, for any number of workers, partitions  *)
(* and events, and that the two services' loops are such consumers.        *)
(*                                                                         *)
(* An offset may pass an event only because some worker committed it.  The *)
(* inductive invariant says what a worker at its commit knows: unless its  *)
(* assignment changed meanwhile, it owns the partition, alone, and its     *)
(* event is the first of the partition that is not committed.              *)
(***************************************************************************)
EXTENDS EventWorkers, FiniteSetTheorems, TLAPS

\* A busy worker holds an event, and a valid one was handed over.
Holding == \A w \in Busy : /\ cur[w] \in Event
                           /\ cur[w] \in valid => attempts[cur[w]] > 0

\* A busy worker whose assignment has not changed is at the front of its
\* partition.
AtFront == \A w \in Busy \ stale : owner[home[cur[w]]] = w /\ IsNext(cur[w])

DeliveryInv == GroupTypeOK /\ Holding /\ AtFront /\ CommittedWasHandled

-----------------------------------------------------------------------------
(* Lemmas *)

\* Handing partitions out keeps the types.
LEMMA AssignmentsTyped ==
  ASSUME NEW ms \in SUBSET Worker
  PROVE  Assignments(ms) \subseteq [Partition -> Worker \cup {NoWorker}]
<1>1. CASE ms = {}
  BY <1>1 DEF Assignments
<1>2. CASE ms # {}
  <2>. SUFFICES ASSUME NEW f \in [Partition -> ms]
                PROVE  f \in [Partition -> Worker \cup {NoWorker}]
    BY <1>2 DEF Assignments
  <2>. QED  OBVIOUS
<1>. QED  BY <1>1, <1>2

\* A step that touches neither topic, offsets nor attempts, that puts nobody to
\* work and that marks stale whoever is still at work keeps the invariant.
LEMMA RebalanceStep ==
  ASSUME DeliveryInv, GroupTypeOK',
         UNCHANGED <<topic, offset, attempts>>,
         Busy' \subseteq Busy, Busy' \subseteq stale',
         \A w \in Busy' : cur'[w] = cur[w]
  PROVE  DeliveryInv'
<1>1. Holding'
  BY DEF DeliveryInv, Holding, topic
<1>2. AtFront'
  BY DEF AtFront
<1>3. CommittedWasHandled'
  BY DEF DeliveryInv, CommittedWasHandled, Committed, topic
<1>. QED  BY <1>1, <1>2, <1>3 DEF DeliveryInv

\* Events and offsets are numbers.
LEMMA OffsetsAreNats ==
  ASSUME GroupTypeOK
  PROVE  /\ \A e \in Event : e \in Nat
         /\ \A p \in Partition : offset[p] \in Nat
<1>1. Event \cup {0} \subseteq Nat
  BY ConsumerGroupAssumption
<1>. QED  BY <1>1 DEF GroupTypeOK

-----------------------------------------------------------------------------
(* Types *)

\* Every step of the group keeps its types.
LEMMA GroupTypeStep ==
  ASSUME GroupTypeOK, Holding, [Next]_cgVars
  PROVE  GroupTypeOK'
<1>. USE ConsumerGroupAssumption DEF GroupTypeOK, topic
<1>1. CASE UNCHANGED cgVars
  BY <1>1 DEF cgVars
<1>2. ASSUME NEW w \in Worker, Start(w) PROVE GroupTypeOK'
  <2>1. owner' \in [Partition -> Worker \cup {NoWorker}]
    BY <1>2, AssignmentsTyped DEF Start, Rebalance, Member
  <2>. QED  BY <1>2, <2>1 DEF Start, Rebalance, Goto, Busy, Stage
<1>3. ASSUME NEW w \in Worker, StartFails(w) PROVE GroupTypeOK'
  <2>1. /\ owner' \in [Partition -> Worker \cup {NoWorker}]
        /\ stale' \in SUBSET Worker
    BY <1>3, AssignmentsTyped DEF StartFails, Rebalance, Member, Busy
  <2>2. stage' \in [Worker -> Stage]
    BY <1>3 DEF StartFails, Goto, Stage
  <2>. QED  BY <1>3, <2>1, <2>2 DEF StartFails, Fault
<1>4. ASSUME NEW w \in Worker, Restart(w) PROVE GroupTypeOK'
  <2>1. /\ owner' \in [Partition -> Worker \cup {NoWorker}]
        /\ stale' \in SUBSET Worker
    BY <1>4, AssignmentsTyped DEF Restart, Rebalance, Member, Busy
  <2>. QED  BY <1>4, <2>1 DEF Restart, Fault, Stage
<1>5. ASSUME NEW w \in Worker, Expel(w) PROVE GroupTypeOK'
  <2>1. owner' \in [Partition -> Worker \cup {NoWorker}]
    BY <1>5, AssignmentsTyped DEF Expel, Rebalance, Member
  <2>. QED  BY <1>5, <2>1 DEF Expel, Rebalance, Goto, Busy, Stage
<1>6. ASSUME NEW w \in Worker, NEW e \in Event, Take(w, e) PROVE GroupTypeOK'
  BY <1>6 DEF Take, Goto, Stage
<1>7. ASSUME NEW w \in Worker, Return(w) PROVE GroupTypeOK'
  BY <1>7 DEF Return, Goto, Stage
<1>8. ASSUME NEW w \in Worker, Commit(w) PROVE GroupTypeOK'
  <2>1. cur[w] \in Event
    BY <1>8 DEF Commit, Goto, Holding, Busy
  <2>. QED  BY <1>8, <2>1 DEF Commit, Advance, Goto, Stage
<1>9. ASSUME NEW w \in Worker, CommitFails(w) PROVE GroupTypeOK'
  <2>1. cur[w] \in Event
    BY <1>9 DEF CommitFails, Goto, Holding, Busy
  <2>2. offset' \in [Partition -> Event \cup {0}]
    BY <1>9, <2>1 DEF CommitFails, Advance
  <2>. QED  BY <1>9, <2>2 DEF CommitFails, Fault, Goto, Stage
<1>. QED  BY <1>1, <1>2, <1>3, <1>4, <1>5, <1>6, <1>7, <1>8, <1>9 DEF Next

-----------------------------------------------------------------------------
(* The inductive invariant *)

\* The group starts in order.
LEMMA DeliveryInit == Init => DeliveryInv
<1>. USE ConsumerGroupAssumption
<1>1. ASSUME Init PROVE GroupTypeOK
  BY <1>1 DEF Init, GroupTypeOK, Stage
<1>2. ASSUME Init PROVE Busy = {}
  BY <1>2 DEF Init, Busy
<1>3. ASSUME Init PROVE CommittedWasHandled
  BY <1>3 DEF Init, CommittedWasHandled, Committed
<1>. QED  BY <1>1, <1>2, <1>3 DEF DeliveryInv, Holding, AtFront

\* The offsets after a commit, and what the one who commits knows: either they
\* stay, or one partition moves on by the first of its uncommitted events,
\* which was handed over or refused.
LEMMA CommitStep ==
  ASSUME DeliveryInv, NEW w \in Worker, stage[w] = "committing",
         offset' \in {offset, Advance(w)}, UNCHANGED <<topic, owner, attempts>>,
         stale' = stale \ {w}, cur' = [cur EXCEPT ![w] = NoEvent],
         Busy' = Busy \ {w}, GroupTypeOK'
  PROVE  DeliveryInv'
<1>. USE DEF DeliveryInv
<1>1. cur[w] \in Event /\ (cur[w] \in valid => attempts[cur[w]] > 0)
  BY DEF Holding, Busy
<1>2. \A v \in Busy' : v # w /\ v \in Busy /\ cur'[v] = cur[v]
  BY DEF Busy, GroupTypeOK
<1>3. Holding'
  BY <1>2 DEF Holding, topic
<1>4. CASE offset' = offset
  <2>1. AtFront'
    BY <1>2, <1>4 DEF AtFront, IsNext, Committed, topic
  <2>2. CommittedWasHandled'
    BY <1>4 DEF CommittedWasHandled, Committed, topic
  <2>. QED  BY <1>3, <2>1, <2>2
<1>5. CASE w \notin stale /\ offset' = [offset EXCEPT ![home[cur[w]]] = cur[w]]
  <2>1. owner[home[cur[w]]] = w /\ IsNext(cur[w])
    BY <1>5 DEF AtFront, Busy
  <2>2. AtFront'
    <3>. SUFFICES ASSUME NEW v \in Busy' \ stale'
                  PROVE  owner'[home'[cur'[v]]] = v /\ IsNext(cur[v])'
      BY <1>2 DEF AtFront
    <3>1. v \in Busy \ stale /\ v # w /\ cur'[v] = cur[v] /\ cur[v] \in Event
      BY <1>2 DEF Holding
    <3>2. owner[home[cur[v]]] = v /\ IsNext(cur[v])
      BY <3>1 DEF AtFront
    <3>3. home[cur[v]] # home[cur[w]]
      BY <2>1, <3>1, <3>2
    <3>. QED  BY <1>5, <3>1, <3>2, <3>3 DEF IsNext, Committed, topic, GroupTypeOK
  <2>3. CommittedWasHandled'
    <3>. SUFFICES ASSUME NEW e \in valid, e <= offset'[home[e]]
                  PROVE  attempts[e] > 0
      BY DEF CommittedWasHandled, Committed, topic
    <3>1. e \in Event
      BY DEF GroupTypeOK
    <3>2. CASE e <= offset[home[e]]
      BY <3>2 DEF CommittedWasHandled, Committed
    <3>3. CASE ~(e <= offset[home[e]])
      <4>1. home[e] = home[cur[w]] /\ e <= cur[w]
        BY <1>1, <1>5, <3>1, <3>3 DEF GroupTypeOK
      <4>2. cur[w] <= e
        BY <2>1, <3>1, <3>3, <4>1 DEF IsNext, Committed
      <4>3. e \in Nat /\ cur[w] \in Nat
        BY <1>1, <3>1, ConsumerGroupAssumption
      <4>4. e = cur[w]
        BY <4>1, <4>2, <4>3
      <4>. QED  BY <1>1, <4>4
    <3>. QED  BY <3>2, <3>3
  <2>. QED  BY <1>3, <2>2, <2>3
<1>. QED  BY <1>4, <1>5 DEF Advance

\* Every step of the group keeps the discipline.
LEMMA DeliveryStep ==
  ASSUME DeliveryInv, [Next]_cgVars
  PROVE  DeliveryInv'
<1>1. GroupTypeOK'
  BY GroupTypeStep DEF DeliveryInv
<1>2. CASE UNCHANGED cgVars
  BY <1>2 DEF cgVars, topic, DeliveryInv, GroupTypeOK, Holding, AtFront, IsNext,
              CommittedWasHandled, Committed, Busy
<1>3. ASSUME NEW w \in Worker, Start(w) PROVE DeliveryInv'
  <2>1. Busy' = Busy /\ stale' = Busy
    BY <1>3 DEF Start, Rebalance, Goto, Busy, Member, DeliveryInv, GroupTypeOK
  <2>. QED  BY <1>1, <1>3, <2>1, RebalanceStep DEF Start
<1>4. ASSUME NEW w \in Worker, StartFails(w) PROVE DeliveryInv'
  <2>1. Busy' = Busy
    BY <1>4 DEF StartFails, Goto, Busy, DeliveryInv, GroupTypeOK
  <2>2. CASE UNCHANGED <<owner, stale>>
    BY <1>1, <1>4, <2>1, <2>2
       DEF StartFails, topic, DeliveryInv, Holding, AtFront,
                                   IsNext, CommittedWasHandled, Committed
  <2>3. CASE Rebalance(Member \cup {w}, Member)
    <3>1. stale' = Busy
      BY <2>3 DEF Rebalance, Busy, Member
    <3>. QED  BY <1>1, <1>4, <2>1, <3>1, RebalanceStep DEF StartFails
  <2>. QED  BY <1>4, <2>2, <2>3 DEF StartFails
<1>5. ASSUME NEW w \in Worker, Restart(w) PROVE DeliveryInv'
  <2>1. /\ Busy' = Busy \ {w}
        /\ \A v \in Busy' : cur'[v] = cur[v]
    BY <1>5 DEF Restart, Busy, DeliveryInv, GroupTypeOK
  <2>2. CASE stage[w] = "gone"
    <3>1. Busy' = Busy /\ UNCHANGED <<owner, stale>>
      BY <1>5, <2>1, <2>2 DEF Restart, Busy
    <3>. QED  BY <1>1, <1>5, <2>1, <3>1
                 DEF Restart, topic, DeliveryInv, Holding, AtFront,
                                   IsNext, CommittedWasHandled, Committed
  <2>3. CASE stage[w] # "gone"
    <3>1. stale' = Busy \ {w}
      BY <1>5, <2>3 DEF Restart, Rebalance, Busy, Member
    <3>. QED  BY <1>1, <1>5, <2>1, <3>1, RebalanceStep DEF Restart
  <2>. QED  BY <2>2, <2>3
<1>6. ASSUME NEW w \in Worker, Expel(w) PROVE DeliveryInv'
  <2>1. Busy' = Busy /\ stale' = Busy
    BY <1>6 DEF Expel, Rebalance, Goto, Busy, Member, DeliveryInv, GroupTypeOK
  <2>. QED  BY <1>1, <1>6, <2>1, RebalanceStep DEF Expel
<1>7. ASSUME NEW w \in Worker, NEW e \in Event, Take(w, e) PROVE DeliveryInv'
  <2>. USE DEF DeliveryInv
  <2>1. /\ Busy' = Busy \cup {w} /\ w \notin Busy
        /\ cur'[w] = e
        /\ \A v \in Busy : cur'[v] = cur[v]
    BY <1>7 DEF Take, Goto, Busy, GroupTypeOK
  <2>2. e \in valid => attempts'[e] > 0
    BY <1>7 DEF Take, GroupTypeOK
  <2>3. \A f \in Event : attempts[f] > 0 => attempts'[f] > 0
    BY <1>7 DEF Take, GroupTypeOK
  <2>4. Holding'
    BY <1>7, <2>1, <2>2, <2>3 DEF Take, Holding, topic
  <2>5. AtFront'
    BY <1>7, <2>1 DEF Take, AtFront, IsNext, Committed, topic
  <2>6. CommittedWasHandled'
    BY <1>7, <2>3 DEF Take, CommittedWasHandled, Committed, topic, GroupTypeOK
  <2>. QED  BY <1>1, <2>4, <2>5, <2>6
<1>8. ASSUME NEW w \in Worker, Return(w) PROVE DeliveryInv'
  <2>1. Busy' = Busy
    BY <1>8 DEF Return, Goto, Busy, DeliveryInv, GroupTypeOK
  <2>. QED  BY <1>1, <1>8, <2>1
               DEF Return, topic, DeliveryInv, Holding, AtFront, IsNext,
                            CommittedWasHandled, Committed
<1>9. ASSUME NEW w \in Worker, Commit(w) PROVE DeliveryInv'
  <2>1. Busy' = Busy \ {w} /\ stage[w] = "committing"
    BY <1>9 DEF Commit, Goto, Busy, DeliveryInv, GroupTypeOK
  <2>. QED  BY <1>1, <1>9, <2>1, CommitStep DEF Commit
<1>10. ASSUME NEW w \in Worker, CommitFails(w) PROVE DeliveryInv'
  <2>1. Busy' = Busy \ {w} /\ stage[w] = "committing"
    BY <1>10 DEF CommitFails, Goto, Busy, DeliveryInv, GroupTypeOK
  <2>. QED  BY <1>1, <1>10, <2>1, CommitStep DEF CommitFails
<1>. QED  BY <1>2, <1>3, <1>4, <1>5, <1>6, <1>7, <1>8, <1>9, <1>10 DEF Next

\* The discipline of takes and commits is an inductive invariant of stream.
THEOREM DeliveryInductive == Spec => []DeliveryInv
<1>1. DeliveryInv /\ [Next]_cgVars => DeliveryInv'
  BY DeliveryStep
<1>. QED  BY DeliveryInit, <1>1, PTL DEF Spec

-----------------------------------------------------------------------------
(* The services' workers *)

\* A step of the workers is a step of their group, or leaves it alone.
LEMMA WorkerStep ==
  ASSUME EWNext \/ UNCHANGED vars
  PROVE  [Next]_cgVars
<1>1. CASE UNCHANGED vars
  BY <1>1 DEF vars
<1>2. ASSUME NEW w \in Worker, NEW e \in Event, Receive(w, e) PROVE Next
  BY <1>2 DEF Receive, Next
<1>3. ASSUME NEW w \in Worker, Handle(w) PROVE Next \/ UNCHANGED cgVars
  BY <1>3 DEF Handle, AddToWindow, PushEntry, TrimList, ProbeDestination,
              LearnDestination, Judge, RecordNotification, Advances, Ends, Next
<1>4. ASSUME NEW w \in Worker, HandlerRaises(w) PROVE Next
  BY <1>4 DEF HandlerRaises, Next
<1>5. ASSUME NEW w \in Worker, GoDown(w) PROVE Next
  BY <1>5 DEF GoDown, Next
<1>6. ASSUME NEW w \in Worker, Delivery(w) PROVE Next
  BY <1>6 DEF Delivery, Next
<1>. QED  BY <1>1, <1>2, <1>3, <1>4, <1>5, <1>6 DEF EWNext, Quiescent

\* Both services' loops, with every step of their handlers, are consumers of
\* the group: nothing they do gives stream's caller a behaviour it has not.
THEOREM WorkersImplementDelivery == EWSpec => ImplementsDelivery
<1>1. EWInit => Init
  BY DEF EWInit
<1>2. [EWNext]_vars => [Next]_cgVars
  BY WorkerStep
<1>. QED  BY <1>1, <1>2, PTL DEF EWSpec, ImplementsDelivery, Spec

\* At least once, for any number of workers, partitions, events and faults: an
\* event behind the committed offset was handed to a handler, or its envelope
\* was refused.
THEOREM AtLeastOnce == EWSpec => []CommittedWasHandled
<1>1. DeliveryInv => CommittedWasHandled
  BY DEF DeliveryInv
<1>. QED  BY <1>1, DeliveryInductive, WorkersImplementDelivery, PTL
             DEF ImplementsDelivery

\* No commit, late or repeated, takes the group back to events it has passed.
THEOREM OffsetsNeverRetreat == EWSpec => OffsetsAdvance
<1>. USE DEF DeliveryInv, GroupTypeOK
<1>1. ASSUME DeliveryInv, NEW w \in Worker, stage[w] = "committing",
             offset' \in {offset, Advance(w)}
      PROVE  \A p \in Partition : offset'[p] >= offset[p]
  <2>1. cur[w] \in Event
    BY <1>1 DEF Holding, Busy
  <2>2. w \notin stale => ~Committed(cur[w])
    BY <1>1 DEF AtFront, IsNext, Busy
  <2>3. cur[w] \in Nat /\ \A p \in Partition : offset[p] \in Nat
    BY <1>1, <2>1, OffsetsAreNats
  <2>. QED  BY <1>1, <2>1, <2>2, <2>3 DEF Advance, Committed
<1>2. ASSUME DeliveryInv, [Next]_cgVars, ~UNCHANGED offset
      PROVE  \E w \in Worker : stage[w] = "committing" /\ offset' \in {offset, Advance(w)}
  BY <1>2
     DEF Next, cgVars, Start, StartFails, Restart, Expel, Take, Return, Commit,
         CommitFails, Goto
<1>3. ASSUME DeliveryInv, UNCHANGED offset
      PROVE  \A p \in Partition : offset'[p] >= offset[p]
  BY <1>3, OffsetsAreNats
<1>4. DeliveryInv /\ [Next]_cgVars
        => [\A p \in Partition : offset'[p] >= offset[p]]_cgVars
  BY <1>1, <1>2, <1>3
<1>5. Spec => OffsetsAdvance
  BY <1>4, DeliveryInductive, PTL DEF Spec, OffsetsAdvance
<1>. QED  BY <1>5, WorkersImplementDelivery, PTL DEF ImplementsDelivery

-----------------------------------------------------------------------------
(* The handlers: types                                                      *)

\* A worker is at a step of a handler exactly while its loop is in one, on an
\* event whose envelope verified, and at steps of its own service.
HandlerShape ==
  \A w \in Worker :
    /\ step[w] # "none" <=> stage[w] = "handling"
    /\ stage[w] = "handling" => cur[w] \in valid
    /\ step[w] \in {"window", "probe", "learn", "judge"} => service = "fraud"
    /\ step[w] = "record" => service # "fraud"

Typed == TypeOK /\ HandlerShape /\ DeliveryInv

\* What a handler at work has in hand.
LEMMA InHand ==
  ASSUME Typed, NEW w \in Worker, step[w] # "none"
  PROVE  /\ cur[w] \in Event /\ cur[w] \in valid
         /\ order[cur[w]] \in User \X Dest
         /\ order[cur[w]] = <<UserOf(w), DestOf(w)>>
         /\ UserOf(w) \in User /\ DestOf(w) \in Dest
         /\ attempts[cur[w]] > 0
<1>1. stage[w] = "handling" /\ cur[w] \in valid
  BY DEF Typed, HandlerShape
<1>2. cur[w] \in Event /\ attempts[cur[w]] > 0
  BY <1>1 DEF Typed, DeliveryInv, Holding, Busy
<1>3. order[cur[w]] \in User \X Dest
  BY <1>2 DEF Typed, TypeOK
<1>. QED  BY <1>1, <1>2, <1>3 DEF UserOf, DestOf

\* A longer list, and a shorter one.
LEMMA Pushed ==
  ASSUME NEW l \in Seq(Event), NEW e \in Event
  PROVE  /\ <<e>> \o l \in Seq(Event)
         /\ Len(<<e>> \o l) = Len(l) + 1
         /\ (<<e>> \o l)[1] = e
         /\ \A i \in 1 .. Len(l) : (<<e>> \o l)[i + 1] = l[i]
  OBVIOUS

Trimmed(l) == IF Len(l) > Cap THEN SubSeq(l, 1, Cap) ELSE l

\* LTRIM keeps a prefix of the list.
LEMMA TrimmedPrefix ==
  ASSUME NEW l \in Seq(Event)
  PROVE  /\ Trimmed(l) \in Seq(Event)
         /\ Len(Trimmed(l)) = IF Len(l) > Cap THEN Cap ELSE Len(l)
         /\ \A i \in 1 .. Len(Trimmed(l)) : Trimmed(l)[i] = l[i]
<1>1. Cap \in Nat \ {0}
  BY EventWorkersAssumption
<1>2. CASE Len(l) > Cap
  <2>1. \A i \in 1 .. Cap : l[i] \in Event
    BY <1>1, <1>2
  <2>2. SubSeq(l, 1, Cap) = [i \in 1 .. Cap |-> l[i]]
    BY <1>1, <1>2
  <2>. QED  BY <1>1, <1>2, <2>1, <2>2 DEF Trimmed
<1>3. CASE ~(Len(l) > Cap)
  BY <1>3 DEF Trimmed
<1>. QED  BY <1>2, <1>3

\* What a step does to the lists: nothing, a push or a trim.
Pushes(w) == /\ step[w] = "push"
             /\ step' = [step EXCEPT ![w] = "trim"]
             /\ list' = [list EXCEPT ![UserOf(w)] = <<cur[w]>> \o @]
             /\ UNCHANGED <<cgVars, service, order, window, failed, raises>>

Trims(w) == /\ step[w] = "trim"
            /\ \E to \in {"probe", "record"} : step' = [step EXCEPT ![w] = to]
            /\ list' = [list EXCEPT ![UserOf(w)] = Trimmed(@)]
            /\ UNCHANGED <<cgVars, service, order, window, failed, raises>>

\* What a step can do to a list: push, trim, or nothing.
LEMMA ListStep ==
  ASSUME Typed, [EWNext]_vars
  PROVE  UNCHANGED <<list, order>> \/ \E w \in Worker : Pushes(w) \/ Trims(w)
<1>1. ASSUME NEW w \in Worker, PushEntry(w) PROVE Pushes(w)
  BY <1>1 DEF PushEntry, Advances, Pushes, history
<1>2. ASSUME NEW w \in Worker, TrimList(w) PROVE Trims(w)
  BY <1>2 DEF TrimList, Advances, Trims, Trimmed, history
<1>. QED
  BY <1>1, <1>2
     DEF EWNext, Handle, Receive, AddToWindow, ProbeDestination, LearnDestination,
         Judge, RecordNotification, HandlerRaises, GoDown, Delivery, Quiescent,
         Advances, Ends, vars, handlers, redis

\* Pushed and trimmed lists are lists of events.
LEMMA ListsTyped ==
  ASSUME Typed, [EWNext]_vars
  PROVE  list' \in [User -> Seq(Event)]
<1>1. ASSUME NEW w \in Worker, Pushes(w) PROVE list' \in [User -> Seq(Event)]
  BY <1>1, InHand, Pushed DEF Pushes, Typed, TypeOK
<1>2. ASSUME NEW w \in Worker, Trims(w) PROVE list' \in [User -> Seq(Event)]
  BY <1>2, InHand, TrimmedPrefix DEF Trims, Typed, TypeOK
<1>. QED  BY <1>1, <1>2, ListStep DEF Typed, TypeOK

\* The group's part of a step of the workers.
LEMMA GroupPart ==
  ASSUME Typed, [EWNext]_vars
  PROVE  GroupTypeOK' /\ DeliveryInv'
  BY WorkerStep, GroupTypeStep, DeliveryStep DEF Typed, DeliveryInv

\* Every step keeps the types of the handlers' state.
LEMMA WorkerTypeStep ==
  ASSUME Typed, [EWNext]_vars
  PROVE  TypeOK'
<1>. USE EventWorkersAssumption, GroupPart, ListsTyped, InHand
         DEF TypeOK, Step, redis, history, handlers
<1>1. ASSUME NEW w \in Worker, NEW e \in Event, Receive(w, e) PROVE TypeOK'
  <2>1. TypeOK
    BY DEF Typed
  <2>. QED  BY <1>1, <2>1 DEF Receive, FirstStep
<1>2. ASSUME NEW w \in Worker, AddToWindow(w) PROVE TypeOK'
  <2>1. TypeOK
    BY DEF Typed
  <2>. QED  BY <1>2, <2>1 DEF AddToWindow, Advances
<1>3. ASSUME NEW w \in Worker, PushEntry(w) PROVE TypeOK'
  <2>1. TypeOK
    BY DEF Typed
  <2>. QED  BY <1>3, <2>1 DEF PushEntry, Advances
<1>4. ASSUME NEW w \in Worker, TrimList(w) PROVE TypeOK'
  <2>1. TypeOK
    BY DEF Typed
  <2>. QED  BY <1>4, <2>1 DEF TrimList, Advances
<1>5. ASSUME NEW w \in Worker, ProbeDestination(w) PROVE TypeOK'
  <2>1. TypeOK
    BY DEF Typed
  <2>. QED  BY <1>5, <2>1 DEF ProbeDestination, Advances
<1>6. ASSUME NEW w \in Worker, LearnDestination(w) PROVE TypeOK'
  <2>1. TypeOK
    BY DEF Typed
  <2>. QED  BY <1>6, <2>1 DEF LearnDestination, Advances
<1>7. ASSUME NEW w \in Worker, Judge(w) PROVE TypeOK'
  <2>1. TypeOK
    BY DEF Typed
  <2>. QED  BY <1>7, <2>1 DEF Judge, Ends, Return, Goto
<1>8. ASSUME NEW w \in Worker, RecordNotification(w) PROVE TypeOK'
  <2>1. TypeOK
    BY DEF Typed
  <2>. QED  BY <1>8, <2>1 DEF RecordNotification, Ends
<1>9. ASSUME NEW w \in Worker, HandlerRaises(w) PROVE TypeOK'
  <2>1. TypeOK
    BY DEF Typed
  <2>2. cur[w] \in Event /\ order[cur[w]] \in User \X Dest
    BY <1>9, <2>1 DEF HandlerRaises, Return, Goto, Typed, HandlerShape
  <2>3. raises' \in 0 .. MaxRaises
    BY <1>9, <2>1 DEF HandlerRaises
  <2>. QED  BY <1>9, <2>1, <2>2, <2>3 DEF HandlerRaises, Abandons
<1>10. ASSUME NEW w \in Worker, GoDown(w) PROVE TypeOK'
  <2>1. TypeOK
    BY DEF Typed
  <2>. QED  BY <1>10, <2>1 DEF GoDown, Abandons
<1>11. ASSUME NEW w \in Worker, Delivery(w) PROVE TypeOK'
  <2>1. TypeOK
    BY DEF Typed
  <2>. QED  BY <1>11, <2>1 DEF Delivery
<1>12. CASE UNCHANGED vars
  <2>1. TypeOK
    BY DEF Typed
  <2>. QED  BY <1>12, <2>1 DEF vars
<1>. QED
  BY <1>1, <1>2, <1>3, <1>4, <1>5, <1>6, <1>7, <1>8, <1>9, <1>10, <1>11, <1>12
     DEF EWNext, Handle, Quiescent

\* Every step keeps handlers and loops in step.
LEMMA ShapeStep ==
  ASSUME Typed, [EWNext]_vars
  PROVE  HandlerShape'
<1>. USE DEF Typed, TypeOK, HandlerShape, GroupTypeOK
<1>1. ASSUME NEW w \in Worker, NEW e \in Event, Receive(w, e) PROVE HandlerShape'
  BY <1>1 DEF Receive, Take, Goto, FirstStep, topic
<1>2. ASSUME NEW w \in Worker, AddToWindow(w) PROVE HandlerShape'
  BY <1>2 DEF AddToWindow, Advances, cgVars, topic
<1>3. ASSUME NEW w \in Worker, PushEntry(w) PROVE HandlerShape'
  BY <1>3 DEF PushEntry, Advances, cgVars, topic
<1>4. ASSUME NEW w \in Worker, TrimList(w) PROVE HandlerShape'
  BY <1>4 DEF TrimList, Advances, cgVars, topic
<1>5. ASSUME NEW w \in Worker, ProbeDestination(w) PROVE HandlerShape'
  BY <1>5 DEF ProbeDestination, Advances, cgVars, topic
<1>6. ASSUME NEW w \in Worker, LearnDestination(w) PROVE HandlerShape'
  BY <1>6 DEF LearnDestination, Advances, cgVars, topic
<1>7. ASSUME NEW w \in Worker, Judge(w) PROVE HandlerShape'
  BY <1>7 DEF Judge, Ends, Return, Goto, topic
<1>8. ASSUME NEW w \in Worker, RecordNotification(w) PROVE HandlerShape'
  BY <1>8 DEF RecordNotification, Ends, Return, Goto, topic
<1>9. ASSUME NEW w \in Worker, HandlerRaises(w) PROVE HandlerShape'
  BY <1>9 DEF HandlerRaises, Return, Goto, topic
<1>10. ASSUME NEW w \in Worker, GoDown(w) PROVE HandlerShape'
  BY <1>10 DEF GoDown, Restart, topic
<1>11. ASSUME NEW w \in Worker, Delivery(w) PROVE HandlerShape'
  BY <1>11 DEF Delivery, handlers, Start, StartFails, Expel, Commit,
     CommitFails, Goto, topic
<1>12. CASE UNCHANGED vars
  BY <1>12 DEF vars, handlers, redis, history, cgVars, topic
<1>. QED
  BY <1>1, <1>2, <1>3, <1>4, <1>5, <1>6, <1>7, <1>8, <1>9, <1>10, <1>11, <1>12
     DEF EWNext, Handle, Quiescent

\* The workers start typed.
LEMMA TypedInit == EWInit => Typed
<1>1. ASSUME EWInit PROVE DeliveryInv
  BY <1>1, DeliveryInit DEF EWInit
<1>2. ASSUME EWInit PROVE TypeOK
  BY <1>1, <1>2, EventWorkersAssumption DEF EWInit, TypeOK, Step, DeliveryInv
<1>3. ASSUME EWInit PROVE HandlerShape
  BY <1>3 DEF EWInit, Init, HandlerShape
<1>. QED  BY <1>1, <1>2, <1>3 DEF Typed

\* Types and shape are inductive.
LEMMA TypedStep == Typed /\ [EWNext]_vars => Typed'
  BY GroupPart, WorkerTypeStep, ShapeStep DEF Typed

\* Every variable keeps its type, and a worker is in a handler exactly while
\* its loop is, on an event that verified, at steps of its own service.
THEOREM TypeCorrect == EWSpec => []TypeOK
<1>1. EWSpec => []Typed
  BY TypedInit, TypedStep, PTL DEF EWSpec
<1>. QED  BY <1>1, PTL DEF Typed

-----------------------------------------------------------------------------
(* What is committed was recorded                                           *)

\* The events whose transaction is in the velocity window, where there is one,
\* and those that are in their user's list or were pushed out of a full one.
Windowed == {e \in Event : service = "fraud" => e \in window[order[e][1]]}
Listed   == {e \in Event : \/ Entries(e) # {}
                           \/ Len(list[order[e][1]]) >= Cap}

\* What each worker has recorded of the event in its hands: the window from its
\* second step on, the list from its third; once the handler is back, both,
\* unless it raised.
Recorded ==
  \A w \in Worker :
    /\ step[w] \notin {"none", "window"} => cur[w] \in Windowed
    /\ step[w] \notin {"none", "window", "push"} => cur[w] \in Listed
    /\ stage[w] = "committing" /\ cur[w] \in valid \ failed
         => cur[w] \in Windowed /\ cur[w] \in Listed

RecordInv == Recorded /\ CommittedIsRecorded

\* An offset passes an event only by the commit of the worker that holds it.
LEMMA NewlyCommitted ==
  ASSUME DeliveryInv, [Next]_cgVars, NEW e \in Event, ~Committed(e), Committed(e)'
  PROVE  \E w \in Worker : stage[w] = "committing" /\ cur[w] = e
<1>. USE DEF DeliveryInv, GroupTypeOK
<1>1. \E w \in Worker : /\ stage[w] = "committing" /\ offset' \in {offset, Advance(w)}
                        /\ home' = home
  BY DEF Next, cgVars, topic, Start, StartFails, Restart, Expel, Take, Return,
     Commit, CommitFails, Goto, Committed
<1>2. PICK w \in Worker : /\ stage[w] = "committing" /\ offset' \in {offset, Advance(w)}
                          /\ home' = home
  BY <1>1
<1>3. w \notin stale /\ offset' = [offset EXCEPT ![home[cur[w]]] = cur[w]]
  BY <1>2 DEF Advance, Committed
<1>4. cur[w] \in Event /\ IsNext(cur[w])
  BY <1>2, <1>3 DEF Holding, AtFront, Busy
<1>5. home[e] = home[cur[w]] /\ e <= cur[w]
  BY <1>2, <1>3, <1>4 DEF Committed
<1>6. cur[w] <= e
  BY <1>4, <1>5 DEF IsNext
<1>7. e \in Nat /\ cur[w] \in Nat
  BY <1>4, ConsumerGroupAssumption
<1>. QED  BY <1>2, <1>5, <1>6, <1>7

\* What no step changes.
LEMMA PayloadStays ==
  ASSUME [EWNext]_vars
  PROVE  UNCHANGED <<service, order, home, valid>> /\ failed \subseteq failed'
  BY ZenonT(40) DEF EWNext, Handle, Receive, AddToWindow, PushEntry, TrimList,
     ProbeDestination, LearnDestination, Judge, RecordNotification, HandlerRaises, GoDown, Delivery,
         Quiescent, Advances, Ends, Return, Restart, Take, Start, StartFails, Expel,
         Commit, CommitFails, vars, cgVars, topic, handlers, history

\* An event in the window stays there.
LEMMA WindowStays ==
  ASSUME Typed, [EWNext]_vars
  PROVE  Windowed \subseteq Windowed'
<1>1. UNCHANGED <<service, order>>
  BY PayloadStays
<1>2. window' = window \/ \E w \in Worker : AddToWindow(w)
  BY DEF EWNext, Handle, Receive, PushEntry, TrimList, ProbeDestination,
         LearnDestination, Judge, RecordNotification, HandlerRaises, GoDown, Delivery,
         Quiescent, Ends, vars, handlers, redis
<1>3. \A u \in User : window[u] \subseteq window'[u]
  BY <1>2, ZenonT(40) DEF AddToWindow, Typed, TypeOK
<1>4. \A e \in Event : order[e][1] \in User
  BY DEF Typed, TypeOK
<1>. QED  BY <1>1, <1>3, <1>4 DEF Windowed

\* An event in a list stays in it, or is pushed out of a full one.
LEMMA ListStays ==
  ASSUME Typed, [EWNext]_vars
  PROVE  Listed \subseteq Listed'
<1>. SUFFICES ASSUME NEW e \in Event, e \in Listed PROVE e \in Listed'
  BY DEF Listed
<1>1. UNCHANGED order
  BY PayloadStays
<1>2. PICK u \in User : u = order[e][1]
  BY DEF Typed, TypeOK
<1>3. list \in [User -> Seq(Event)] /\ list[u] \in Seq(Event) /\ Len(list[u]) \in Nat
  BY DEF Typed, TypeOK
<1>4. Cap \in Nat \ {0}
  BY EventWorkersAssumption
<1>5. ASSUME NEW w \in Worker, Pushes(w) PROVE e \in Listed'
  <2>1. cur[w] \in Event /\ UserOf(w) \in User
    BY <1>5, InHand DEF Pushes
  <2>2. CASE list'[u] = list[u]
    BY <1>1, <1>2, <2>2 DEF Listed, Entries
  <2>3. CASE list'[u] # list[u]
    <3>1. list'[u] = <<cur[w]>> \o list[u]
      BY <1>3, <1>5, <2>1, <2>3 DEF Pushes
    <3>2. /\ list'[u] \in Seq(Event)
          /\ Len(list'[u]) = Len(list[u]) + 1
          /\ \A i \in 1 .. Len(list[u]) : list'[u][i + 1] = list[u][i]
      BY <1>3, <2>1, <3>1, Pushed
    <3>3. CASE Len(list[u]) >= Cap
      <4>1. Len(list'[u]) >= Cap
        BY <1>3, <1>4, <3>2, <3>3
      <4>. QED  BY <1>1, <1>2, <4>1 DEF Listed
    <3>4. CASE Entries(e) # {}
      <4>1. PICK i \in 1 .. Len(list[u]) : list[u][i] = e
        BY <1>2, <1>3, <3>4 DEF Entries
      <4>2. i + 1 \in 1 .. Len(list'[u]) /\ list'[u][i + 1] = e
        BY <1>3, <3>2, <4>1
      <4>3. i + 1 \in DOMAIN list'[u]
        BY <3>2, <4>2
      <4>. QED  BY <1>1, <1>2, <4>2, <4>3 DEF Listed, Entries
    <3>. QED  BY <1>2, <3>3, <3>4 DEF Listed
  <2>. QED  BY <2>2, <2>3
<1>6. ASSUME NEW w \in Worker, Trims(w) PROVE e \in Listed'
  <2>1. UserOf(w) \in User
    BY <1>6, InHand DEF Trims
  <2>2. CASE list'[u] = list[u]
    BY <1>1, <1>2, <2>2 DEF Listed, Entries
  <2>3. CASE list'[u] # list[u]
    <3>1. list'[u] = Trimmed(list[u]) /\ Len(list[u]) > Cap
      BY <1>3, <1>6, <2>1, <2>3 DEF Trims, Trimmed
    <3>2. Len(list'[u]) = Cap
      BY <1>3, <3>1, TrimmedPrefix
    <3>3. Len(list'[u]) >= Cap
      BY <1>4, <3>2
    <3>. QED  BY <1>1, <1>2, <3>3 DEF Listed
  <2>. QED  BY <2>2, <2>3
<1>7. CASE UNCHANGED list
  BY <1>1, <1>7 DEF Listed, Entries
<1>. QED  BY <1>5, <1>6, <1>7, ListStep

\* The handler's own records: each step adds its own.
LEMMA OwnRecords ==
  ASSUME Typed, NEW w \in Worker
  PROVE  /\ AddToWindow(w) => cur[w] \in Windowed'
         /\ PushEntry(w) => cur[w] \in Listed'
<1>. USE DEF Typed, TypeOK
<1>1. ASSUME AddToWindow(w) PROVE cur[w] \in Windowed'
  BY <1>1, InHand DEF AddToWindow, Advances, cgVars, Windowed, UserOf
<1>2. ASSUME PushEntry(w) PROVE cur[w] \in Listed'
  <2>1. PICK e \in Event : e = cur[w]
    BY <1>2, InHand DEF PushEntry, Advances
  <2>2. PICK u \in User : u = order[e][1] /\ UserOf(w) = u
    BY <1>2, <2>1, InHand DEF PushEntry, Advances, UserOf
  <2>3. list'[u] = <<e>> \o list[u] /\ order' = order
    BY <1>2, <2>1, <2>2 DEF PushEntry, Advances, cgVars
  <2>4. 1 \in DOMAIN list'[u] /\ list'[u][1] = e
    BY <2>3
  <2>. QED  BY <2>1, <2>2, <2>3, <2>4 DEF Listed, Entries
<1>. QED  BY <1>1, <1>2

\* Nothing is in hand or committed at the start.
LEMMA RecordedInit == EWInit => RecordInv
  BY EventWorkersAssumption, ConsumerGroupAssumption
     DEF EWInit, Init, RecordInv, Recorded, CommittedIsRecorded, Committed

\* The handler goes on to a step, having recorded what that step presupposes.
LEMMA RecordedGoesOn ==
  ASSUME Typed, Recorded, NEW w \in Worker, NEW to \in Step,
         Windowed \subseteq Windowed', Listed \subseteq Listed',
         step' = [step EXCEPT ![w] = to], UNCHANGED <<stage, cur, valid, failed>>,
         to \notin {"none", "window"} => cur[w] \in Windowed',
         to \notin {"none", "window", "push"} => cur[w] \in Listed'
  PROVE  Recorded'
<1>1. \A v \in Worker : step'[v] = IF v = w THEN to ELSE step[v]
  BY DEF Typed, TypeOK
<1>. QED  BY <1>1 DEF Recorded

\* Every step of a handler records what it says.
LEMMA RecordedStep ==
  ASSUME Typed, Recorded, [EWNext]_vars
  PROVE  Recorded'
<1>. USE WindowStays, ListStays, InHand, OwnRecords
         DEF Typed, TypeOK, HandlerShape, GroupTypeOK, Recorded
<1>1. ASSUME NEW w \in Worker, NEW e \in Event, Receive(w, e) PROVE Recorded'
  <2>1. /\ \A v \in Worker \ {w} : /\ step'[v] = step[v] /\ stage'[v] = stage[v]
                                   /\ cur'[v] = cur[v]
        /\ UNCHANGED <<valid, failed>> /\ cur'[w] = e
    BY <1>1 DEF Receive, Take, Goto, topic, history
  <2>2. CASE e \in valid
    <3>1. stage'[w] = "handling" /\ step'[w] = FirstStep
      BY <1>1, <2>2 DEF Receive, Take, Goto
    <3>2. service = "fraud" \/ e \in Windowed'
      BY PayloadStays DEF Windowed
    <3>. QED  BY <2>1, <3>1, <3>2 DEF FirstStep
  <2>3. CASE e \notin valid
    <3>1. step'[w] = "none"
      BY <1>1, <2>3 DEF Receive
    <3>. QED  BY <2>1, <2>3, <3>1
  <2>. QED  BY <2>2, <2>3
<1>2. ASSUME NEW w \in Worker, AddToWindow(w) PROVE Recorded'
  <2>1. /\ step' = [step EXCEPT ![w] = "push"]
        /\ UNCHANGED <<stage, cur, valid, failed>>
    BY <1>2 DEF AddToWindow, Advances, cgVars, topic, history
  <2>2. cur[w] \in Windowed'
    BY <1>2 DEF AddToWindow, Advances
  <2>. QED  BY <2>1, <2>2, RecordedGoesOn DEF Step
<1>3. ASSUME NEW w \in Worker, PushEntry(w) PROVE Recorded'
  <2>1. /\ step' = [step EXCEPT ![w] = "trim"]
        /\ UNCHANGED <<stage, cur, valid, failed>>
    BY <1>3 DEF PushEntry, Advances, cgVars, topic, history
  <2>2. cur[w] \in Windowed' /\ cur[w] \in Listed'
    BY <1>3 DEF PushEntry, Advances
  <2>. QED  BY <2>1, <2>2, RecordedGoesOn DEF Step
<1>4. ASSUME NEW w \in Worker, TrimList(w) PROVE Recorded'
  <2>1. /\ step' = [step EXCEPT ![w] = IF service = "fraud" THEN "probe" ELSE "record"]
        /\ UNCHANGED <<stage, cur, valid, failed>>
    BY <1>4 DEF TrimList, Advances, cgVars, topic, history
  <2>2. cur[w] \in Windowed' /\ cur[w] \in Listed'
    BY <1>4 DEF TrimList, Advances
  <2>. QED  BY <2>1, <2>2, RecordedGoesOn DEF Step
<1>5. ASSUME NEW w \in Worker, ProbeDestination(w) PROVE Recorded'
  BY <1>5 DEF ProbeDestination, Advances, cgVars, topic
<1>6. ASSUME NEW w \in Worker, LearnDestination(w) PROVE Recorded'
  <2>1. /\ step' = [step EXCEPT ![w] = "judge"]
        /\ UNCHANGED <<stage, cur, valid, failed>>
    BY <1>6 DEF LearnDestination, Advances, cgVars, topic, history
  <2>2. cur[w] \in Windowed' /\ cur[w] \in Listed'
    BY <1>6 DEF LearnDestination, Advances
  <2>. QED  BY <2>1, <2>2, RecordedGoesOn DEF Step
<1>7. ASSUME NEW w \in Worker, Judge(w) PROVE Recorded'
  BY <1>7 DEF Judge, Ends, Return, Goto, topic
<1>8. ASSUME NEW w \in Worker, RecordNotification(w) PROVE Recorded'
  <2>1. cur[w] \in Windowed' /\ cur[w] \in Listed'
    BY <1>8 DEF RecordNotification, Ends
  <2>2. /\ \A v \in Worker \ {w} : step'[v] = step[v] /\ stage'[v] = stage[v]
        /\ step'[w] = "none" /\ UNCHANGED <<cur, valid, failed>>
    BY <1>8 DEF RecordNotification, Ends, Return, Goto, topic, history
  <2>. QED  BY <2>1, <2>2
<1>9. ASSUME NEW w \in Worker, HandlerRaises(w) PROVE Recorded'
  BY <1>9 DEF HandlerRaises, Return, Goto, topic
<1>10. ASSUME NEW w \in Worker, GoDown(w) PROVE Recorded'
  BY <1>10 DEF GoDown, Restart, topic
<1>11. ASSUME NEW w \in Worker, Delivery(w) PROVE Recorded'
  BY <1>11, ZenonT(40) DEF Delivery, handlers, history, Start, StartFails, Expel, Commit,
     CommitFails, Goto, topic
<1>12. CASE UNCHANGED vars
  BY <1>12 DEF vars, handlers, redis, history, cgVars, topic
<1>. QED
  BY <1>1, <1>2, <1>3, <1>4, <1>5, <1>6, <1>7, <1>8, <1>9, <1>10, <1>11, <1>12
     DEF EWNext, Handle, Quiescent

\* A commit finds its event recorded.
LEMMA RecordStep == Typed /\ RecordInv /\ [EWNext]_vars => RecordInv'
<1>. SUFFICES ASSUME Typed, RecordInv, [EWNext]_vars PROVE RecordInv'
  OBVIOUS
<1>. USE DEF RecordInv
<1>1. Recorded'
  BY RecordedStep
<1>2. valid \subseteq Event
  BY DEF Typed, TypeOK, GroupTypeOK
<1>3. ASSUME NEW e \in valid' \ failed', Committed(e)'
      PROVE  e \in Windowed' /\ e \in Listed'
  <2>1. e \in Event /\ e \in valid \ failed
    BY <1>2, PayloadStays
  <2>2. CASE Committed(e)
    BY <2>1, <2>2, WindowStays, ListStays
       DEF CommittedIsRecorded, Windowed, Listed
  <2>3. CASE ~Committed(e)
    <3>1. PICK w \in Worker : stage[w] = "committing" /\ cur[w] = e
      BY <1>3, <2>1, <2>3, NewlyCommitted, WorkerStep DEF Typed
    <3>. QED  BY <2>1, <3>1, WindowStays, ListStays DEF Recorded
  <2>. QED  BY <2>2, <2>3
<1>. QED  BY <1>1, <1>3 DEF CommittedIsRecorded, Windowed, Listed

\* What is committed was recorded, for any number of workers and events: the
\* offset passes an event that verified only when its handler has put it in the
\* window and the list, or has raised.
THEOREM CommittedRecords == EWSpec => []CommittedIsRecorded
<1>1. EWSpec => [](Typed /\ RecordInv)
  BY TypedInit, TypedStep, RecordedInit, RecordStep, PTL DEF EWSpec
<1>. QED  BY <1>1, PTL DEF RecordInv

-----------------------------------------------------------------------------
(* A new destination is scored once                                         *)

\* The handlers between SISMEMBER and SADD of a pair, those that found it new
\* and have not scored it, and the events scored as new for it.
Learners(u, d)  == {w \in Worker : step[w] = "learn" /\ order[cur[w]] = <<u, d>>}
Judgers(u, d)   == {w \in Worker : /\ step[w] = "judge" /\ isNew[w]
                                   /\ order[cur[w]] = <<u, d>>}
FlaggedOf(u, d) == {e \in flagged : order[e] = <<u, d>>}

\* Of a settled pair: one handler at most has looked the destination up and not
\* added it yet, and what it found still holds; before the destination is in
\* the set nobody has scored it, or is about to; one handler at most is about
\* to, and then nobody has; and once it is in the set, one is or one has.
PairInv(u, d) ==
  /\ \A v, w \in Learners(u, d) : v = w
  /\ \A w \in Learners(u, d) : isNew[w] = (d \notin seen[u])
  /\ d \notin seen[u] => Judgers(u, d) = {} /\ FlaggedOf(u, d) = {}
  /\ \A v, w \in Judgers(u, d) : v = w
  /\ Judgers(u, d) # {} => FlaggedOf(u, d) = {}
  /\ d \in seen[u] => Judgers(u, d) # {} \/ \E e \in Event : FlaggedOf(u, d) = {e}

NewDestinationInv ==
  \A u \in User, d \in Dest : <<u, d>> \in unsettled \/ PairInv(u, d)

\* A step that adds nobody to the learners and leaves the rest of the pair.
LEMMA PairStays ==
  ASSUME NEW u \in User, NEW d \in Dest, PairInv(u, d),
         Learners(u, d)' \subseteq Learners(u, d), Judgers(u, d)' = Judgers(u, d),
         UNCHANGED <<isNew, seen, flagged, order>>
  PROVE  PairInv(u, d)'
  BY DEF PairInv, FlaggedOf

\* An unsettled pair stays unsettled.
LEMMA UnsettledStay ==
  ASSUME [EWNext]_vars
  PROVE  unsettled \subseteq unsettled'
  BY DEF EWNext, Handle, Receive, AddToWindow, PushEntry, TrimList,
     ProbeDestination, LearnDestination, Judge, RecordNotification, HandlerRaises, GoDown, Delivery,
         Quiescent, Abandons, vars, handlers, history

\* The steps that neither look a destination up, add it nor score it.
LEMMA OtherSteps ==
  ASSUME Typed, NEW u \in User, NEW d \in Dest, PairInv(u, d),
         <<u, d>> \notin unsettled', NEW w \in Worker,
         \/ \E e \in Event : Receive(w, e)
         \/ AddToWindow(w) \/ PushEntry(w) \/ TrimList(w) \/ RecordNotification(w)
         \/ HandlerRaises(w) \/ GoDown(w) \/ Delivery(w)
  PROVE  PairInv(u, d)'
<1>. USE DEF Typed, TypeOK, HandlerShape, GroupTypeOK, Learners, Judgers, history
<1>. DEFINE Keeps == /\ Learners(u, d)' \subseteq Learners(u, d)
                     /\ Judgers(u, d)' = Judgers(u, d)
                     /\ UNCHANGED <<isNew, seen, flagged, order>>
<1>1. ASSUME NEW e \in Event, Receive(w, e) PROVE Keeps
  BY <1>1 DEF Receive, Take, Goto, FirstStep, history, redis
<1>2. ASSUME AddToWindow(w) PROVE Keeps
  BY <1>2 DEF AddToWindow, Advances, cgVars
<1>3. ASSUME PushEntry(w) PROVE Keeps
  BY <1>3 DEF PushEntry, Advances, cgVars
<1>4. ASSUME TrimList(w) PROVE Keeps
  BY <1>4 DEF TrimList, Advances, cgVars
<1>5. ASSUME RecordNotification(w) PROVE Keeps
  BY <1>5 DEF RecordNotification, Ends, Return, Goto, redis
<1>6. ASSUME HandlerRaises(w) PROVE Keeps
  BY <1>6 DEF HandlerRaises, Abandons, Return, Goto, redis
<1>7. ASSUME GoDown(w) PROVE Keeps
  BY <1>7 DEF GoDown, Abandons, Restart, redis
<1>8. ASSUME Delivery(w) PROVE Keeps
  BY <1>8, ZenonT(40) DEF Delivery, handlers, redis, history, Start, StartFails, Expel,
     Commit, CommitFails, Goto
<1>. QED  BY <1>1, <1>2, <1>3, <1>4, <1>5, <1>6, <1>7, <1>8, PairStays

\* SISMEMBER: a second look before the first one's SADD unsettles the pair.
LEMMA ProbeKeepsPair ==
  ASSUME Typed, NEW u \in User, NEW d \in Dest, PairInv(u, d),
         <<u, d>> \notin unsettled', NEW w \in Worker, ProbeDestination(w)
  PROVE  PairInv(u, d)'
<1>. USE DEF Typed, TypeOK
<1>1. /\ step' = [step EXCEPT ![w] = "learn"]
      /\ isNew' = [isNew EXCEPT ![w] = DestOf(w) \notin seen[UserOf(w)]]
      /\ UNCHANGED <<cur, order, seen, flagged>> /\ step[w] = "probe"
  BY DEF ProbeDestination, Advances, cgVars, redis
<1>2. Judgers(u, d)' = Judgers(u, d)
  BY <1>1 DEF Judgers
<1>3. FlaggedOf(u, d)' = FlaggedOf(u, d)
  BY <1>1 DEF FlaggedOf
<1>4. CASE order[cur[w]] = <<u, d>>
  <2>1. Learners(u, d) = {}
    BY <1>4 DEF ProbeDestination, Learners
  <2>2. Learners(u, d)' = {w}
    BY <1>1, <1>4, <2>1 DEF Learners
  <2>3. UserOf(w) = u /\ DestOf(w) = d
    BY <1>4 DEF UserOf, DestOf
  <2>4. isNew'[w] = (d \notin seen'[u])
    BY <1>1, <2>3
  <2>. QED  BY <1>1, <1>2, <1>3, <2>2, <2>4 DEF PairInv
<1>5. CASE order[cur[w]] # <<u, d>>
  <2>1. Learners(u, d)' = Learners(u, d) /\ w \notin Learners(u, d)
    BY <1>1, <1>5 DEF Learners
  <2>2. \A v \in Worker \ {w} : isNew'[v] = isNew[v]
    BY <1>1
  <2>3. \A v \in Learners(u, d) : v \in Worker \ {w}
    BY <2>1 DEF Learners
  <2>. QED  BY <1>1, <1>2, <1>3, <2>1, <2>2, <2>3 DEF PairInv
<1>. QED  BY <1>4, <1>5

\* SADD: the one learner of the pair either found it new, and is now the one
\* about to score it, or found it in the set.
LEMMA LearnKeepsPair ==
  ASSUME Typed, NEW u \in User, NEW d \in Dest, PairInv(u, d), NEW w \in Worker,
         LearnDestination(w)
  PROVE  PairInv(u, d)'
<1>. USE DEF Typed, TypeOK
<1>1. /\ step' = [step EXCEPT ![w] = "judge"]
      /\ seen' = [seen EXCEPT ![UserOf(w)] = @ \cup {DestOf(w)}]
      /\ UNCHANGED <<cur, order, isNew, flagged>> /\ step[w] = "learn"
  BY DEF LearnDestination, Advances, cgVars, history
<1>2. FlaggedOf(u, d)' = FlaggedOf(u, d)
  BY <1>1 DEF FlaggedOf
<1>3. /\ UserOf(w) \in User /\ DestOf(w) \in Dest
      /\ order[cur[w]] = <<UserOf(w), DestOf(w)>>
  BY <1>1, InHand
<1>4. CASE order[cur[w]] = <<u, d>>
  <2>1. w \in Learners(u, d) /\ Learners(u, d)' = Learners(u, d) \ {w}
    BY <1>1, <1>4 DEF Learners
  <2>2. Learners(u, d)' = {}
    BY <2>1 DEF PairInv
  <2>3. d \in seen'[u]
    BY <1>1, <1>3, <1>4
  <2>4. CASE isNew[w]
    <3>1. Judgers(u, d) = {} /\ FlaggedOf(u, d) = {}
      BY <2>1, <2>4 DEF PairInv
    <3>2. Judgers(u, d)' = {w}
      BY <1>1, <1>4, <2>4, <3>1 DEF Judgers
    <3>. QED  BY <1>2, <2>2, <2>3, <3>1, <3>2 DEF PairInv
  <2>5. CASE ~isNew[w]
    <3>1. d \in seen[u]
      BY <2>1, <2>5 DEF PairInv
    <3>2. Judgers(u, d)' = Judgers(u, d)
      BY <1>1, <2>5 DEF Judgers
    <3>. QED  BY <1>2, <2>2, <2>3, <3>1, <3>2 DEF PairInv
  <2>. QED  BY <2>4, <2>5
<1>5. CASE order[cur[w]] # <<u, d>>
  <2>1. Learners(u, d)' = Learners(u, d) /\ Judgers(u, d)' = Judgers(u, d)
    BY <1>1, <1>5 DEF Learners, Judgers
  <2>2. d \in seen'[u] <=> d \in seen[u]
    BY <1>1, <1>3, <1>5
  <2>. QED  BY <1>1, <1>2, <2>1, <2>2 DEF PairInv
<1>. QED  BY <1>4, <1>5

\* The score: the one that was about to score the pair as new has.
LEMMA JudgeKeepsPair ==
  ASSUME Typed, NEW u \in User, NEW d \in Dest, PairInv(u, d), NEW w \in Worker,
         Judge(w)
  PROVE  PairInv(u, d)'
<1>. USE DEF Typed, TypeOK
<1>1. /\ step' = [step EXCEPT ![w] = "none"] /\ step[w] = "judge"
      /\ flagged' = IF isNew[w] THEN flagged \cup {cur[w]} ELSE flagged
      /\ UNCHANGED <<cur, order, isNew, seen>>
  BY DEF Judge, Ends, Return, redis
<1>2. cur[w] \in Event
  BY <1>1, InHand
<1>3. Learners(u, d)' = Learners(u, d)
  BY <1>1 DEF Learners
<1>4. CASE isNew[w] /\ order[cur[w]] = <<u, d>>
  <2>1. w \in Judgers(u, d) /\ Judgers(u, d)' = Judgers(u, d) \ {w}
    BY <1>1, <1>4 DEF Judgers
  <2>2. Judgers(u, d)' = {} /\ FlaggedOf(u, d) = {} /\ d \in seen[u]
    BY <2>1 DEF PairInv
  <2>3. FlaggedOf(u, d)' = {cur[w]}
    BY <1>1, <1>4, <2>2 DEF FlaggedOf
  <2>. QED  BY <1>1, <1>2, <1>3, <2>2, <2>3 DEF PairInv
<1>5. CASE ~(isNew[w] /\ order[cur[w]] = <<u, d>>)
  <2>1. Judgers(u, d)' = Judgers(u, d)
    BY <1>1, <1>5 DEF Judgers
  <2>2. FlaggedOf(u, d)' = FlaggedOf(u, d)
    BY <1>1, <1>5 DEF FlaggedOf
  <2>. QED  BY <1>1, <1>3, <2>1, <2>2 DEF PairInv
<1>. QED  BY <1>4, <1>5

\* Nobody looks a destination up at the start.
LEMMA NewDestinationInit == EWInit => NewDestinationInv
  BY DEF EWInit, NewDestinationInv, PairInv, Learners, Judgers, FlaggedOf

\* Every step keeps each settled pair in order.
LEMMA NewDestinationStep ==
  ASSUME Typed, NewDestinationInv, [EWNext]_vars
  PROVE  NewDestinationInv'
<1>. SUFFICES ASSUME NEW u \in User, NEW d \in Dest, <<u, d>> \notin unsettled'
              PROVE  PairInv(u, d)'
  BY DEF NewDestinationInv
<1>1. PairInv(u, d)
  BY UnsettledStay DEF NewDestinationInv
<1>2. CASE UNCHANGED vars
  BY <1>1, <1>2, PairStays
     DEF vars, cgVars, handlers, redis, history, Learners, Judgers
<1>3. ASSUME NEW w \in Worker,
             (\E e \in Event : Receive(w, e)) \/ Handle(w)
               \/ HandlerRaises(w) \/ GoDown(w) \/ Delivery(w)
      PROVE  PairInv(u, d)'
  BY <1>1, <1>3, OtherSteps, ProbeKeepsPair, LearnKeepsPair, JudgeKeepsPair
     DEF Handle
<1>. QED  BY <1>2, <1>3 DEF EWNext, Quiescent

\* The new-destination feature, for any number of workers, users and
\* destinations: a destination in a user's set was scored as new by exactly one
\* event, unless two handlers looked it up at once, the first one went away
\* before its score, or is still at work.
THEOREM NewScoredOnce == EWSpec => []NewDestinationScoredOnce
<1>1. EWSpec => [](Typed /\ NewDestinationInv)
  BY TypedInit, TypedStep, NewDestinationInit, NewDestinationStep, PTL DEF EWSpec
<1>2. Typed /\ NewDestinationInv => NewDestinationScoredOnce
  <2>. SUFFICES ASSUME Typed, NewDestinationInv, NEW u \in User, NEW d \in seen[u],
                       <<u, d>> \notin unsettled, Judgers(u, d) = {}
                PROVE  Cardinality(FlaggedOf(u, d)) = 1
    BY DEF NewDestinationScoredOnce, Judgers, FlaggedOf
  <2>1. d \in Dest
    BY DEF Typed, TypeOK
  <2>2. PICK e \in Event : FlaggedOf(u, d) = {e}
    BY <2>1 DEF NewDestinationInv, PairInv
  <2>. QED  BY <2>2, FS_Singleton
<1>. QED  BY <1>1, <1>2, PTL

-----------------------------------------------------------------------------
(* The list of recent transfers                                             *)

\* What the group knows of events handed over: a handler has one that verified;
\* two workers with the same one have had it handed over twice, and so has a
\* handler whose event is committed already; and before an event is handed over,
\* everything ahead of it in its partition is committed.
HandedOver ==
  /\ \A w \in Worker : stage[w] = "handling" => cur[w] \in valid
  /\ \A v, w \in Busy : v # w /\ cur[v] = cur[w] /\ cur[w] \in valid
                          => attempts[cur[w]] >= 2
  /\ \A w \in Worker : stage[w] = "handling" /\ Committed(cur[w])
                         => attempts[cur[w]] >= 2
  /\ \A e, f \in Event : e < f /\ home[e] = home[f] /\ attempts[f] > 0 => Committed(e)

\* Commits, and events handed over, are never taken back.
LEMMA CommitsStay ==
  ASSUME DeliveryInv, [Next]_cgVars, NEW e \in Event
  PROVE  /\ UNCHANGED topic
         /\ Committed(e) => Committed(e)'
         /\ attempts[e] \in Nat /\ attempts'[e] \in Nat /\ attempts[e] <= attempts'[e]
<1>. USE DEF DeliveryInv, GroupTypeOK
<1>1. UNCHANGED topic
  BY DEF Next, cgVars, Start, StartFails, Restart, Expel, Take, Return, Commit,
     CommitFails
<1>2. attempts[e] \in Nat /\ attempts'[e] \in Nat /\ attempts[e] <= attempts'[e]
  <2>1. attempts' = attempts \/ \E w \in Worker, f \in Event : Take(w, f)
    BY DEF Next, cgVars, Start, StartFails, Restart, Expel, Return, Commit,
       CommitFails
  <2>. QED  BY <2>1 DEF Take
<1>3. ASSUME Committed(e) PROVE Committed(e)'
  <2>1. CASE UNCHANGED offset
    BY <1>1, <1>3, <2>1 DEF Committed, topic
  <2>2. CASE ~UNCHANGED offset
    <3>1. PICK w \in Worker : stage[w] = "committing" /\ offset' \in {offset, Advance(w)}
      BY <2>2
         DEF Next, cgVars, Start, StartFails, Restart, Expel, Take, Return, Commit,
                  CommitFails, Goto
    <3>2. w \notin stale /\ offset' = [offset EXCEPT ![home[cur[w]]] = cur[w]]
      BY <2>2, <3>1 DEF Advance
    <3>3. cur[w] \in Event /\ ~Committed(cur[w])
      BY <3>1, <3>2 DEF Holding, AtFront, IsNext, Busy
    <3>4. /\ e \in Nat /\ cur[w] \in Nat
          /\ offset[home[e]] \in Nat /\ offset[home[cur[w]]] \in Nat
      BY <3>3, OffsetsAreNats
    <3>. QED  BY <1>1, <1>3, <3>2, <3>3, <3>4 DEF Committed, topic
  <2>. QED  BY <2>1, <2>2
<1>. QED  BY <1>1, <1>2, <1>3

\* A step that takes no event off the topic.
LEMMA NothingTaken ==
  ASSUME DeliveryInv, HandedOver, [Next]_cgVars, UNCHANGED attempts,
         \A w \in Worker : stage'[w] = "handling" => stage[w] = "handling",
         \A w \in Busy' : w \in Busy /\ cur'[w] = cur[w]
  PROVE  HandedOver'
<1>1. UNCHANGED <<home, valid>> /\ \A e \in Event : Committed(e) => Committed(e)'
  BY CommitsStay DEF topic, Next, cgVars, Start, StartFails, Restart, Expel, Take,
                     Return, Commit, CommitFails
<1>2. ASSUME NEW w \in Worker, stage'[w] = "handling"
      PROVE  stage[w] = "handling" /\ cur'[w] = cur[w] /\ w \in Busy /\ cur[w] \in Event
  BY <1>2 DEF Busy, DeliveryInv, Holding
<1>3. ASSUME NEW w \in Worker, stage'[w] = "handling", Committed(cur[w])'
      PROVE  attempts[cur[w]] >= 2
  <2>1. CASE Committed(cur[w])
    BY <1>2, <1>3, <2>1 DEF HandedOver
  <2>2. CASE ~Committed(cur[w])
    <3>1. PICK e \in Event : e = cur[w]
      BY <1>2, <1>3
    <3>2. cur'[w] = e /\ cur[w] = e
      BY <1>2, <1>3, <3>1
    <3>3. Committed(e)' /\ ~Committed(e)
      BY <1>1, <1>3, <2>2, <3>2 DEF Committed
    <3>4. PICK v \in Worker : stage[v] = "committing" /\ cur[v] = e
      BY <3>3, NewlyCommitted
    <3>5. v # w /\ v \in Busy /\ w \in Busy /\ e \in valid
      BY <1>2, <1>3, <3>2, <3>4 DEF Busy, HandedOver
    <3>. QED  BY <3>2, <3>4, <3>5 DEF HandedOver
  <2>. QED  BY <2>1, <2>2
<1>4. \A w \in Worker : stage'[w] = "handling" => cur'[w] \in valid'
  BY <1>1, <1>2 DEF HandedOver
<1>5. \A v, w \in Busy' : v # w /\ cur'[v] = cur'[w] /\ cur'[w] \in valid'
                            => attempts'[cur'[w]] >= 2
  BY <1>1 DEF HandedOver
<1>6. \A w \in Worker : stage'[w] = "handling" /\ Committed(cur[w])'
                          => attempts'[cur'[w]] >= 2
  BY <1>2, <1>3
<1>7. \A e, f \in Event : e < f /\ home'[e] = home'[f] /\ attempts'[f] > 0 => Committed(e)'
  BY <1>1 DEF HandedOver
<1>. QED  BY <1>4, <1>5, <1>6, <1>7 DEF HandedOver

\* Every step of the group keeps its count of handovers.
LEMMA HandedOverStep == DeliveryInv /\ HandedOver /\ [Next]_cgVars => HandedOver'
<1>. SUFFICES ASSUME DeliveryInv, HandedOver, [Next]_cgVars PROVE HandedOver'
  OBVIOUS
<1>. DEFINE Kept == /\ UNCHANGED attempts
                    /\ \A w \in Worker : stage'[w] = "handling" => stage[w] = "handling"
                    /\ \A w \in Busy' : w \in Busy /\ cur'[w] = cur[w]
<1>0. stage \in [Worker -> Stage] /\ cur \in [Worker -> Event \cup {NoEvent}]
  BY DEF DeliveryInv, GroupTypeOK
<1>1. CASE UNCHANGED cgVars
  BY <1>1, NothingTaken DEF cgVars, Busy
<1>2. ASSUME NEW w \in Worker, Start(w) PROVE Kept
  BY <1>0, <1>2 DEF Start, Goto, Busy
<1>3. ASSUME NEW w \in Worker, StartFails(w) PROVE Kept
  BY <1>0, <1>3 DEF StartFails, Goto, Busy
<1>4. ASSUME NEW w \in Worker, Restart(w) PROVE Kept
  BY <1>0, <1>4 DEF Restart, Busy
<1>5. ASSUME NEW w \in Worker, Expel(w) PROVE Kept
  BY <1>0, <1>5 DEF Expel, Goto, Busy
<1>6. ASSUME NEW w \in Worker, Return(w) PROVE Kept
  BY <1>0, <1>6 DEF Return, Goto, Busy
<1>7. ASSUME NEW w \in Worker, Commit(w) PROVE Kept
  BY <1>0, <1>7 DEF Commit, Goto, Busy
<1>8. ASSUME NEW w \in Worker, CommitFails(w) PROVE Kept
  BY <1>0, <1>8 DEF CommitFails, Goto, Busy
<1>9. ASSUME NEW w \in Worker, NEW e \in Event, Take(w, e) PROVE HandedOver'
  <2>. USE DEF HandedOver
  <2>1. /\ UNCHANGED <<home, valid, offset>> /\ cur'[w] = e /\ w \notin Busy
        /\ IsNext(e) /\ stage'[w] = IF e \in valid THEN "handling" ELSE "committing"
        /\ \A v \in Worker \ {w} : stage'[v] = stage[v] /\ cur'[v] = cur[v]
    BY <1>0, <1>9 DEF Take, Goto, topic, Busy
  <2>2. \A f \in Event : /\ attempts[f] \in Nat /\ attempts'[f] \in Nat
                         /\ attempts'[f] = IF f = e /\ e \in valid THEN attempts[f] + 1
                                           ELSE attempts[f]
    BY <1>9 DEF Take, DeliveryInv, GroupTypeOK
  <2>3. \A v \in Busy' : v # w => v \in Busy /\ cur'[v] = cur[v] /\ cur[v] \in Event
    BY <2>1 DEF Busy, DeliveryInv, Holding
  <2>4. ASSUME NEW v \in Busy', v # w, cur'[v] = e, e \in valid PROVE attempts'[e] >= 2
    BY <2>2, <2>3, <2>4 DEF DeliveryInv, Holding
  <2>5. \A v \in Worker : stage'[v] = "handling" => cur'[v] \in valid'
    BY <2>1
  <2>6. ASSUME NEW u \in Busy', NEW v \in Busy', u # v, cur'[u] = cur'[v],
               cur'[v] \in valid'
        PROVE  attempts'[cur'[v]] >= 2
    <3>1. CASE u = w
      BY <2>1, <2>4, <2>6, <3>1
    <3>2. CASE v = w
      BY <2>1, <2>4, <2>6, <3>2
    <3>3. CASE u # w /\ v # w
      <4>1. attempts[cur[v]] >= 2
        BY <2>1, <2>3, <2>6, <3>3
      <4>. QED  BY <2>2, <2>3, <2>6, <3>3, <4>1
    <3>. QED  BY <3>1, <3>2, <3>3
  <2>7. \A f \in Event : Committed(f)' <=> Committed(f)
    BY <2>1 DEF Committed
  <2>8. ASSUME NEW v \in Worker, stage'[v] = "handling", Committed(cur[v])'
        PROVE  attempts'[cur'[v]] >= 2
    <3>1. v # w
      BY <2>1, <2>8 DEF IsNext, Committed
    <3>2. v \in Busy' /\ cur[v] \in Event /\ cur'[v] = cur[v] /\ stage[v] = "handling"
      BY <2>1, <2>3, <2>8, <3>1 DEF Busy
    <3>3. Committed(cur[v])
      BY <2>1, <2>8, <3>2 DEF Committed
    <3>4. attempts[cur[v]] >= 2
      BY <3>2, <3>3
    <3>. QED  BY <2>2, <3>2, <3>4
  <2>9. ASSUME NEW d \in Event, NEW f \in Event, d < f, home'[d] = home'[f],
               attempts'[f] > 0
        PROVE  Committed(d)'
    <3>1. CASE attempts[f] > 0
      BY <2>1, <2>7, <2>9, <3>1
    <3>2. CASE ~(attempts[f] > 0)
      <4>1. f = e
        BY <2>2, <2>9, <3>2
      <4>2. d \in Nat /\ f \in Nat
        BY ConsumerGroupAssumption
      <4>3. ~(f <= d)
        BY <2>9, <4>2
      <4>. QED  BY <2>1, <2>7, <2>9, <4>1, <4>3 DEF IsNext
    <3>. QED  BY <3>1, <3>2
  <2>. QED  BY <2>5, <2>6, <2>8, <2>9
<1>. QED
  BY <1>1, <1>2, <1>3, <1>4, <1>5, <1>6, <1>7, <1>8, <1>9, NothingTaken DEF Next

\* What is known of handovers holds throughout.
LEMMA HandedOverAlways == EWSpec => [](Typed /\ HandedOver)
<1>1. EWInit => HandedOver
  BY ConsumerGroupAssumption DEF EWInit, Init, HandedOver, Busy
<1>2. Typed /\ HandedOver /\ [EWNext]_vars => HandedOver'
  BY HandedOverStep, WorkerStep DEF Typed
<1>. QED  BY TypedInit, TypedStep, <1>1, <1>2, PTL DEF EWSpec

\* The places of an event in a list, and how a push and a trim change them.
EntriesOf(l, e) == {i \in DOMAIN l : l[i] = e}

\* A list has finitely many entries of an event, a number of them.
LEMMA EntriesFinite ==
  ASSUME NEW l \in Seq(Event), NEW e
  PROVE  IsFiniteSet(EntriesOf(l, e)) /\ Cardinality(EntriesOf(l, e)) \in Nat
<1>1. EntriesOf(l, e) \subseteq 1 .. Len(l) /\ Len(l) \in Int
  BY DEF EntriesOf
<1>2. IsFiniteSet(1 .. Len(l))
  BY <1>1, FS_Interval
<1>. QED  BY <1>1, <1>2, FS_Subset, FS_CardinalityType

\* LPUSH adds one entry of the pushed event, and moves the others up.
LEMMA PushedEntries ==
  ASSUME NEW l \in Seq(Event), NEW e \in Event, NEW x \in Event
  PROVE  /\ EntriesOf(<<x>> \o l, e) =
              {i + 1 : i \in EntriesOf(l, e)} \cup IF x = e THEN {1} ELSE {}
         /\ Cardinality(EntriesOf(<<x>> \o l, e)) =
              Cardinality(EntriesOf(l, e)) + IF x = e THEN 1 ELSE 0
<1>. DEFINE S == EntriesOf(l, e)
            T == {i + 1 : i \in S}
            m == <<x>> \o l
            f == [i \in S |-> i + 1]
<1>1. /\ m \in Seq(Event) /\ Len(m) = Len(l) + 1 /\ m[1] = x /\ Len(l) \in Nat
      /\ \A i \in 1 .. Len(l) : m[i + 1] = l[i]
  BY Pushed
<1>2. IsFiniteSet(S) /\ Cardinality(S) \in Nat
  BY EntriesFinite
<1>3. S = {i \in 1 .. Len(l) : l[i] = e}
  BY DEF EntriesOf
<1>4. EntriesOf(m, e) = {i \in 1 .. Len(m) : m[i] = e}
  BY <1>1 DEF EntriesOf
<1>5. EntriesOf(m, e) = T \cup IF x = e THEN {1} ELSE {}
  <2>1. ASSUME NEW j \in EntriesOf(m, e) PROVE j \in T \cup IF x = e THEN {1} ELSE {}
    <3>1. CASE j = 1
      BY <1>1, <1>4, <2>1, <3>1
    <3>2. CASE j # 1
      <4>1. j - 1 \in 1 .. Len(l) /\ j = (j - 1) + 1 /\ m[j] = e
        BY <1>1, <1>4, <2>1, <3>2
      <4>2. l[j - 1] = e
        BY <1>1, <4>1
      <4>. QED  BY <1>3, <4>1, <4>2
    <3>. QED  BY <3>1, <3>2
  <2>2. ASSUME NEW j \in T PROVE j \in EntriesOf(m, e)
    <3>1. PICK i \in S : j = i + 1
      BY <2>2
    <3>. QED  BY <1>1, <1>3, <1>4, <3>1
  <2>3. x = e => 1 \in EntriesOf(m, e)
    BY <1>1, <1>4
  <2>. QED  BY <2>1, <2>2, <2>3
<1>6. 1 \notin T
  BY <1>3
<1>7. IsFiniteSet(T) /\ Cardinality(T) = Cardinality(S)
  <2>1. f \in Bijection(S, T)
    BY <1>3 DEF Bijection, Injection, Surjection, IsInjective
  <2>2. ExistsBijection(S, T)
    BY <2>1 DEF ExistsBijection
  <2>. QED  BY <1>2, <2>2, FS_Bijection
<1>8. CASE x = e
  BY <1>5, <1>6, <1>7, <1>8, FS_AddElement
<1>9. CASE x # e
  <2>1. EntriesOf(m, e) = T
    BY <1>5, <1>9
  <2>2. Cardinality(EntriesOf(m, e)) = Cardinality(S) + IF x = e THEN 1 ELSE 0
    <3>1. Cardinality(EntriesOf(m, e)) = Cardinality(S)
      BY <1>7, <2>1, Zenon
    <3>2. Cardinality(S) = Cardinality(S) + IF x = e THEN 1 ELSE 0
      BY <1>2, <1>9
    <3>. QED  BY <3>1, <3>2, Zenon
  <2>. QED  BY <1>5, <2>2
<1>. QED  BY <1>8, <1>9

\* LTRIM takes entries away and moves none.
LEMMA TrimmedEntries ==
  ASSUME NEW l \in Seq(Event), NEW e \in Event
  PROVE  /\ EntriesOf(Trimmed(l), e) \subseteq EntriesOf(l, e)
         /\ Cardinality(EntriesOf(Trimmed(l), e)) <= Cardinality(EntriesOf(l, e))
<1>1. /\ Trimmed(l) \in Seq(Event) /\ Len(Trimmed(l)) <= Len(l)
      /\ \A i \in 1 .. Len(Trimmed(l)) : Trimmed(l)[i] = l[i]
  BY TrimmedPrefix, EventWorkersAssumption
<1>2. EntriesOf(Trimmed(l), e) \subseteq EntriesOf(l, e)
  BY <1>1 DEF EntriesOf
<1>. QED  BY <1>2, EntriesFinite, FS_Subset

\* Every time an event was handed over accounts for one entry, or for a handler
\* that has not pushed it yet.
Pending(e) == {w \in Worker : step[w] \in {"window", "push"} /\ cur[w] = e}

PendingInv ==
  \A e \in Event : /\ IsFiniteSet(Pending(e))
                   /\ Cardinality(Pending(e)) + Cardinality(Entries(e)) <= attempts[e]

\* The entries of an event are those of its user's list.
LEMMA EntriesAre ==
  ASSUME Typed, NEW e \in Event
  PROVE  /\ order[e][1] \in User /\ list[order[e][1]] \in Seq(Event)
         /\ Entries(e) = EntriesOf(list[order[e][1]], e)
         /\ Cardinality(Entries(e)) \in Nat
<1>1. order[e][1] \in User /\ list[order[e][1]] \in Seq(Event)
  BY DEF Typed, TypeOK
<1>2. Entries(e) = EntriesOf(list[order[e][1]], e)
  BY DEF Entries, EntriesOf
<1>. QED  BY <1>1, <1>2, EntriesFinite

\* A push by w gives the event in its hands one more entry, any other none.
LEMMA EntriesAfterPush ==
  ASSUME Typed, Typed', NEW w \in Worker, Pushes(w), NEW e \in Event
  PROVE  LET same == order[cur[w]][1] = order[e][1]
         IN  /\ Entries(e)' = IF same THEN {i + 1 : i \in Entries(e)}
                                             \cup IF cur[w] = e THEN {1} ELSE {}
                              ELSE Entries(e)
             /\ Cardinality(Entries(e)') =
                  Cardinality(Entries(e)) + IF cur[w] = e THEN 1 ELSE 0
<1>1. PICK u \in User : u = order[e][1] /\ list[u] \in Seq(Event)
  BY EntriesAre
<1>2. cur[w] \in Event /\ UserOf(w) \in User /\ UserOf(w) = order[cur[w]][1]
  BY InHand DEF Pushes, UserOf
<1>3. order' = order /\ list' = [list EXCEPT ![UserOf(w)] = <<cur[w]>> \o @]
  BY DEF Pushes
<1>4. Entries(e) = EntriesOf(list[u], e) /\ Entries(e)' = EntriesOf(list'[u], e)
  BY <1>1, <1>3 DEF Entries, EntriesOf
<1>5. CASE UserOf(w) = u
  <2>1. list'[u] = <<cur[w]>> \o list[u]
    BY <1>3, <1>5 DEF Typed, TypeOK
  <2>. QED  BY <1>1, <1>2, <1>4, <1>5, <2>1, PushedEntries
<1>6. CASE UserOf(w) # u
  <2>1. list'[u] = list[u] /\ cur[w] # e
    BY <1>1, <1>2, <1>3, <1>6 DEF Typed, TypeOK
  <2>2. Cardinality(Entries(e)) \in Nat
    BY EntriesAre
  <2>. QED  BY <1>1, <1>2, <1>4, <1>6, <2>1, <2>2
<1>. QED  BY <1>5, <1>6

\* A trim leaves no event with more entries.
LEMMA EntriesAfterTrim ==
  ASSUME Typed, NEW w \in Worker, Trims(w), NEW e \in Event
  PROVE  /\ Entries(e)' \subseteq Entries(e)
         /\ Cardinality(Entries(e)') <= Cardinality(Entries(e))
<1>1. PICK u \in User : u = order[e][1] /\ list[u] \in Seq(Event)
  BY EntriesAre
<1>2. /\ order' = order /\ UserOf(w) \in User
      /\ list' = [list EXCEPT ![UserOf(w)] = Trimmed(@)]
  BY InHand DEF Trims
<1>3. Entries(e) = EntriesOf(list[u], e) /\ Entries(e)' = EntriesOf(list'[u], e)
  BY <1>1, <1>2 DEF Entries, EntriesOf
<1>4. CASE list'[u] = list[u]
  BY <1>3, <1>4, EntriesAre
<1>5. CASE list'[u] # list[u]
  <2>1. list'[u] = Trimmed(list[u])
    BY <1>2, <1>5 DEF Typed, TypeOK
  <2>. QED  BY <1>1, <1>3, <2>1, TrimmedEntries
<1>. QED  BY <1>4, <1>5

\* A step that hands e to nobody and adds no entry of it.
LEMMA PendingFewer ==
  ASSUME Typed, NEW e \in Event, IsFiniteSet(Pending(e)),
         Cardinality(Pending(e)) + Cardinality(Entries(e)) <= attempts[e],
         Pending(e)' \subseteq Pending(e), attempts'[e] = attempts[e],
         Cardinality(Entries(e)') \in Nat,
         Cardinality(Entries(e)') <= Cardinality(Entries(e))
  PROVE  /\ IsFiniteSet(Pending(e)')
         /\ Cardinality(Pending(e)') + Cardinality(Entries(e)') <= attempts'[e]
<1>1. Cardinality(Pending(e)) \in Nat /\ Cardinality(Entries(e)) \in Nat
  BY FS_CardinalityType, EntriesAre
<1>2. /\ IsFiniteSet(Pending(e)') /\ Cardinality(Pending(e)') \in Nat
      /\ Cardinality(Pending(e)') <= Cardinality(Pending(e))
  BY FS_Subset, FS_CardinalityType
<1>3. attempts[e] \in Nat
  BY DEF Typed, TypeOK, GroupTypeOK
<1>. QED  BY <1>1, <1>2, <1>3

\* Every step keeps entries and handlers yet to push within the handovers.
LEMMA PendingStep ==
  ASSUME Typed, Typed', PendingInv, [EWNext]_vars
  PROVE  PendingInv'
<1>. SUFFICES ASSUME NEW e \in Event
              PROVE  /\ IsFiniteSet(Pending(e)')
                     /\ Cardinality(Pending(e)') + Cardinality(Entries(e)') <= attempts'[e]
  BY DEF PendingInv
<1>. DEFINE Goal == /\ IsFiniteSet(Pending(e)')
                    /\ Cardinality(Pending(e)') + Cardinality(Entries(e)') <= attempts'[e]
<1>1. /\ IsFiniteSet(Pending(e)) /\ Cardinality(Pending(e)) \in Nat
      /\ Cardinality(Pending(e)) + Cardinality(Entries(e)) <= attempts[e]
  BY FS_CardinalityType DEF PendingInv
<1>2. /\ Cardinality(Entries(e)) \in Nat /\ Cardinality(Entries(e)') \in Nat
      /\ attempts[e] \in Nat
  <2>1. Cardinality(Entries(e)) \in Nat /\ attempts[e] \in Nat
    BY EntriesAre DEF Typed, TypeOK, GroupTypeOK
  <2>2. Cardinality(Entries(e)') \in Nat
    <3>1. order'[e][1] \in User /\ list'[order'[e][1]] \in Seq(Event)
      BY DEF Typed, TypeOK
    <3>2. Entries(e)' = EntriesOf(list'[order'[e][1]], e)
      BY DEF Entries, EntriesOf
    <3>. QED  BY <3>1, <3>2, EntriesFinite
  <2>. QED  BY <2>1, <2>2
<1>3. UNCHANGED order
  BY PayloadStays
<1>4. ASSUME UNCHANGED <<list, attempts>>, Pending(e)' \subseteq Pending(e) PROVE Goal
  <2>1. Entries(e)' = Entries(e)
    BY <1>3, <1>4 DEF Entries
  <2>. QED  BY <1>1, <1>2, <1>4, <2>1, PendingFewer
<1>5. ASSUME NEW w \in Worker, NEW x \in Event, Receive(w, x) PROVE Goal
  <2>0. /\ \A v \in Worker \ {w} : step'[v] = step[v] /\ cur'[v] = cur[v]
        /\ step[w] = "none" /\ cur'[w] = x
        /\ step'[w] \in IF x \in valid THEN {"window", "push"} ELSE {"none"}
    BY <1>5
       DEF Receive, Take, Goto, FirstStep, Typed, TypeOK, HandlerShape, GroupTypeOK
  <2>1. Entries(e)' = Entries(e)
    BY <1>3, <1>5 DEF Receive, redis, Entries
  <2>2. CASE x = e /\ e \in valid
    <3>1. Pending(e)' = Pending(e) \cup {w} /\ w \notin Pending(e)
      BY <2>0, <2>2 DEF Pending
    <3>2. attempts'[e] = attempts[e] + 1
      BY <1>5, <2>2 DEF Receive, Take, Typed, TypeOK, GroupTypeOK
    <3>3. /\ IsFiniteSet(Pending(e)')
          /\ Cardinality(Pending(e)') = Cardinality(Pending(e)) + 1
      BY <1>1, <3>1, FS_AddElement
    <3>. QED  BY <1>1, <1>2, <2>1, <3>2, <3>3
  <2>3. CASE ~(x = e /\ e \in valid)
    <3>1. Pending(e)' \subseteq Pending(e)
      BY <2>0, <2>3 DEF Pending
    <3>2. attempts'[e] = attempts[e]
      BY <1>5, <2>3 DEF Receive, Take, Typed, TypeOK, GroupTypeOK
    <3>. QED  BY <1>1, <1>2, <2>1, <3>1, <3>2, PendingFewer
  <2>. QED  BY <2>2, <2>3
<1>6. ASSUME NEW w \in Worker, Pushes(w) PROVE Goal
  <2>1. attempts' = attempts /\ cur' = cur /\ step' = [step EXCEPT ![w] = "trim"]
    BY <1>6 DEF Pushes, cgVars
  <2>2. step[w] = "push" /\ step \in [Worker -> Step]
    BY <1>6 DEF Pushes, Typed, TypeOK
  <2>3. Cardinality(Entries(e)') = Cardinality(Entries(e)) + IF cur[w] = e THEN 1 ELSE 0
    BY <1>6, EntriesAfterPush
  <2>4. CASE cur[w] = e
    <3>1. Pending(e)' = Pending(e) \ {w} /\ w \in Pending(e)
      BY <2>1, <2>2, <2>4 DEF Pending
    <3>2. /\ IsFiniteSet(Pending(e)')
          /\ Cardinality(Pending(e)') = Cardinality(Pending(e)) - 1
      BY <1>1, <3>1, FS_RemoveElement
    <3>. QED  BY <1>1, <1>2, <2>1, <2>3, <2>4, <3>2
  <2>5. CASE cur[w] # e
    <3>1. Pending(e)' \subseteq Pending(e)
      BY <2>1, <2>2, <2>5 DEF Pending
    <3>2. Cardinality(Entries(e)') <= Cardinality(Entries(e))
      BY <1>2, <2>3, <2>5
    <3>. QED  BY <1>1, <1>2, <2>1, <3>1, <3>2, PendingFewer
  <2>. QED  BY <2>4, <2>5
<1>7. ASSUME NEW w \in Worker, Trims(w) PROVE Goal
  <2>1. attempts' = attempts /\ cur' = cur
    BY <1>7 DEF Trims, cgVars
  <2>2. Pending(e)' \subseteq Pending(e)
    BY <1>7, <2>1 DEF Trims, Pending, Typed, TypeOK
  <2>. QED  BY <1>1, <1>2, <1>7, <2>1, <2>2, EntriesAfterTrim, PendingFewer
<1>8. CASE UNCHANGED vars
  BY <1>4, <1>8 DEF vars, cgVars, handlers, redis, Pending
<1>9. ASSUME NEW w \in Worker,
             \/ AddToWindow(w) \/ ProbeDestination(w) \/ LearnDestination(w)
             \/ Judge(w) \/ RecordNotification(w)
      PROVE  Goal
  <2>1. UNCHANGED <<list, attempts, cur>>
    BY <1>9 DEF AddToWindow, ProbeDestination, LearnDestination, Judge,
                RecordNotification, Advances, Ends, Return, cgVars, redis
  <2>2. \A v \in Worker : step'[v] \in {"window", "push"} => step[v] \in {"window", "push"}
    BY <1>9 DEF AddToWindow, ProbeDestination, LearnDestination, Judge,
                RecordNotification, Advances, Ends, Typed, TypeOK
  <2>3. Pending(e)' \subseteq Pending(e)
    BY <2>1, <2>2 DEF Pending
  <2>. QED  BY <1>4, <2>1, <2>3
<1>10. ASSUME NEW w \in Worker, HandlerRaises(w) \/ GoDown(w) PROVE Goal
  <2>1. UNCHANGED <<list, attempts>>
    BY <1>10 DEF HandlerRaises, GoDown, Return, Restart, redis
  <2>2. Pending(e)' \subseteq Pending(e)
    BY <1>10
       DEF HandlerRaises, GoDown, Return, Restart, Pending, Typed, TypeOK, GroupTypeOK
  <2>. QED  BY <1>4, <2>1, <2>2
<1>11. ASSUME NEW w \in Worker, Delivery(w) PROVE Goal
  <2>1. UNCHANGED <<list, attempts, step>>
    BY <1>11
       DEF Delivery, handlers, redis, Start, StartFails, Expel, Commit, CommitFails
  <2>2. \A v \in Worker : step[v] # "none" => cur'[v] = cur[v]
    BY <1>11
       DEF Delivery, Start, StartFails, Expel, Commit, CommitFails, Goto, Typed,
                 TypeOK, HandlerShape, GroupTypeOK
  <2>3. Pending(e)' \subseteq Pending(e)
    BY <2>1, <2>2 DEF Pending
  <2>. QED  BY <1>4, <2>1, <2>3
<1>12. ASSUME NEW w \in Worker, PushEntry(w) PROVE Goal
  BY <1>6, <1>12 DEF PushEntry, Advances, Pushes, history
<1>13. ASSUME NEW w \in Worker, TrimList(w) PROVE Goal
  BY <1>7, <1>13 DEF TrimList, Advances, Trims, Trimmed, history
<1>. QED
  BY <1>5, <1>8, <1>9, <1>10, <1>11, <1>12, <1>13 DEF EWNext, Handle, Quiescent

\* Newest first.  An event is pushed before any that follows it is handed over,
\* unless it was handed over twice itself.
LEMMA FollowsStep ==
  ASSUME Typed, Typed', HandedOver, PendingInv, ListFollowsPartition, [EWNext]_vars
  PROVE  ListFollowsPartition'
<1>. SUFFICES ASSUME NEW e \in Event, NEW f \in Event, e < f, home'[e] = home'[f],
                     order'[e][1] = order'[f][1], attempts'[e] = 1, attempts'[f] = 1,
                     NEW i \in Entries(e)', NEW j \in Entries(f)'
              PROVE  j < i
  BY DEF ListFollowsPartition
<1>1. UNCHANGED <<order, home>>
  BY PayloadStays
<1>2. /\ attempts[e] \in Nat /\ attempts[e] <= 1
      /\ attempts[f] \in Nat /\ attempts[f] <= 1
  <2>1. /\ attempts[e] \in Nat /\ attempts[e] <= attempts'[e]
        /\ attempts[f] \in Nat /\ attempts[f] <= attempts'[f]
    BY CommitsStay, WorkerStep DEF Typed
  <2>. QED  BY <2>1
<1>3. \A g \in Event : attempts[g] = 0 => Entries(g) = {}
  <2>. SUFFICES ASSUME NEW g \in Event, attempts[g] = 0 PROVE Entries(g) = {}
    OBVIOUS
  <2>1. Cardinality(Pending(g)) \in Nat /\ Cardinality(Entries(g)) \in Nat
    BY FS_CardinalityType, EntriesAre DEF PendingInv
  <2>2. Cardinality(Entries(g)) = 0
    BY <2>1 DEF PendingInv
  <2>3. IsFiniteSet(Entries(g))
    BY EntriesAre, EntriesFinite
  <2>. QED  BY <2>2, <2>3, FS_EmptySet
<1>4. CASE Entries(e)' \subseteq Entries(e) /\ Entries(f)' \subseteq Entries(f)
  <2>1. attempts[e] = 1 /\ attempts[f] = 1
    BY <1>2, <1>3, <1>4
  <2>. QED  BY <1>1, <1>4, <2>1 DEF ListFollowsPartition
<1>5. ASSUME NEW w \in Worker, Pushes(w) PROVE j < i
  <2>1. attempts' = attempts /\ step[w] = "push"
    BY <1>5 DEF Pushes, cgVars
  <2>2. /\ Entries(e)' = IF order[cur[w]][1] = order[e][1]
                         THEN {k + 1 : k \in Entries(e)} \cup IF cur[w] = e THEN {1} ELSE {}
                         ELSE Entries(e)
        /\ Entries(f)' = IF order[cur[w]][1] = order[f][1]
                         THEN {k + 1 : k \in Entries(f)} \cup IF cur[w] = f THEN {1} ELSE {}
                         ELSE Entries(f)
    BY <1>5, EntriesAfterPush
  <2>3. cur[w] # e
    <3>. SUFFICES ASSUME cur[w] = e PROVE FALSE
      OBVIOUS
    <3>1. Committed(e)
      BY <1>1, <2>1 DEF HandedOver
    <3>2. stage[w] = "handling"
      BY <2>1 DEF Typed, HandlerShape
    <3>3. attempts[e] >= 2
      BY <3>1, <3>2 DEF HandedOver
    <3>. QED  BY <1>2, <3>3
  <2>4. Entries(e) \subseteq Nat \ {0} /\ Entries(f) \subseteq Nat \ {0}
    <3>1. ASSUME NEW l \in Seq(Event), NEW x PROVE EntriesOf(l, x) \subseteq Nat \ {0}
      BY DEF EntriesOf
    <3>. QED
      BY <3>1, EntriesAre
  <2>5. \A k \in Entries(e), l \in Entries(f) : l < k
    BY <1>1, <2>1 DEF ListFollowsPartition
  <2>6. CASE order[cur[w]][1] # order[e][1]
    BY <1>1, <2>2, <2>5, <2>6
  <2>7. CASE order[cur[w]][1] = order[e][1]
    <3>1. PICK k \in Entries(e) : i = k + 1
      BY <2>2, <2>3, <2>7
    <3>2. CASE j = 1
      BY <2>4, <3>1, <3>2
    <3>3. CASE j # 1
      <4>1. PICK l \in Entries(f) : j = l + 1
        BY <1>1, <2>2, <2>7, <3>3
      <4>2. l < k /\ l \in Nat /\ k \in Nat
        BY <2>4, <2>5
      <4>. QED  BY <3>1, <4>1, <4>2
    <3>. QED  BY <3>2, <3>3
  <2>. QED  BY <2>6, <2>7
<1>6. ASSUME NEW w \in Worker, Trims(w) PROVE j < i
  BY <1>4, <1>6, EntriesAfterTrim
<1>7. CASE UNCHANGED <<list, order>>
  <2>1. Entries(e)' = Entries(e) /\ Entries(f)' = Entries(f)
    BY <1>7 DEF Entries
  <2>. QED  BY <1>4, <2>1
<1>. QED  BY <1>5, <1>6, <1>7, ListStep

\* Short.  Each handler that has pushed and not trimmed, and each that went away
\* or raised in between, accounts for one entry beyond the cap.
Trimmers(u) == {w \in Worker : step[w] = "trim" /\ UserOf(w) = u}

CappedInv ==
  \A u \in User : /\ IsFiniteSet(Trimmers(u))
                  /\ Len(list[u]) <= Cap + faults + raises + Cardinality(Trimmers(u))

\* A step that takes trimmers away only as faults or raises grow.
LEMMA CappedOtherwise ==
  ASSUME Typed, Typed', CappedInv, NEW u \in User, list'[u] = list[u],
         \/ /\ Trimmers(u)' = Trimmers(u)
            /\ faults' \in {faults, faults + 1} /\ raises' = raises
         \/ /\ \E w \in Worker : Trimmers(u) \ {w} = Trimmers(u)'
            /\ \/ faults' = faults + 1 /\ raises' = raises
               \/ faults' = faults /\ raises' = raises + 1
  PROVE  /\ IsFiniteSet(Trimmers(u)')
         /\ Len(list'[u]) <= Cap + faults' + raises' + Cardinality(Trimmers(u)')
<1>1. /\ Len(list[u]) \in Nat /\ Cap \in Nat /\ faults \in Nat /\ raises \in Nat
      /\ IsFiniteSet(Trimmers(u)) /\ Cardinality(Trimmers(u)) \in Nat
      /\ Len(list[u]) <= Cap + faults + raises + Cardinality(Trimmers(u))
  BY EventWorkersAssumption, ConsumerGroupAssumption, FS_CardinalityType
     DEF Typed, TypeOK, GroupTypeOK, CappedInv
<1>2. CASE Trimmers(u)' = Trimmers(u)
  BY <1>1, <1>2
<1>3. ASSUME NEW w \in Worker, Trimmers(u) \ {w} = Trimmers(u)'
      PROVE  /\ IsFiniteSet(Trimmers(u)')
             /\ Cardinality(Trimmers(u)') \in Nat
             /\ Cardinality(Trimmers(u)) <= Cardinality(Trimmers(u)') + 1
  <2>1. /\ IsFiniteSet(Trimmers(u) \ {w})
        /\ Cardinality(Trimmers(u) \ {w}) =
             IF w \in Trimmers(u) THEN Cardinality(Trimmers(u)) - 1
                                  ELSE Cardinality(Trimmers(u))
    BY <1>1, FS_RemoveElement
  <2>2. Cardinality(Trimmers(u) \ {w}) \in Nat
    BY <2>1, FS_CardinalityType
  <2>3. Cardinality(Trimmers(u)) <= Cardinality(Trimmers(u) \ {w}) + 1
    BY <1>1, <2>1, <2>2
  <2>. QED  BY <1>3, <2>1, <2>2, <2>3, Zenon
<1>4. CASE Trimmers(u)' # Trimmers(u)
  <2>1. faults' + raises' = faults + raises + 1 /\ faults' \in Nat /\ raises' \in Nat
    <3>1. \/ faults' = faults + 1 /\ raises' = raises
          \/ faults' = faults /\ raises' = raises + 1
      BY <1>4, Zenon
    <3>2. faults \in Nat /\ raises \in Nat
      BY <1>1
    <3>. QED
      BY <3>1, <3>2
  <2>2. /\ IsFiniteSet(Trimmers(u)') /\ Cardinality(Trimmers(u)') \in Nat
        /\ Cardinality(Trimmers(u)) <= Cardinality(Trimmers(u)') + 1
    BY <1>3, <1>4
  <2>3. \A a, b, c, d, x, y, l \in Nat :
          /\ l <= Cap + a + b + x /\ c + d = a + b + 1 /\ x <= y + 1
          => l <= Cap + c + d + y
    BY <1>1
  <2>4. Len(list[u]) <= Cap + faults' + raises' + Cardinality(Trimmers(u)')
    BY <1>1, <2>1, <2>2, <2>3
  <2>. QED  BY <2>2, <2>4
<1>. QED  BY <1>2, <1>4

\* Every step keeps the lists within the cap and what is left to trim.
LEMMA CappedStep ==
  ASSUME Typed, Typed', CappedInv, [EWNext]_vars
  PROVE  CappedInv'
<1>. SUFFICES ASSUME NEW u \in User
              PROVE  /\ IsFiniteSet(Trimmers(u)')
                     /\ Len(list'[u]) <= Cap + faults' + raises' + Cardinality(Trimmers(u)')
  BY DEF CappedInv
<1>. DEFINE Goal == /\ IsFiniteSet(Trimmers(u)')
                    /\ Len(list'[u]) <= Cap + faults' + raises' + Cardinality(Trimmers(u)')
            Kept == /\ list'[u] = list[u] /\ Trimmers(u)' = Trimmers(u)
                    /\ faults' \in {faults, faults + 1} /\ raises' = raises
<1>1. /\ Len(list[u]) \in Nat /\ Cap \in Nat /\ faults \in Nat /\ raises \in Nat
      /\ IsFiniteSet(Trimmers(u)) /\ Cardinality(Trimmers(u)) \in Nat
      /\ Len(list[u]) <= Cap + faults + raises + Cardinality(Trimmers(u))
      /\ list[u] \in Seq(Event)
  BY EventWorkersAssumption, ConsumerGroupAssumption, FS_CardinalityType
     DEF Typed, TypeOK, GroupTypeOK, CappedInv
<1>2. UNCHANGED order
  BY PayloadStays
<1>3. /\ stage \in [Worker -> Stage] /\ step \in [Worker -> Step]
      /\ cur \in [Worker -> Event \cup {NoEvent}] /\ list \in [User -> Seq(Event)]
      /\ \A w \in Worker : step[w] # "none" <=> stage[w] = "handling"
  BY DEF Typed, TypeOK, GroupTypeOK, HandlerShape
<1>4. ASSUME NEW w \in Worker, PushEntry(w) PROVE Goal
  <2>1. /\ UNCHANGED <<cur, faults, raises>> /\ step[w] = "push"
        /\ step' = [step EXCEPT ![w] = "trim"]
        /\ list' = [list EXCEPT ![UserOf(w)] = <<cur[w]>> \o @]
    BY <1>4 DEF PushEntry, Advances, cgVars, history
  <2>2. cur[w] \in Event /\ UserOf(w) \in User
    BY <2>1, InHand
  <2>3. CASE UserOf(w) = u
    <3>1. Trimmers(u)' = Trimmers(u) \cup {w} /\ w \notin Trimmers(u)
      BY <1>2, <1>3, <2>1, <2>3 DEF Trimmers, UserOf
    <3>2. Len(list'[u]) = Len(list[u]) + 1
      BY <1>1, <1>3, <2>1, <2>2, <2>3, Pushed
    <3>3. /\ IsFiniteSet(Trimmers(u)')
          /\ Cardinality(Trimmers(u)') = Cardinality(Trimmers(u)) + 1
      BY <1>1, <3>1, FS_AddElement
    <3>. QED  BY <1>1, <2>1, <3>2, <3>3
  <2>4. CASE UserOf(w) # u
    <3>1. Kept
      BY <1>2, <1>3, <2>1, <2>2, <2>4 DEF Trimmers, UserOf
    <3>. QED  BY <3>1, CappedOtherwise
  <2>. QED  BY <2>3, <2>4
<1>5. ASSUME NEW w \in Worker, TrimList(w) PROVE Goal
  <2>1. /\ UNCHANGED <<cur, faults, raises>> /\ step[w] = "trim"
        /\ \A v \in Worker \ {w} : step'[v] = step[v]
        /\ step'[w] # "trim"
        /\ list' = [list EXCEPT ![UserOf(w)] = Trimmed(@)]
    BY <1>3, <1>5 DEF TrimList, Advances, cgVars, history, Trimmed
  <2>2. UserOf(w) \in User
    BY <2>1, InHand
  <2>3. CASE UserOf(w) = u
    <3>1. Trimmers(u)' \subseteq Trimmers(u)
      BY <1>2, <2>1, <2>3 DEF Trimmers, UserOf
    <3>2. IsFiniteSet(Trimmers(u)') /\ Cardinality(Trimmers(u)') \in Nat
      BY <1>1, <3>1, FS_Subset, FS_CardinalityType
    <3>3. Len(list'[u]) <= Cap /\ Len(list'[u]) \in Nat
      BY <1>1, <1>3, <2>1, <2>2, <2>3, TrimmedPrefix
    <3>. QED  BY <1>1, <2>1, <3>2, <3>3
  <2>4. CASE UserOf(w) # u
    <3>1. Kept
      BY <1>2, <1>3, <2>1, <2>2, <2>4 DEF Trimmers, UserOf
    <3>. QED  BY <3>1, CappedOtherwise
  <2>. QED  BY <2>3, <2>4
<1>6. ASSUME NEW w \in Worker,
             \/ AddToWindow(w) \/ ProbeDestination(w) \/ LearnDestination(w)
             \/ Judge(w) \/ RecordNotification(w)
      PROVE  Goal
  <2>1. /\ UNCHANGED <<list, cur, faults, raises>> /\ step[w] # "trim" /\ step'[w] # "trim"
        /\ \A v \in Worker \ {w} : step'[v] = step[v]
    BY <1>3, <1>6 DEF AddToWindow, ProbeDestination, LearnDestination, Judge,
                RecordNotification, Advances, Ends, Return, cgVars, redis, history
  <2>2. Kept
    BY <1>2, <2>1 DEF Trimmers, UserOf
  <2>. QED  BY <2>2, CappedOtherwise
<1>7. ASSUME NEW w \in Worker, HandlerRaises(w) \/ GoDown(w) PROVE Goal
  <2>1. /\ list' = list /\ step'[w] = "none"
        /\ \A v \in Worker \ {w} : step'[v] = step[v] /\ cur'[v] = cur[v]
        /\ \/ faults' = faults + 1 /\ raises' = raises
           \/ faults' = faults /\ raises' = raises + 1
    BY <1>3, <1>7 DEF HandlerRaises, GoDown, Return, Restart, Fault, redis
  <2>2. Trimmers(u)' = Trimmers(u) \ {w}
    BY <1>2, <2>1 DEF Trimmers, UserOf
  <2>. QED  BY <2>1, <2>2, CappedOtherwise
<1>8. ASSUME NEW w \in Worker,
             (\E e \in Event : Receive(w, e)) \/ Delivery(w)
      PROVE  Goal
  <2>1. /\ UNCHANGED <<list, raises>> /\ faults' \in {faults, faults + 1}
        /\ \A v \in Worker : (step[v] = "trim" <=> step'[v] = "trim")
        /\ \A v \in Worker : step[v] = "trim" => cur'[v] = cur[v]
    BY <1>3, <1>8
       DEF Receive, Take, FirstStep, Delivery, handlers, redis, history,
                Start, StartFails, Expel, Commit, CommitFails, Goto, Fault
  <2>2. Kept
    BY <1>2, <2>1 DEF Trimmers, UserOf
  <2>. QED  BY <2>1, <2>2, CappedOtherwise
<1>9. CASE UNCHANGED vars
  <2>1. Kept
    BY <1>9 DEF vars, cgVars, handlers, redis, history, Trimmers, UserOf
  <2>. QED  BY <2>1, CappedOtherwise
<1>. QED  BY <1>4, <1>5, <1>6, <1>7, <1>8, <1>9 DEF EWNext, Handle, Quiescent

\* The lists start empty.
LEMMA RecentListInit ==
  EWInit => PendingInv /\ ListFollowsPartition /\ CappedInv
<1>. SUFFICES ASSUME EWInit PROVE PendingInv /\ ListFollowsPartition /\ CappedInv
  OBVIOUS
<1>1. Typed
  BY TypedInit
<1>2. \A e \in Event : Entries(e) = {} /\ Pending(e) = {} /\ attempts[e] = 0
  <2>1. \A u \in User : list[u] = <<>>
    BY DEF EWInit
  <2>2. \A e \in Event : Entries(e) = {}
    <3>. SUFFICES ASSUME NEW e \in Event PROVE Entries(e) = {}
      OBVIOUS
    <3>1. order[e][1] \in User
      BY <1>1, EntriesAre
    <3>2. DOMAIN list[order[e][1]] = {}
      BY <2>1, <3>1
    <3>. QED  BY <3>2 DEF Entries
  <2>. QED  BY <2>2 DEF EWInit, Init, Pending
<1>3. \A u \in User : Trimmers(u) = {} /\ Len(list[u]) = 0 /\ faults = 0 /\ raises = 0
  BY DEF EWInit, Init, Trimmers
<1>4. PendingInv
  <2>. SUFFICES ASSUME NEW e \in Event
                PROVE  /\ IsFiniteSet(Pending(e))
                       /\ Cardinality(Pending(e)) + Cardinality(Entries(e)) <= attempts[e]
    BY DEF PendingInv
  <2>1. Entries(e) = {} /\ Pending(e) = {} /\ attempts[e] = 0
    BY <1>2
  <2>2. Cardinality(Entries(e)) = 0 /\ Cardinality(Pending(e)) = 0
    BY <2>1, FS_EmptySet
  <2>. QED  BY <2>1, <2>2, FS_EmptySet
<1>5. CappedInv
  <2>. SUFFICES ASSUME NEW u \in User
                PROVE  /\ IsFiniteSet(Trimmers(u))
                       /\ Len(list[u]) <= Cap + faults + raises + Cardinality(Trimmers(u))
    BY DEF CappedInv
  <2>1. Trimmers(u) = {} /\ Len(list[u]) = 0 /\ faults = 0 /\ raises = 0
    BY <1>3
  <2>2. Cardinality(Trimmers(u)) = 0 /\ Cap \in Nat
    BY <2>1, FS_EmptySet, EventWorkersAssumption
  <2>. QED  BY <2>1, <2>2, FS_EmptySet
<1>6. ListFollowsPartition
  BY <1>2 DEF ListFollowsPartition
<1>. QED  BY <1>4, <1>5, <1>6

\* A user's list of recent transfers, for any number of workers, events and
\* faults: an entry for each time the event was handed over at most, the events
\* of a partition newest first, and never longer than the cap and what handlers
\* still have to trim or went away from.
THEOREM RecentTransfers == EWSpec => []RecentList
<1>. DEFINE Inv == PendingInv /\ ListFollowsPartition /\ CappedInv
<1>1. (Typed /\ HandedOver) /\ (Typed /\ HandedOver)' /\ Inv /\ [EWNext]_vars => Inv'
  BY PendingStep, FollowsStep, CappedStep
<1>2. EWSpec => [](Typed /\ HandedOver /\ Inv)
  BY <1>1, HandedOverAlways, RecentListInit, PTL DEF EWSpec
<1>3. Typed /\ Inv => RecentList
  <2>. SUFFICES ASSUME Typed, Inv PROVE RecentList
    OBVIOUS
  <2>1. ASSUME NEW e \in Event PROVE Cardinality(Entries(e)) <= attempts[e]
    <3>1. /\ Cardinality(Pending(e)) \in Nat /\ Cardinality(Entries(e)) \in Nat
          /\ Cardinality(Pending(e)) + Cardinality(Entries(e)) <= attempts[e]
          /\ attempts[e] \in Nat
      BY FS_CardinalityType, EntriesAre DEF PendingInv, Typed, TypeOK, GroupTypeOK
    <3>. QED  BY <3>1
  <2>2. ListsCapped
    BY DEF ListsCapped, CappedInv, Trimmers
  <2>. QED  BY <2>1, <2>2 DEF RecentList, RepeatsAreRedeliveries
<1>. QED  BY <1>2, <1>3, PTL

=============================================================================
