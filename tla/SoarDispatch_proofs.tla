------------------------- MODULE SoarDispatch_proofs -------------------------
(***************************************************************************)
(* Theorems of SoarDispatch, for any number of deliveries, offenses and    *)
(* expiries, and of Advice, for every input.                               *)
(***************************************************************************)
EXTENDS Advice, FiniteSetTheorems, TLAPS

\* The steps of a handler that report the next playbook.
Plays1(d) == \/ PlayLacks(d) \/ PlayDryRun(d) \/ PostRaises(d) \/ CallReturns(d)
             \/ CallRaises(d) \/ RevokeBinding(d) \/ RevokeInCluster(d)
             \/ RevokeRaises(d)

\* A delivery's key is a key.
LEMMA KeyTyped == ASSUME TypeOK, NEW d \in Delivery PROVE KeyFor(d) \in Key
BY DEF TypeOK, KeyFor, Key

\* A playbook's turn ends in a report.
LEMMA Reporting ==
  ASSUME TypeOK, NEW d \in Delivery, Plays1(d)
  PROVE  /\ Running(d)
         /\ \E ok \in BOOLEAN : Report(d, ok)
BY DEF Plays1, PlayLacks, PlayDryRun, PostRaises, CallReturns, CallRaises,
       RevokeBinding, RevokeInCluster, RevokeRaises, Calls, Revokes

\* Every step keeps the types.
LEMMA TypeStep == TypeOK /\ [Next]_vars => TypeOK'
<1> SUFFICES ASSUME TypeOK, [Next]_vars PROVE TypeOK'
    OBVIOUS
<1> USE DEF TypeOK, InFlight
<1>1. ASSUME NEW d \in Delivery, RejectSignature(d) PROVE TypeOK'
  BY <1>1 DEF RejectSignature, Reply, redis, world
<1>2. ASSUME NEW d \in Delivery, Receive(d) PROVE TypeOK'
  BY <1>2 DEF Receive, redis, world
<1>3. ASSUME NEW d \in Delivery, Claim(d) PROVE TypeOK'
  BY <1>3, KeyTyped DEF Claim, SetMarker, world
<1>4. ASSUME NEW d \in Delivery, Deduplicate(d) PROVE TypeOK'
  BY <1>4 DEF Deduplicate, Reply, redis, world
<1>5. ASSUME NEW d \in Delivery, ClaimRaises(d) PROVE TypeOK'
  <2>1. CASE UNCHANGED redis
    BY <1>5, <2>1 DEF ClaimRaises, Reply, redis, world
  <2>2. CASE SetMarker(d)
    <3>1. /\ marker' \in [Key -> Delivery \cup {None}]
          /\ claim' \in [Delivery -> Nat]
          /\ window' \in [Key -> Nat \ {0}]
      BY <2>2, KeyTyped DEF SetMarker
    <3> QED
      BY <1>5, <3>1 DEF ClaimRaises, Reply, world
  <2> QED
    BY <1>5, <2>1, <2>2 DEF ClaimRaises
<1>6. ASSUME NEW d \in Delivery, Plays1(d) PROVE TypeOK'
  <2>1. bindings' \subseteq Binding
    BY <1>6 DEF Plays1, PlayLacks, PlayDryRun, PostRaises, CallReturns,
                CallRaises, RevokeBinding, RevokeInCluster, RevokeRaises, Delete,
                world
  <2>2. PICK ok \in BOOLEAN : Report(d, ok)
    BY <1>6, Reporting
  <2>3. results' \in [Delivery -> Seq(BOOLEAN)]
    BY <2>2 DEF Report
  <2> QED
    BY <2>1, <2>2, <2>3 DEF Report, redis
<1>7. ASSUME NEW d \in Delivery, Answer(d) PROVE TypeOK'
  BY <1>7 DEF Answer, Reply, redis, world
<1>8. ASSUME NEW k \in Key, ExpireMarker(k) PROVE TypeOK'
  BY <1>8 DEF ExpireMarker, handler, world
<1>9. ASSUME NEW d \in Delivery, Crash(d) PROVE TypeOK'
  BY <1>9 DEF Crash, redis, world
<1>10. CASE UNCHANGED vars
  BY <1>10 DEF vars, redis, handler, world
<1> QED
  BY <1>1, <1>2, <1>3, <1>4, <1>5, <1>6, <1>7, <1>8, <1>9, <1>10
     DEF Next, Handle, Plays1, Quiescent

\* Spec keeps TypeOK.
THEOREM TypeCorrect == Spec => []TypeOK
<1>1. Init => TypeOK
  BY DEF Init, TypeOK
<1> QED
  BY <1>1, TypeStep, PTL DEF Spec

-----------------------------------------------------------------------------
(* One dispatch per window *)

\* A marker set in its key's present window is still there, and only who set one dispatches.
Claims ==
  /\ \A d \in Delivery :
       /\ claim[d] <= window[KeyFor(d)]
       /\ claim[d] = window[KeyFor(d)] => marker[KeyFor(d)] # None
       /\ pc[d] = "dispatching" => claim[d] # 0
  /\ \A x \in applied : x[1] \in Delivery

IInv == TypeOK /\ Claims /\ OncePerWindow

\* SET NX: whoever claims finds no claim of this window on its key.
LEMMA SetMarkerOnce ==
  ASSUME IInv, NEW d \in Delivery, marker[KeyFor(d)] = None, SetMarker(d),
         UNCHANGED <<offense, world>>,
         \A e \in Delivery \ {d} : pc'[e] = pc[e]
  PROVE  (Claims /\ OncePerWindow)'
<1> USE DEF IInv, TypeOK
<1>1. KeyFor(d) \in Key
  BY KeyTyped
<1>2. \A e \in Delivery : KeyFor(e)' = KeyFor(e)
  BY DEF KeyFor
<1>3. /\ window' = window /\ applied' = applied
      /\ claim' = [claim EXCEPT ![d] = window[KeyFor(d)]]
      /\ marker' = [marker EXCEPT ![KeyFor(d)] = d]
      /\ d # None
  BY SoarAssumption DEF SetMarker, world
<1>4. \A e \in Delivery : KeyFor(e) = KeyFor(d) => claim[e] # window[KeyFor(d)]
  BY DEF Claims
<1>5. marker'[KeyFor(d)] = d
  BY <1>1, <1>3
<1>6. Claims'
  <2> SUFFICES ASSUME NEW e \in Delivery
               PROVE  /\ claim'[e] <= window[KeyFor(e)]
                      /\ claim'[e] = window[KeyFor(e)] => marker'[KeyFor(e)] # None
                      /\ pc'[e] = "dispatching" => claim'[e] # 0
    BY <1>2, <1>3 DEF Claims
  <2>1. CASE e = d
    BY <2>1, <1>3, <1>5
  <2>2. CASE e # d
    <3>1. claim'[e] = claim[e] /\ pc'[e] = pc[e]
      BY <2>2, <1>3
    <3>2. marker[KeyFor(e)] # None => marker'[KeyFor(e)] # None
      BY <1>1, <1>3, KeyTyped
    <3> QED
      BY <3>1, <3>2, <1>3 DEF Claims
  <2> QED
    BY <2>1, <2>2
<1>7. \A e \in Delivery : claim'[e] = IF e = d THEN window[KeyFor(d)] ELSE claim[e]
  BY <1>3
<1>8. OncePerWindow'
  BY <1>2, <1>3, <1>4, <1>7 DEF OncePerWindow, Claims
<1> QED
  BY <1>6, <1>8

\* What leaves the markers alone, and adds calls only of who dispatches.
LEMMA OtherSteps ==
  ASSUME IInv, UNCHANGED <<redis, offense>>,
         \A d \in Delivery : pc'[d] = "dispatching" => pc[d] = "dispatching",
         \A x \in applied' \ applied :
           \E d \in Delivery : pc[d] = "dispatching" /\ x[1] = d
  PROVE  (Claims /\ OncePerWindow)'
BY DEF IInv, Claims, OncePerWindow, KeyFor, redis

\* A reply sends nobody to dispatching.
LEMMA ReplyLeaves ==
  ASSUME TypeOK, NEW d \in Delivery, NEW from, NEW a, Reply(d, from, a)
  PROVE  \A e \in Delivery : pc'[e] = "dispatching" => pc[e] = "dispatching"
BY DEF TypeOK, Reply

\* Every step keeps claims in their windows.
LEMMA OnceStep == IInv /\ [Next]_vars => (Claims /\ OncePerWindow)'
<1> SUFFICES ASSUME IInv, [Next]_vars PROVE (Claims /\ OncePerWindow)'
    OBVIOUS
<1> USE DEF IInv
<1>1. ASSUME NEW d \in Delivery, RejectSignature(d)
      PROVE (Claims /\ OncePerWindow)'
  BY <1>1, ReplyLeaves, OtherSteps DEF RejectSignature, world
<1>2. ASSUME NEW d \in Delivery, Receive(d) PROVE (Claims /\ OncePerWindow)'
  <2>1. \A e \in Delivery : pc'[e] = "dispatching" => pc[e] = "dispatching"
    BY <1>2 DEF Receive, TypeOK
  <2> QED
    BY <1>2, <2>1, OtherSteps DEF Receive, world
<1>3. ASSUME NEW d \in Delivery, Claim(d) PROVE (Claims /\ OncePerWindow)'
  <2>1. \A e \in Delivery \ {d} : pc'[e] = pc[e]
    BY <1>3 DEF Claim, TypeOK
  <2> QED
    BY <1>3, <2>1, SetMarkerOnce DEF Claim
<1>4. ASSUME NEW d \in Delivery, Deduplicate(d) PROVE (Claims /\ OncePerWindow)'
  BY <1>4, ReplyLeaves, OtherSteps DEF Deduplicate, world
<1>5. ASSUME NEW d \in Delivery, ClaimRaises(d) PROVE (Claims /\ OncePerWindow)'
  <2>1. CASE UNCHANGED redis
    BY <1>5, <2>1, ReplyLeaves, OtherSteps DEF ClaimRaises, world
  <2>2. CASE marker[KeyFor(d)] = None /\ SetMarker(d)
    <3>1. \A e \in Delivery \ {d} : pc'[e] = pc[e]
      BY <1>5 DEF ClaimRaises, Reply, TypeOK
    <3> QED
      BY <1>5, <2>2, <3>1, SetMarkerOnce DEF ClaimRaises
  <2> QED
    BY <1>5, <2>1, <2>2 DEF ClaimRaises
<1>6. ASSUME NEW d \in Delivery, Plays1(d) PROVE (Claims /\ OncePerWindow)'
  <2>1. PICK ok \in BOOLEAN : Report(d, ok)
    BY <1>6, Reporting
  <2>2. pc[d] = "dispatching"
    BY <1>6, Reporting DEF Running
  <2>3. applied' = applied \/ (\E c : Apply(d, c)) \/ (\E gone : Delete(d, gone))
    BY <1>6
       DEF Plays1, PlayLacks, PlayDryRun, PostRaises, CallReturns, CallRaises,
           RevokeBinding, RevokeInCluster, RevokeRaises, world
  <2>4. \A x \in applied' \ applied : x[1] = d
    BY <2>3 DEF Apply, Delete
  <2> QED
    BY <2>1, <2>2, <2>4, OtherSteps DEF Report
<1>7. ASSUME NEW d \in Delivery, Answer(d) PROVE (Claims /\ OncePerWindow)'
  BY <1>7, ReplyLeaves, OtherSteps DEF Answer, world
<1>8. ASSUME NEW k \in Key, ExpireMarker(k) PROVE (Claims /\ OncePerWindow)'
  <2>1. /\ window' = [window EXCEPT ![k] = @ + 1] /\ claim' = claim /\ pc' = pc
        /\ marker' = [marker EXCEPT ![k] = None]
        /\ applied' = applied /\ offense' = offense
        /\ \A d \in Delivery : KeyFor(d)' = KeyFor(d) /\ KeyFor(d) \in Key
    BY <1>8, KeyTyped DEF ExpireMarker, handler, world, KeyFor
  <2>2. ASSUME NEW d \in Delivery
        PROVE  /\ claim[d] <= window'[KeyFor(d)]
               /\ claim[d] = window'[KeyFor(d)] => marker'[KeyFor(d)] # None
    <3>1. CASE KeyFor(d) = k
      <4>1. window[k] \in Nat /\ claim[d] \in Nat /\ claim[d] <= window[k]
        BY <3>1 DEF TypeOK, Claims
      <4>2. window'[KeyFor(d)] = window[k] + 1
        BY <2>1, <3>1 DEF TypeOK
      <4> QED
        BY <4>1, <4>2
    <3>2. CASE KeyFor(d) # k
      <4>1. window'[KeyFor(d)] = window[KeyFor(d)] /\ marker'[KeyFor(d)] = marker[KeyFor(d)]
        BY <2>1, <3>2 DEF TypeOK
      <4> QED
        BY <4>1 DEF Claims
    <3> QED
      BY <3>1, <3>2
  <2>3. Claims'
    BY <2>1, <2>2 DEF Claims
  <2>4. OncePerWindow'
    BY <2>1 DEF OncePerWindow, KeyFor
  <2> QED
    BY <2>3, <2>4
<1>9. ASSUME NEW d \in Delivery, Crash(d) PROVE (Claims /\ OncePerWindow)'
  <2>1. \A e \in Delivery : pc'[e] = "dispatching" => pc[e] = "dispatching"
    BY <1>9 DEF Crash, TypeOK
  <2> QED
    BY <1>9, <2>1, OtherSteps DEF Crash, world
<1>10. CASE UNCHANGED vars
  BY <1>10, OtherSteps DEF vars, handler, world
<1> QED
  BY <1>1, <1>2, <1>3, <1>4, <1>5, <1>6, <1>7, <1>8, <1>9, <1>10
     DEF Next, Handle, Plays1, Quiescent

\* Spec keeps OncePerWindow, for any number of replicas, deliveries and expiries.
THEOREM OneDispatchPerWindow == Spec => []OncePerWindow
<1>1. Init => IInv
  <2> SUFFICES ASSUME Init PROVE IInv
    OBVIOUS
  <2>1. TypeOK
    BY DEF Init, TypeOK, InFlight
  <2>2. \A d \in Delivery : claim[d] = 0 /\ window[KeyFor(d)] = 1
    BY <2>1, KeyTyped DEF Init, KeyFor, TypeOK
  <2>3. Claims /\ OncePerWindow
    BY <2>2 DEF Init, Claims, OncePerWindow
  <2> QED
    BY <2>1, <2>3 DEF IInv
<1>2. IInv /\ [Next]_vars => IInv'
  BY TypeStep, OnceStep DEF IInv
<1>3. IInv => OncePerWindow
  BY DEF IInv
<1> QED
  BY <1>1, <1>2, <1>3, PTL DEF Spec

-----------------------------------------------------------------------------
(* Honest results *)

\* What a success of playbook p for delivery d rests on.
Backed(d, p) ==
  \/ <<d, Call(p, offense[d])>> \in applied
  \/ /\ p = "revoke_rbac"
     /\ <<d, <<"revoke_rbac", ClusterBindingOf(offense[d])>>>> \in applied

\* An answer is the last step of its handler.
Answered == \A d \in Delivery : answer[d] # "none" => pc[d] = "answered"

RInv == TypeOK /\ Answered /\ HonestResults

\* What one playbook adds.
LEMMA PlayHonest ==
  ASSUME NEW d \in Delivery, Plays1(d)
  PROVE  \E ok \in BOOLEAN :
           /\ Report(d, ok)
           /\ applied \subseteq applied'
           /\ dryRun => UNCHANGED world
           /\ \A p : ~dryRun /\ ok /\ p = Next1(d) => Backed(d, p)'
<1>1. CASE PlayLacks(d)
  <2>1. Report(d, FALSE) /\ UNCHANGED world
    BY <1>1 DEF PlayLacks
  <2> QED
    BY <2>1 DEF world
<1>2. CASE PlayDryRun(d)
  <2>1. PICK ok \in BOOLEAN : Report(d, ok)
    BY <1>2 DEF PlayDryRun
  <2> QED
    BY <1>2, <2>1 DEF PlayDryRun, world
<1>3. CASE PostRaises(d)
  <2>1. Report(d, FALSE) /\ UNCHANGED world
    BY <1>3 DEF PostRaises
  <2> QED
    BY <2>1 DEF world
<1>4. CASE CallReturns(d)
  <2>1. /\ Report(d, TRUE) /\ ~dryRun /\ offense' = offense
        /\ applied' = applied \cup {<<d, Call(Next1(d), offense[d])>>}
    BY <1>4 DEF CallReturns, Calls, Apply, Report
  <2>2. \A p : p = Next1(d) => Backed(d, p)'
    BY <2>1 DEF Backed
  <2> QED
    BY <2>1, <2>2
<1>5. CASE CallRaises(d)
  BY <1>5 DEF CallRaises, Calls, Apply
<1>6. CASE RevokeBinding(d)
  <2>1. /\ Report(d, TRUE) /\ ~dryRun /\ offense' = offense
        /\ applied' = applied \cup {<<d, <<"revoke_rbac", BindingOf(offense[d])>>>>}
        /\ Next1(d) = "revoke_rbac"
    BY <1>6 DEF RevokeBinding, Revokes, Delete, Report
  <2>2. \A p : p = Next1(d) => Call(p, offense[d]) = <<"revoke_rbac", BindingOf(offense[d])>>
    BY <2>1 DEF Call
  <2>3. \A p : p = Next1(d) => Backed(d, p)'
    BY <2>1, <2>2 DEF Backed
  <2> QED
    BY <2>1, <2>3
<1>7. CASE RevokeInCluster(d)
  <2>1. /\ Report(d, TRUE) /\ ~dryRun /\ offense' = offense
        /\ Next1(d) = "revoke_rbac" /\ applied \subseteq applied'
        /\ <<d, <<"revoke_rbac", ClusterBindingOf(offense[d])>>>> \in applied'
    BY <1>7 DEF RevokeInCluster, Revokes, Delete, Report
  <2>2. \A p : p = Next1(d) => Backed(d, p)'
    BY <2>1 DEF Backed
  <2> QED
    BY <2>1, <2>2
<1>8. CASE RevokeRaises(d)
  BY <1>8 DEF RevokeRaises, Revokes, Delete
<1> QED
  BY <1>1, <1>2, <1>3, <1>4, <1>5, <1>6, <1>7, <1>8 DEF Plays1

\* What runs no playbook and ends no dispatch.
LEMMA QuietSteps ==
  ASSUME RInv, UNCHANGED <<offense, results, dryRun, world>>,
         \A d \in Delivery : \/ answer'[d] = answer[d] /\ pc'[d] = pc[d]
                             \/ answer'[d] = answer[d] /\ pc[d] # "answered"
                             \/ pc'[d] = "answered" /\ answer'[d] # "results"
  PROVE  (Answered /\ HonestResults)'
BY DEF RInv, Answered, HonestResults, Plays, world

\* Every step keeps the results honest.
LEMMA HonestStep == RInv /\ [Next]_vars => (Answered /\ HonestResults)'
<1> SUFFICES ASSUME RInv, [Next]_vars PROVE (Answered /\ HonestResults)'
    OBVIOUS
<1>t. /\ pc \in [Delivery -> InFlight \cup {"idle", "answered", "lost"}]
      /\ answer \in [Delivery -> {"none", "rejected", "deduplicated", "error",
                                  "results"}]
      /\ results \in [Delivery -> Seq(BOOLEAN)]
  BY DEF RInv, TypeOK
<1>1. ASSUME NEW d \in Delivery,
             \E a \in {"rejected", "deduplicated", "error"} :
               \E from : Reply(d, from, a),
             UNCHANGED <<offense, results, dryRun, world>>
      PROVE (Answered /\ HonestResults)'
  BY <1>1, <1>t, QuietSteps DEF Reply
<1>2. ASSUME NEW d \in Delivery,
             RejectSignature(d) \/ Deduplicate(d) \/ ClaimRaises(d)
      PROVE (Answered /\ HonestResults)'
  <2>1. CASE RejectSignature(d)
    BY <1>1, <2>1 DEF RejectSignature
  <2>2. CASE Deduplicate(d)
    BY <1>1, <2>2 DEF Deduplicate
  <2>3. CASE ClaimRaises(d)
    BY <1>1, <2>3 DEF ClaimRaises
  <2> QED
    BY <1>2, <2>1, <2>2, <2>3
<1>3. ASSUME NEW d \in Delivery, Receive(d) \/ Claim(d) \/ Crash(d)
      PROVE (Answered /\ HonestResults)'
  <2>1. /\ pc[d] # "answered" /\ answer' = answer
        /\ \A e \in Delivery : e # d => pc'[e] = pc[e]
        /\ UNCHANGED <<offense, results, dryRun, world>>
    BY <1>3, <1>t DEF Receive, Claim, Crash, InFlight
  <2> QED
    BY <2>1, QuietSteps
<1>4. ASSUME NEW d \in Delivery, Plays1(d) PROVE (Answered /\ HonestResults)'
  <2>1. PICK ok \in BOOLEAN :
           /\ Report(d, ok)
           /\ applied \subseteq applied'
           /\ dryRun => UNCHANGED world
           /\ \A p : ~dryRun /\ ok /\ p = Next1(d) => Backed(d, p)'
    BY <1>4, PlayHonest
  <2>2. pc[d] = "dispatching" /\ Len(results[d]) \in Nat
    BY <1>4, <1>t, Reporting DEF Running, RInv
  <2>3. /\ results' = [results EXCEPT ![d] = Append(results[d], ok)]
        /\ UNCHANGED <<dryRun, offense, pc, answer>>
    BY <2>1 DEF Report
  <2>4. /\ \A e \in Delivery : e # d => results'[e] = results[e]
        /\ results'[d] = Append(results[d], ok)
    BY <2>3, <1>t
  <2>5. /\ Answered'
        /\ \A e \in Delivery :
             answer'[e] = "results" => Len(results'[e]) = Len(Plays(e)')
    BY <2>2, <2>3, <2>4 DEF RInv, Answered, HonestResults, Plays
  <2>6. dryRun' => applied' = {} /\ bindings' = Binding
    BY <2>1, <2>3 DEF RInv, HonestResults, world
  <2>7. ASSUME ~dryRun, NEW e \in Delivery, NEW i \in 1..Len(results'[e]),
               results'[e][i]
        PROVE  Backed(e, Plays(e)[i])'
    <3>1. Plays(e)' = Plays(e)
      BY <2>3 DEF Plays
    <3>2. CASE e # d \/ i <= Len(results[d])
      <4>1. i \in 1..Len(results[e]) /\ results[e][i]
        <5>1. CASE e # d
          BY <2>7, <5>1, <2>4
        <5>2. CASE e = d
          <6>1. results[d] \in Seq(BOOLEAN) /\ i <= Len(results[d]) /\ i \in Nat \ {0}
            BY <3>2, <5>2, <1>t
          <6>2. Append(results[d], ok)[i] = results[d][i]
            BY <6>1
          <6> QED
            BY <2>7, <5>2, <2>4, <6>1, <6>2, <2>2
        <5> QED
          BY <5>1, <5>2
      <4>2. Backed(e, Plays(e)[i])
        BY <4>1, <2>7 DEF RInv, HonestResults, Backed
      <4> QED
        BY <4>2, <3>1, <2>1, <2>3 DEF Backed
    <3>3. CASE e = d /\ i > Len(results[d])
      <4>1. i = Len(results[d]) + 1 /\ ok
        BY <2>7, <3>3, <2>4, <2>2, <1>t
      <4>2. Plays(d)[i] = Next1(d)
        BY <4>1 DEF Next1
      <4>3. \A p : p = Plays(d)[i] =>
              \/ <<d, Call(p, offense[d])>> \in applied'
              \/ /\ p = "revoke_rbac"
                 /\ <<d, <<"revoke_rbac", ClusterBindingOf(offense[d])>>>> \in applied'
        BY <4>1, <4>2, <2>1, <2>3, <2>7 DEF Backed
      <4>4. Plays(e)' = Plays(d) /\ offense' = offense
        BY <3>1, <3>3, <2>3
      <4> QED
        BY <4>3, <4>4, <3>3 DEF Backed
    <3> QED
      BY <3>2, <3>3, <2>2
  <2> QED
    BY <2>3, <2>5, <2>6, <2>7 DEF HonestResults, Backed
<1>5. ASSUME NEW d \in Delivery, Answer(d) PROVE (Answered /\ HonestResults)'
  BY <1>5, <1>t DEF RInv, Answer, Reply, Answered, HonestResults, Plays, world
<1>6. ASSUME NEW k \in Key, ExpireMarker(k) PROVE (Answered /\ HonestResults)'
  BY <1>6, QuietSteps DEF ExpireMarker, handler
<1>7. CASE UNCHANGED vars
  BY <1>7, QuietSteps DEF vars, handler
<1> QED
  BY <1>2, <1>3, <1>4, <1>5, <1>6, <1>7 DEF Next, Handle, Plays1, Quiescent

\* Spec keeps HonestResults.
THEOREM ResultsAreHonest == Spec => []HonestResults
<1>1. Init => RInv
  BY DEF Init, RInv, TypeOK, Answered, HonestResults, InFlight
<1>2. RInv /\ [Next]_vars => RInv'
  BY TypeStep, HonestStep DEF RInv
<1>3. RInv => HonestResults
  BY DEF RInv
<1> QED
  BY <1>1, <1>2, <1>3, PTL DEF Spec

-----------------------------------------------------------------------------
(* Duplicates *)

\* Who claimed with the key of d before d was turned away.
Claimants(d) == {e \in Delivery \ {d} : claim[e] # 0 /\ KeyFor(e) = KeyFor(d)}

\* A marker holds the id of a delivery that claimed with its key.
MarkersAreClaims ==
  \A k \in Key : marker[k] # None =>
    marker[k] \in Delivery /\ claim[marker[k]] # 0 /\ KeyFor(marker[k]) = k

\* Before its turn a delivery has claimed nothing and been told nothing.
Fresh == \A d \in Delivery : pc[d] \in {"idle", "received"} =>
           claim[d] = 0 /\ answer[d] = "none"

DuplicatesShareTheKey ==
  \A d \in Delivery : answer[d] = "deduplicated" => Claimants(d) # {}

DInv == TypeOK /\ MarkersAreClaims /\ Fresh /\ DuplicatesShareTheKey

\* A step that touches neither markers nor claims, and turns nobody away.
LEMMA NobodyTurnedAway ==
  ASSUME DInv, UNCHANGED <<redis, offense>>,
         \A d \in Delivery :
           /\ pc'[d] \in {"idle", "received"} =>
                pc[d] \in {"idle", "received"} /\ answer'[d] = answer[d]
           /\ answer'[d] = "deduplicated" => answer[d] = "deduplicated"
  PROVE  (MarkersAreClaims /\ Fresh /\ DuplicatesShareTheKey)'
<1>1. \A d \in Delivery : KeyFor(d)' = KeyFor(d)
  BY DEF KeyFor
<1>2. \A d \in Delivery : Claimants(d)' = Claimants(d)
  BY <1>1 DEF Claimants, redis
<1>. QED
  BY <1>1, <1>2 DEF DInv, MarkersAreClaims, Fresh, DuplicatesShareTheKey, redis

\* SET NX by a delivery that had its turn.
LEMMA MarkerSet ==
  ASSUME DInv, NEW d \in Delivery, SetMarker(d), offense' = offense,
         pc[d] = "received", pc'[d] \notin {"idle", "received"},
         answer'[d] # "deduplicated",
         \A e \in Delivery \ {d} : pc'[e] = pc[e] /\ answer'[e] = answer[e]
  PROVE  (MarkersAreClaims /\ Fresh /\ DuplicatesShareTheKey)'
<1>. USE DEF DInv, TypeOK
<1>1. \A e \in Delivery : KeyFor(e)' = KeyFor(e) /\ KeyFor(e) \in Key
  BY KeyTyped DEF KeyFor
<1>2. /\ marker' = [marker EXCEPT ![KeyFor(d)] = d]
      /\ claim' = [claim EXCEPT ![d] = window[KeyFor(d)]] /\ window[KeyFor(d)] # 0
  BY <1>1 DEF SetMarker
<1>3. \A e \in Delivery : claim[e] # 0 => claim'[e] # 0
  BY <1>2
<1>4. MarkersAreClaims'
  BY <1>1, <1>2, <1>3 DEF MarkersAreClaims
<1>5. Fresh'
  BY <1>2 DEF Fresh
<1>6. \A e \in Delivery : Claimants(e) \subseteq Claimants(e)'
  BY <1>1, <1>3 DEF Claimants
<1>7. DuplicatesShareTheKey'
  BY <1>6 DEF DuplicatesShareTheKey
<1>. QED  BY <1>4, <1>5, <1>7

\* Every step keeps the markers' claimants and the duplicates'.
LEMMA DuplicateStep ==
  DInv /\ [Next]_vars => (MarkersAreClaims /\ Fresh /\ DuplicatesShareTheKey)'
<1>. SUFFICES ASSUME DInv, [Next]_vars
              PROVE  (MarkersAreClaims /\ Fresh /\ DuplicatesShareTheKey)'
  OBVIOUS
<1>. DEFINE Goal == (MarkersAreClaims /\ Fresh /\ DuplicatesShareTheKey)'
<1>t. /\ pc \in [Delivery -> InFlight \cup {"idle", "answered", "lost"}]
      /\ answer \in [Delivery -> {"none", "rejected", "deduplicated", "error",
                                  "results"}]
  BY DEF DInv, TypeOK
<1>1. ASSUME NEW d \in Delivery, NEW from, NEW a \in {"rejected", "error", "results"},
             Reply(d, from, a), UNCHANGED <<redis, offense>>
      PROVE  Goal
  BY <1>1, <1>t, NobodyTurnedAway DEF Reply
<1>2. ASSUME NEW d \in Delivery, RejectSignature(d) \/ Answer(d) PROVE Goal
  BY <1>1, <1>2 DEF RejectSignature, Answer
<1>3. ASSUME NEW d \in Delivery, Receive(d) \/ Crash(d) PROVE Goal
  <2>1. /\ UNCHANGED <<redis, offense, answer>>
        /\ pc'[d] = "received" => pc[d] = "idle"
        /\ pc'[d] # "idle" /\ \A e \in Delivery \ {d} : pc'[e] = pc[e]
    BY <1>3, <1>t DEF Receive, Crash
  <2>. QED  BY <2>1, NobodyTurnedAway
<1>4. ASSUME NEW d \in Delivery, Claim(d) PROVE Goal
  <2>1. /\ SetMarker(d) /\ offense' = offense /\ answer' = answer
        /\ pc[d] = "received" /\ pc'[d] = "dispatching"
        /\ \A e \in Delivery \ {d} : pc'[e] = pc[e]
    BY <1>4, <1>t DEF Claim
  <2>2. answer[d] = "none"
    BY <2>1 DEF DInv, Fresh
  <2>. QED  BY <2>1, <2>2, MarkerSet
<1>5. ASSUME NEW d \in Delivery, ClaimRaises(d) PROVE Goal
  <2>1. CASE UNCHANGED redis
    BY <1>1, <1>5, <2>1 DEF ClaimRaises
  <2>2. CASE SetMarker(d)
    <3>1. /\ offense' = offense /\ pc[d] = "received"
          /\ pc'[d] = "answered" /\ answer'[d] = "error"
          /\ \A e \in Delivery \ {d} : pc'[e] = pc[e] /\ answer'[e] = answer[e]
      BY <1>5, <1>t DEF ClaimRaises, Reply
    <3>. QED  BY <2>2, <3>1, MarkerSet
  <2>. QED  BY <1>5, <2>1, <2>2 DEF ClaimRaises
<1>6. ASSUME NEW d \in Delivery, Deduplicate(d) PROVE Goal
  <2>. USE DEF DInv
  <2>1. /\ marker[KeyFor(d)] # None /\ UNCHANGED <<redis, offense>>
        /\ pc[d] = "received" /\ pc'[d] = "answered" /\ answer'[d] = "deduplicated"
        /\ \A e \in Delivery \ {d} : pc'[e] = pc[e] /\ answer'[e] = answer[e]
    BY <1>6, <1>t DEF Deduplicate, Reply
  <2>2. PICK e \in Delivery : e = marker[KeyFor(d)] /\ claim[e] # 0 /\ KeyFor(e) = KeyFor(d)
    BY <2>1, KeyTyped DEF MarkersAreClaims
  <2>3. claim[d] = 0
    BY <2>1 DEF Fresh
  <2>4. e \in Claimants(d)
    BY <2>2, <2>3 DEF Claimants
  <2>5. \A f \in Delivery : KeyFor(f)' = KeyFor(f)
    BY <2>1 DEF KeyFor
  <2>6. \A f \in Delivery : Claimants(f)' = Claimants(f)
    BY <2>1, <2>5 DEF Claimants, redis
  <2>7. MarkersAreClaims'
    BY <2>1, <2>5 DEF MarkersAreClaims, redis
  <2>8. Fresh'
    BY <2>1 DEF Fresh, redis
  <2>9. DuplicatesShareTheKey'
    BY <2>1, <2>4, <2>6 DEF DuplicatesShareTheKey
  <2>. QED  BY <2>7, <2>8, <2>9
<1>7. ASSUME NEW d \in Delivery, Plays1(d) PROVE Goal
  <2>1. UNCHANGED <<redis, offense, pc, answer>>
    BY <1>7, Reporting DEF Report, DInv
  <2>. QED  BY <2>1, NobodyTurnedAway
<1>8. ASSUME NEW k \in Key, ExpireMarker(k) PROVE Goal
  <2>. USE DEF DInv
  <2>1. /\ marker' = [marker EXCEPT ![k] = None]
        /\ UNCHANGED <<claim, offense, pc, answer>>
    BY <1>8 DEF ExpireMarker, handler
  <2>2. \A d \in Delivery : KeyFor(d)' = KeyFor(d)
    BY <2>1 DEF KeyFor
  <2>3. MarkersAreClaims'
    BY <2>1, <2>2 DEF MarkersAreClaims, TypeOK
  <2>4. Fresh'
    BY <2>1 DEF Fresh
  <2>5. \A d \in Delivery : Claimants(d)' = Claimants(d)
    BY <2>1, <2>2 DEF Claimants
  <2>6. DuplicatesShareTheKey'
    BY <2>1, <2>5 DEF DuplicatesShareTheKey
  <2>. QED  BY <2>3, <2>4, <2>6
<1>9. CASE UNCHANGED vars
  BY <1>9, NobodyTurnedAway DEF vars, handler
<1>. QED
  BY <1>2, <1>3, <1>4, <1>5, <1>6, <1>7, <1>8, <1>9
     DEF Next, Handle, Plays1, Quiescent

\* A delivery is turned away only if another one with its key had set the marker.
THEOREM DuplicatesHaveAClaimant == Spec => []DuplicatesShareTheKey
<1>1. Init => DInv
  BY DEF Init, DInv, TypeOK, InFlight, MarkersAreClaims, Fresh,
     DuplicatesShareTheKey
<1>2. DInv /\ [Next]_vars => DInv'
  BY TypeStep, DuplicateStep DEF DInv
<1>3. DInv => DuplicatesShareTheKey
  BY DEF DInv
<1>. QED  BY <1>1, <1>2, <1>3, PTL DEF Spec

\* That other one is of the same rule and has the same targets wherever the key
\* tells rules and targets apart.  dedupe_key puts its pieces one after the
\* other without saying which is which, so that offenses of two namespaces and
\* pods may well have one key, and then the second one's pod is left alone.
THEOREM DuplicatesHaveTheirClaim ==
  ASSUME KeysTellApart
  PROVE  Spec => []DuplicatesWereClaimed
<1>1. TypeOK /\ DuplicatesShareTheKey => DuplicatesWereClaimed
  <2>. SUFFICES ASSUME TypeOK, DuplicatesShareTheKey,
                       NEW d \in Delivery, answer[d] = "deduplicated"
                PROVE  \E e \in Delivery \ {d} :
                         /\ claim[e] # 0
                         /\ Plays(e) = Plays(d)
                         /\ \A f \in {"namespace", "pod", "user_sub", "src_ip",
                                      "account_id"} :
                              offense[e][f] = offense[d][f]
    BY DEF DuplicatesWereClaimed
  <2>1. PICK e \in Delivery \ {d} : claim[e] # 0 /\ KeyFor(e) = KeyFor(d)
    BY DEF DuplicatesShareTheKey, Claimants
  <2>2. offense[d] \in Offense /\ offense[e] \in Offense
    BY DEF TypeOK
  <2>3. /\ offense[e].rule = offense[d].rule
        /\ \A f \in {"namespace", "pod", "user_sub", "src_ip", "account_id"} :
             offense[e][f] = offense[d][f]
    BY <2>1, <2>2 DEF KeyFor, KeyOf, KeysTellApart
  <2>4. Plays(e) = Plays(d)
    BY <2>3 DEF Plays
  <2>. QED  BY <2>1, <2>3, <2>4
<1>. QED  BY <1>1, TypeCorrect, DuplicatesHaveAClaimant, PTL

-----------------------------------------------------------------------------
(* The agent's answers *)

\* The agent and the SOAR service agree: the playbook advised for a rule is the
\* first of those the service runs for it, and a rule without advice has none.
THEOREM AdviceIsDispatched ==
  \A rule \in STRING :
    /\ rule \in Rules => /\ DISPATCH(rule) # <<>>
                         /\ Explain(rule).playbook = DISPATCH(rule)[1]
    /\ rule \notin Rules => DISPATCH(rule) = <<>> /\ Explain(rule).playbook = "manual"
<1> SUFFICES ASSUME NEW rule \in STRING
             PROVE  /\ rule \in Rules => /\ DISPATCH(rule) # <<>>
                                         /\ Explain(rule).playbook = DISPATCH(rule)[1]
                    /\ rule \notin Rules => /\ DISPATCH(rule) = <<>>
                                            /\ Explain(rule).playbook = "manual"
  OBVIOUS
<1>1. CASE rule = "cred-stuffing"
  BY <1>1 DEF DISPATCH, Explain, Rules, RULE_NARRATIVES, Advised
<1>2. CASE rule = "jwt-anomaly"
  BY <1>2 DEF DISPATCH, Explain, Rules, RULE_NARRATIVES, Advised
<1>3. CASE rule = "memory-corruption"
  BY <1>3 DEF DISPATCH, Explain, Rules, RULE_NARRATIVES, Advised
<1>4. CASE rule = "container-escape"
  BY <1>4 DEF DISPATCH, Explain, Rules, RULE_NARRATIVES, Advised
<1>5. CASE rule = "dns-exfiltration"
  BY <1>5 DEF DISPATCH, Explain, Rules, RULE_NARRATIVES, Advised
<1>6. CASE rule = "rbac-privilege-escalation"
  BY <1>6 DEF DISPATCH, Explain, Rules, RULE_NARRATIVES, Advised
<1>7. CASE rule = "fraud-ml"
  BY <1>7 DEF DISPATCH, Explain, Rules, RULE_NARRATIVES, Advised
<1>8. CASE rule \notin Rules
  BY <1>8 DEF DISPATCH, Explain, Rules, Advised
<1> QED
  BY <1>1, <1>2, <1>3, <1>4, <1>5, <1>6, <1>7, <1>8 DEF Rules

\* A severity has its rank.
LEMMA OrderIsIndexed ==
  \A s \in Severity : IndexOf(s) \in 0 .. 4 /\ order[IndexOf(s) + 1] = s
<1> SUFFICES ASSUME NEW s \in Severity
             PROVE  IndexOf(s) \in 0 .. 4 /\ order[IndexOf(s) + 1] = s
  OBVIOUS
<1> DEFINE k == CHOOSE i \in 1 .. 5 : order[i] = s
<1>1. \E i \in 1 .. 5 : order[i] = s
  BY DEF Severity
<1>2. k \in 1 .. 5 /\ order[k] = s
  BY <1>1
<1>3. IndexOf(s) = k - 1
  BY DEF IndexOf
<1> HIDE DEF k
<1>4. IndexOf(s) + 1 = k
  BY <1>2, <1>3
<1> QED
  BY <1>2, <1>3, <1>4

\* A hint may raise what the reasoner says and never lowers it; the score is the
\* place of the severity in the answer.
THEOREM TriageNeverLowers ==
  ASSUME NEW severity \in Severity, NEW hint \in Severity \cup {None}
  PROVE  /\ Triage(severity, hint).severity \in Severity
         /\ Triage(severity, hint).score = IndexOf(Triage(severity, hint).severity)
         /\ Triage(severity, hint).score >= IndexOf(severity)
         /\ hint # None => Triage(severity, hint).score >= IndexOf(hint)
<1>1. IndexOf(severity) \in Int /\ (hint # None => IndexOf(hint) \in Int)
  BY OrderIsIndexed
<1> QED
  BY <1>1 DEF Triage

\* Every rule the SOAR service acts on is triaged high at least.
THEOREM ActedOnIsHigh ==
  ASSUME NEW rule \in STRING, DISPATCH(rule) # <<>>, NEW hint \in Severity \cup {None}
  PROVE  Triage(Explain(rule).severity, hint).score >= IndexOf("high")
<1>1. rule \in Rules
  BY AdviceIsDispatched
<1>2. Explain(rule).severity \in {"high", "critical"}
  BY <1>1 DEF Explain, Rules, RULE_NARRATIVES, Advised
<1>3. "high" \in Severity /\ "critical" \in Severity
  <2>1. order[4] = "high" /\ order[5] = "critical"
    BY DEF order
  <2> QED
    BY <2>1 DEF Severity
<1>4. IndexOf("high") = 3 /\ IndexOf("critical") = 4
  <2>1. IndexOf("high") \in 0 .. 4 /\ order[IndexOf("high") + 1] = "high"
    BY <1>3, OrderIsIndexed
  <2>2. IndexOf("critical") \in 0 .. 4 /\ order[IndexOf("critical") + 1] = "critical"
    BY <1>3, OrderIsIndexed
  <2> QED
    BY <2>1, <2>2 DEF order
<1>5. Triage(Explain(rule).severity, hint).score >= IndexOf(Explain(rule).severity)
  BY <1>2, <1>3, TriageNeverLowers
<1>6. Triage(Explain(rule).severity, hint).score \in Int
  <2>1. /\ Triage(Explain(rule).severity, hint).severity \in Severity
        /\ Triage(Explain(rule).severity, hint).score
             = IndexOf(Triage(Explain(rule).severity, hint).severity)
    BY <1>2, <1>3, TriageNeverLowers
  <2>2. IndexOf(Triage(Explain(rule).severity, hint).severity) \in 0 .. 4
    BY <2>1, OrderIsIndexed
  <2> QED
    BY <2>1, <2>2
<1>7. IndexOf(Explain(rule).severity) >= 3
  BY <1>2, <1>4
<1>8. IndexOf(Explain(rule).severity) \in Int
  BY <1>2, <1>4
<1> QED
  BY <1>4, <1>5, <1>6, <1>7, <1>8

\* Drift that raises the alarm is never called robust.
THEOREM AlarmIsNotRobust ==
  ASSUME NEW evaded \in Nat, NEW tried \in Nat, NEW psi \in Int, PsiAlarm(psi)
  PROVE  Verdict(evaded, tried, psi) # "robust"
  BY DEF PsiAlarm, Verdict

\* Where no slice is flagged, all evade, and the verdict is that of all.
LEMMA AllEvade ==
  ASSUME NEW amount, NEW divisors \in Seq(Nat), NEW psi,
         \A i \in DOMAIN divisors : ~Flagged(amount, divisors[i])
  PROVE  Robustness(amount, divisors, psi).verdict
           = Verdict(Len(divisors), Len(divisors), psi)
<1>1. Len(divisors) \in Nat /\ DOMAIN divisors = 1 .. Len(divisors)
  OBVIOUS
<1>2. Evaded(amount, divisors) = DOMAIN divisors
  BY Zenon DEF Evaded
<1>3. Cardinality(1 .. Len(divisors)) = Len(divisors)
  BY <1>1, FS_Interval, SMTT(20)
<1>. QED
  BY <1>1, <1>2, <1>3, Zenon DEF Robustness

\* Of a transfer of at most 20,000 rupees every slice gets past the stub model,
\* so that the verdict is the worst one, whatever the drift.
THEOREM SmallTransfersEvade ==
  ASSUME NEW amount \in 0 .. 20000, NEW psi \in Int,
         NEW divisors \in Seq(Nat), divisors # <<>>,
         \A i \in DOMAIN divisors : divisors[i] \in 20 .. 80
  PROVE  Robustness(amount, divisors, psi).verdict = "retrain-now"
<1>1. Len(divisors) \in Nat \ {0} /\ DOMAIN divisors = 1 .. Len(divisors)
  OBVIOUS
<1>2. \A i \in DOMAIN divisors : ~Flagged(amount, divisors[i])
  <2> SUFFICES ASSUME NEW i \in DOMAIN divisors
               PROVE  ~Flagged(amount, divisors[i])
    OBVIOUS
  <2> DEFINE d == divisors[i]
  <2>1. d \in 20 .. 80
    OBVIOUS
  <2> HIDE DEF d
  <2>2. ~Flagged(amount, d)
    BY <2>1 DEF Flagged
  <2> QED
    BY <2>2 DEF d
<1>3. Robustness(amount, divisors, psi).verdict
        = Verdict(Len(divisors), Len(divisors), psi)
  BY <1>2, AllEvade
<1>4. Verdict(Len(divisors), Len(divisors), psi) = "retrain-now"
  BY <1>1 DEF Verdict
<1> QED
  BY <1>3, <1>4
=============================================================================
