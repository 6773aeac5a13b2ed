----------------------------- MODULE EventWorkers -----------------------------
(***************************************************************************)
(* The consumers of topic tx.transfers.v1: the fraud detection worker      *)
(* (fraud-detection-service/app/worker.py) and the notification worker     *)
(* (notification-service/app/worker.py), on the delivery of ConsumerGroup. *)
(*                                                                         *)
(* The two services share nothing but the topic and run the same loop, so  *)
(* a behaviour is of one of them, chosen at the start.  Every Redis call   *)
(* of a handler is a step; handlers of different workers interleave.       *)
(* Left out: the ageing of Redis keys (a day, 90 days) and the model's     *)
(* arithmetic: whether a score reaches the threshold is nondeterministic.  *)
(***************************************************************************)
EXTENDS ConsumerGroup, Sequences, FiniteSets

CONSTANTS
  User, Dest, \* initiators and destination accounts
  Service,    \* "fraud", "notification"
  Cap,        \* entries LTRIM keeps: 101 (amounts), 100 (notifications)
  MaxRaises   \* bound: handlers that raise

ASSUME EventWorkersAssumption == Cap \in Nat \ {0} /\ MaxRaises \in Nat

VARIABLES
  service,    \* the service this group belongs to
  order,      \* payload: initiator and destination of each event
  step,       \* where each worker's handler is, "none" outside it
  list,       \* Redis sb:amounts:<user> or sb:notif:<user>, newest first
  window,     \* Redis sb:velocity:<user>, a sorted set of transactions
  seen,       \* Redis sb:dst:<user>, destinations seen before
  isNew,      \* is_new_dst of each handler
  alerts,     \* topic tx.fraud_alerts.v1: no step of the code adds to it
  anomalous,  \* history: events whose score reached the threshold
  flagged,    \* history: events scored as going to a new destination
  failed,     \* history: events whose handler raised
  raises,     \* history: how many handlers raised before their last step
  unsettled   \* history: <<user, dest>> whose first use was probed twice at
              \* once, or learned by a handler that then did not score it

redis    == <<list, window, seen>>
history  == <<anomalous, flagged, failed, raises, unsettled>>
handlers == <<service, order, step, redis, isNew, alerts, history>>
vars     == <<cgVars, handlers>>

Step == {"none", "window", "push", "trim", "probe", "learn", "judge", "record"}

\* Mutant: a step no action is of.
FirstStepUnknown == IF service = "fraud" THEN "score" ELSE "push"

FirstStep == IF service = "fraud" THEN "window" ELSE "push"

UserOf(w) == order[cur[w]][1]
DestOf(w) == order[cur[w]][2]

EWInit == /\ Init
          /\ service \in Service
          /\ order \in [Event -> User \X Dest]
          /\ step      = [w \in Worker |-> "none"]
          /\ list      = [u \in User |-> <<>>]
          /\ window    = [u \in User |-> {}]
          /\ seen      = [u \in User |-> {}]
          /\ isNew     = [w \in Worker |-> FALSE]
          /\ alerts    = {}
          /\ anomalous = {}
          /\ flagged   = {}
          /\ failed    = {}
          /\ raises    = 0
          /\ unsettled = {}

-----------------------------------------------------------------------------
(* Helpers *)

\* From one step of the handler to the next; the group is not concerned.
Advances(w, from, to) == /\ step[w] = from
                         /\ step' = [step EXCEPT ![w] = to]
                         /\ UNCHANGED <<cgVars, service, order, alerts>>

\* Mutant: the loop goes on without the commit.
EndsUncommitted(w, from) ==
  /\ step[w] = from
  /\ Goto(w, "handling", "polling")
  /\ step' = [step EXCEPT ![w] = "none"]
  /\ UNCHANGED <<topic, offset, owner, cur, stale, attempts, faults>>
  /\ UNCHANGED <<service, order, redis, isNew, alerts>>

\* The last step of the handler: the loop goes on to the commit.
Ends(w, from) == /\ step[w] = from
                 /\ Return(w)
                 /\ step' = [step EXCEPT ![w] = "none"]
                 /\ UNCHANGED <<service, order, redis, isNew, alerts>>

\* A handler that has learned a new destination goes away before scoring.
Abandons(w) ==
  unsettled' = IF step[w] = "judge" /\ isNew[w]
               THEN unsettled \cup {order[cur[w]]} ELSE unsettled

-----------------------------------------------------------------------------
(* The loop *)

\* An event is taken from the stream, and its handler begins.
Receive(w, e) ==
  /\ Take(w, e)
  /\ step' = [step EXCEPT ![w] = IF e \in valid THEN FirstStep ELSE "none"]
  /\ UNCHANGED <<service, order, redis, isNew, alerts, history>>

\* "except Exception": logged, and the event is committed all the same.
HandlerRaises(w) ==
  /\ raises < MaxRaises
  /\ Return(w)
  /\ step' = [step EXCEPT ![w] = "none"]
  /\ failed' = failed \cup {cur[w]}
  /\ raises' = raises + 1
  /\ Abandons(w)
  /\ UNCHANGED <<service, order, redis, isNew, alerts, anomalous, flagged>>

\* A restart takes the handler with it, between any two of its steps.
GoDown(w) ==
  /\ Restart(w)
  /\ step' = [step EXCEPT ![w] = "none"]
  /\ Abandons(w)
  /\ UNCHANGED <<service, order, redis, isNew, alerts, anomalous, flagged, failed,
                 raises>>

\* What the loop and the group do outside the handlers.
Delivery(w) ==
  /\ Start(w) \/ StartFails(w) \/ Expel(w) \/ Commit(w) \/ CommitFails(w)
  /\ UNCHANGED handlers

-----------------------------------------------------------------------------
(* The fraud worker's handler *)

\* Mutant: SET instead of ZADD.
AddToWindowAlone(w) ==
  /\ Advances(w, "window", "push")
  /\ window' = [window EXCEPT ![UserOf(w)] = {cur[w]}]
  /\ UNCHANGED <<list, seen, isNew, history>>

\* ZADD under the transaction's id; the counts are features of the score.
AddToWindow(w) ==
  /\ Advances(w, "window", "push")
  /\ window' = [window EXCEPT ![UserOf(w)] = @ \cup {cur[w]}]
  /\ UNCHANGED <<list, seen, isNew, history>>

\* Mutant: RPUSH instead of LPUSH.
PushEntryLast(w) ==
  /\ Advances(w, "push", "trim")
  /\ list' = [list EXCEPT ![UserOf(w)] = Append(@, cur[w])]
  /\ UNCHANGED <<window, seen, isNew, history>>

\* LPUSH: the amount, or the notification.
PushEntry(w) ==
  /\ Advances(w, "push", "trim")
  /\ list' = [list EXCEPT ![UserOf(w)] = <<cur[w]>> \o @]
  /\ UNCHANGED <<window, seen, isNew, history>>

\* LTRIM (and, in the fraud worker, LRANGE for the mean).
TrimList(w) ==
  /\ Advances(w, "trim", IF service = "fraud" THEN "probe" ELSE "record")
  /\ list' = [list EXCEPT ![UserOf(w)] =
                IF Len(@) > Cap THEN SubSeq(@, 1, Cap) ELSE @]
  /\ UNCHANGED <<window, seen, isNew, history>>

\* Mutant: the destination is looked up after it was added.
ProbeAfterLearning(w) ==
  /\ Advances(w, "probe", "learn")
  /\ isNew' = [isNew EXCEPT ![w] = FALSE]
  /\ UNCHANGED <<redis, history>>

\* SISMEMBER
ProbeDestination(w) ==
  /\ Advances(w, "probe", "learn")
  /\ isNew' = [isNew EXCEPT ![w] = DestOf(w) \notin seen[UserOf(w)]]
  /\ unsettled' = IF \E q \in Worker : step[q] = "learn" /\ order[cur[q]] = order[cur[w]]
                  THEN unsettled \cup {order[cur[w]]} ELSE unsettled
  /\ UNCHANGED <<redis, anomalous, flagged, failed, raises>>

\* SADD
LearnDestination(w) ==
  /\ Advances(w, "learn", "judge")
  /\ seen' = [seen EXCEPT ![UserOf(w)] = @ \cup {DestOf(w)}]
  /\ UNCHANGED <<list, window, isNew, history>>

\* The score.  Above the threshold the audit record comes first, and making
\* it raises: the explanation holds a datetime, which json.dumps refuses.
\* The alert is never sent.
Judge(w) ==
  /\ Ends(w, "judge")
  /\ flagged' = IF isNew[w] THEN flagged \cup {cur[w]} ELSE flagged
  /\ anomalous' \in {anomalous, anomalous \cup {cur[w]}}
  /\ failed' = IF cur[w] \in anomalous' THEN failed \cup {cur[w]} ELSE failed
  /\ UNCHANGED <<raises, unsettled>>

-----------------------------------------------------------------------------
(* The notification worker's handler: PushEntry, TrimList, the audit record *)

RecordNotification(w) ==
  /\ Ends(w, "record")
  /\ UNCHANGED history

Handle(w) == \/ AddToWindow(w) \/ PushEntry(w) \/ TrimList(w)
             \/ ProbeDestination(w) \/ LearnDestination(w) \/ Judge(w)
             \/ RecordNotification(w)

\* Everything is committed, or no worker is left.
Quiescent == /\ \A w \in Worker : stage[w] \in {"polling", "gone"}
             /\ \/ \A e \in Event : Committed(e)
                \/ \A w \in Worker : stage[w] = "gone"
             /\ UNCHANGED vars

EWNext == \/ \E w \in Worker :
               \/ \E e \in Event : Receive(w, e)
               \/ Handle(w) \/ HandlerRaises(w) \/ GoDown(w) \/ Delivery(w)
          \/ Quiescent

EWSpec == EWInit /\ [][EWNext]_vars

\* The loop keeps running, Redis and the brokers answer or raise, and the
\* coordinator expels members that stopped polling.
EWFairSpec ==
  /\ EWSpec
  /\ \A w \in Worker :
       WF_vars(\/ \E e \in Event : Receive(w, e)
               \/ Handle(w)
               \/ (Start(w) \/ Expel(w) \/ Commit(w)) /\ UNCHANGED handlers)

-----------------------------------------------------------------------------
(* Properties *)

\* Every variable has its type.
TypeOK ==
  /\ GroupTypeOK
  /\ service \in Service
  /\ order   \in [Event -> User \X Dest]
  /\ step    \in [Worker -> Step]
  /\ list    \in [User -> Seq(Event)]
  /\ window  \in [User -> SUBSET Event]
  /\ seen    \in [User -> SUBSET Dest]
  /\ isNew   \in [Worker -> BOOLEAN]
  /\ alerts \subseteq Event /\ anomalous \subseteq Event
  /\ flagged \subseteq Event /\ failed \subseteq Event
  /\ raises  \in 0 .. MaxRaises
  /\ unsettled \subseteq User \X Dest

\* The handlers are handlers of that group: no interleaving of their steps
\* with rebalances gives behaviours stream does not have.
ImplementsDelivery == Spec

Entries(e) == {i \in DOMAIN list[order[e][1]] : list[order[e][1]][i] = e}

\* An entry appears in a user's list once for each time the event was handed
\* to a handler, at most: repeats come from redelivery and nothing else.
RepeatsAreRedeliveries ==
  \A e \in Event : Cardinality(Entries(e)) <= attempts[e]

\* What is committed was recorded: unless its handler raised, a committed
\* event is in the user's list or was pushed out of a full one, and the fraud
\* worker has it in the velocity window.
CommittedIsRecorded ==
  \A e \in valid \ failed : Committed(e) =>
    /\ Entries(e) # {} \/ Len(list[order[e][1]]) >= Cap
    /\ service = "fraud" => e \in window[order[e][1]]

\* Newest first: of two events of one partition, handed over once each, the
\* later one comes first in the list, whichever workers handled them.
ListFollowsPartition ==
  \A e, f \in Event :
    e < f /\ home[e] = home[f] /\ order[e][1] = order[f][1]
      /\ attempts[e] = 1 /\ attempts[f] = 1
    => \A i \in Entries(e), j \in Entries(f) : j < i

\* Beyond its cap a list holds what handlers have pushed and not yet trimmed,
\* and what those that went away in between left behind.
ListsCapped ==
  \A u \in User :
    Len(list[u]) <= Cap + faults + raises
                    + Cardinality({w \in Worker : step[w] = "trim" /\ UserOf(w) = u})

\* A user's list of recent transfers is what it is read as: as often as handed
\* over, newest first, and short.
RecentList == RepeatsAreRedeliveries /\ ListFollowsPartition /\ ListsCapped

\* The new-destination feature: a destination in the set was scored as new by
\* exactly one event, unless it is unsettled or its first handler is still at
\* work (SISMEMBER and SADD are two commands, and the set is written before
\* the score).
NewDestinationScoredOnce ==
  \A u \in User : \A d \in seen[u] :
    \/ <<u, d>> \in unsettled
    \/ \E w \in Worker : step[w] = "judge" /\ isNew[w] /\ order[cur[w]] = <<u, d>>
    \/ Cardinality({e \in flagged : order[e] = <<u, d>>}) = 1

\* With fewer faults than workers, every event is eventually committed.
EverythingCommitted == \A e \in Event : <>Committed(e)

\* worker.py:7, "If score >= threshold, publish a fraud alert event": an
\* event behind the offset whose score reached the threshold has its alert.
AnomaliesAlerted ==
  \A e \in anomalous : Committed(e) => e \in alerts
=============================================================================
