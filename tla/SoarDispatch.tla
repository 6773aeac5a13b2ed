----------------------------- MODULE SoarDispatch -----------------------------
(***************************************************************************)
(* The SOAR service: a webhook turns a delivery into an offense, a marker  *)
(* in Redis (SET NX EX) lets one delivery of an offense through, and the   *)
(* playbooks of its rule run one after the other (main.py, playbooks.py).  *)
(*                                                                         *)
(* The cluster, Redis and the gateway's deny list are outside: a call of a *)
(* playbook takes effect or not, and returns or raises, in any             *)
(* combination but one: what returns has taken effect.  The two internal   *)
(* endpoints playbooks post to are routes of no service, so a post is      *)
(* answered 404 and raises.  A pod's node is named by the pod.  Replicas   *)
(* share nothing but Redis and the cluster, so which of them serves a      *)
(* delivery is left open.                                                  *)
(***************************************************************************)
EXTENDS Naturals, Sequences

CONSTANTS
  Offense,      \* what deliveries may say (records, see Fields)
  Name,         \* namespaces, pods, users, addresses, accounts, bindings
  None,         \* a field that is not there
  Delivery,     \* webhook calls that may ever arrive (bound)
  Binding,      \* RBAC bindings that exist at the start
  MaxExpiries,  \* how often each marker may expire (bound)
  Faults        \* "crash", "redis", "cluster"

Source == {"qradar", "falco", "ml"}
Fields == [source : Source, rule : STRING, signed : BOOLEAN,
           namespace : Name \cup {None}, pod : Name \cup {None},
           user_sub : Name \cup {None}, src_ip : Name \cup {None},
           account_id : Name \cup {None}, binding_name : Name \cup {None}]

ASSUME SoarAssumption ==
  /\ None \notin Name \cup Delivery
  /\ Offense \subseteq Fields
  /\ MaxExpiries \in Nat

VARIABLES
  marker,    \* Redis soar:dedupe:<key>: the delivery whose id it holds
  dryRun,    \* settings.dry_run
  pc,        \* how far the handler of a delivery is
  offense,   \* what each delivery says
  results,   \* success of the playbooks run for it so far
  answer,    \* what the sender was told
  bindings,  \* RBAC bindings of the cluster
  applied,   \* history: calls of playbooks that took effect, with the delivery
  window,    \* history: for each key, 1 and how often its marker has expired
  claim      \* history: the window of its key in which a delivery set the marker, else 0

world   == <<bindings, applied>>
redis   == <<marker, window, claim>>
handler == <<pc, results, answer>>
vars    == <<redis, dryRun, offense, handler, world>>

-----------------------------------------------------------------------------
(* Offenses and playbooks *)

\* What dedupe_key hashes, in its order.  Neither the offense's id nor what only
\* `raw` holds (the binding) is part of it.
Pieces(o) == <<o.source, o.rule, o.namespace, o.pod, o.user_sub, o.src_ip,
               o.account_id>>

\* An absent piece is hashed as "" and leaves no trace.
Joined(pieces) == SelectSeq(pieces, LAMBDA piece : piece # None)

\* Mutant: a key without the pod and the namespace.
KeyOfRuleAndUser(o) ==
  Joined(<<o.source, o.rule, o.user_sub, o.src_ip, o.account_id>>)

\* Offense.dedupe_key: the pieces that are there, one after the other.
KeyOf(o) == Joined(Pieces(o))

Key == {KeyOf(o) : o \in Offense}

DISPATCH(rule) ==
  CASE rule = "cred-stuffing"             -> <<"block_ip", "kill_sessions">>
    [] rule = "jwt-anomaly"               -> <<"jwt_rotation", "block_ip">>
    [] rule = "memory-corruption"         -> <<"quarantine_pod", "cordon_node">>
    [] rule = "container-escape"          -> <<"quarantine_pod", "cordon_node">>
    [] rule = "dns-exfiltration"          -> <<"egress_quarantine">>
    [] rule = "rbac-privilege-escalation" -> <<"revoke_rbac">>
    [] rule = "fraud-ml"                  -> <<"freeze_account", "kill_sessions">>
    [] OTHER                              -> <<>>

\* Playbooks that only post to another service (_post).
Posting == {"jwt_rotation", "freeze_account", "kill_sessions"}

\* The early returns: "no src_ip in offense" and the like.
Lacks(p, o) ==
  \/ p = "block_ip"       /\ o.src_ip = None
  \/ p = "freeze_account" /\ o.account_id = None
  \/ p = "kill_sessions"  /\ o.user_sub = None
  \/ p = "revoke_rbac"    /\ o.binding_name = None
  \/ p \in {"quarantine_pod", "cordon_node"} /\ None \in {o.pod, o.namespace}

\* _ns
NamespaceOf(o) == IF o.namespace = None THEN "securebank-app" ELSE o.namespace

\* pb_005: the payload's own field, which Falco's payload does not have.
BindingOf(o) ==
  <<IF o.source = "falco" \/ o.namespace = None THEN "default" ELSE o.namespace,
    o.binding_name>>

ClusterBindingOf(o) == <<"*", o.binding_name>>

\* The call a playbook makes: which, and on what.
Call(p, o) ==
  CASE p = "block_ip"          -> <<p, o.src_ip>>
    [] p = "jwt_rotation"      -> <<p>>
    [] p = "freeze_account"    -> <<p, o.account_id>>
    [] p = "kill_sessions"     -> <<p, o.user_sub>>
    [] p = "egress_quarantine" -> <<p, NamespaceOf(o)>>
    [] p = "revoke_rbac"       -> <<p, BindingOf(o)>>
    [] OTHER                   -> <<p, o.namespace, o.pod>>

-----------------------------------------------------------------------------
Init ==
  /\ marker   = [k \in Key |-> None]
  /\ dryRun   \in BOOLEAN
  /\ pc       = [d \in Delivery |-> "idle"]
  /\ offense  \in [Delivery -> Offense]
  /\ results  = [d \in Delivery |-> <<>>]
  /\ answer   = [d \in Delivery |-> "none"]
  /\ bindings = Binding
  /\ applied  = {}
  /\ window   = [k \in Key |-> 1]
  /\ claim    = [d \in Delivery |-> 0]

KeyFor(d)   == KeyOf(offense[d])
Plays(d)    == DISPATCH(offense[d].rule)
Next1(d)    == Plays(d)[Len(results[d]) + 1]
Running(d)  == pc[d] = "dispatching" /\ Len(results[d]) < Len(Plays(d))

Reply(d, from, a) == /\ pc[d] = from
                     /\ pc' = [pc EXCEPT ![d] = "answered"]
                     /\ answer' = [answer EXCEPT ![d] = a]

SetMarker(d) == /\ marker' = [marker EXCEPT ![KeyFor(d)] = d]
                /\ claim' = [claim EXCEPT ![d] = window[KeyFor(d)]]
                /\ UNCHANGED window

-----------------------------------------------------------------------------
(* The webhooks and _run *)

\* qradar_webhook: missing or bad signature.  The other two ask for none.
RejectSignature(d) ==
  /\ offense[d].source = "qradar" /\ ~offense[d].signed
  /\ Reply(d, "idle", "rejected")
  /\ UNCHANGED <<redis, dryRun, offense, results, world>>

Receive(d) ==
  /\ offense[d].source = "qradar" => offense[d].signed
  /\ pc[d] = "idle"
  /\ pc' = [pc EXCEPT ![d] = "received"]
  /\ UNCHANGED <<redis, dryRun, offense, results, answer, world>>

\* Mutant: SET without NX.
ClaimAnyway(d) ==
  /\ pc[d] = "received"
  /\ SetMarker(d)
  /\ pc' = [pc EXCEPT ![d] = "dispatching"]
  /\ UNCHANGED <<dryRun, offense, results, answer, world>>

Claim(d) ==
  /\ pc[d] = "received" /\ marker[KeyFor(d)] = None
  /\ SetMarker(d)
  /\ pc' = [pc EXCEPT ![d] = "dispatching"]
  /\ UNCHANGED <<dryRun, offense, results, answer, world>>

\* Mutant: a duplicate is answered with nothing.
DeduplicateSilently(d) ==
  /\ marker[KeyFor(d)] # None
  /\ Reply(d, "received", None)
  /\ UNCHANGED <<redis, dryRun, offense, results, world>>

Deduplicate(d) ==
  /\ marker[KeyFor(d)] # None
  /\ Reply(d, "received", "deduplicated")
  /\ UNCHANGED <<redis, dryRun, offense, results, world>>

\* The SET raises, and the webhook with it.  It may have been executed.
ClaimRaises(d) ==
  /\ "redis" \in Faults
  /\ Reply(d, "received", "error")
  /\ \/ UNCHANGED redis
     \/ marker[KeyFor(d)] = None /\ SetMarker(d)
  /\ UNCHANGED <<dryRun, offense, results, world>>

\* The marker's 300 seconds are over.
ExpireMarker(k) ==
  /\ marker[k] # None /\ window[k] <= MaxExpiries
  /\ marker' = [marker EXCEPT ![k] = None]
  /\ window' = [window EXCEPT ![k] = @ + 1]
  /\ UNCHANGED <<claim, dryRun, offense, handler, world>>

-----------------------------------------------------------------------------
(* dispatch: one playbook after the other, exceptions caught and reported *)

Report(d, ok) == /\ results' = [results EXCEPT ![d] = Append(@, ok)]
                 /\ UNCHANGED <<redis, dryRun, offense, pc, answer>>

Apply(d, call) == applied' = applied \cup {<<d, call>>}

\* The offense does not name what the playbook needs.
PlayLacks(d) ==
  /\ Running(d) /\ Lacks(Next1(d), offense[d])
  /\ Report(d, FALSE)
  /\ UNCHANGED world

\* Only logged.  pb_004 looks its pod up all the same, and may fail to.
PlayDryRun(d) ==
  /\ dryRun
  /\ Running(d) /\ ~Lacks(Next1(d), offense[d])
  /\ \E ok \in BOOLEAN : /\ ok \/ Next1(d) = "cordon_node"
                         /\ Report(d, ok)
  /\ UNCHANGED world

\* Mutant: _post does not look at the status.
PostIgnored(d) ==
  /\ Running(d) /\ ~Lacks(Next1(d), offense[d])
  /\ ~dryRun /\ Next1(d) \in Posting
  /\ Report(d, TRUE)
  /\ UNCHANGED world

\* raise_for_status of a route that is not there, or no answer.
PostRaises(d) ==
  /\ Running(d) /\ ~Lacks(Next1(d), offense[d])
  /\ ~dryRun /\ Next1(d) \in Posting
  /\ Report(d, FALSE)
  /\ UNCHANGED world

Calls(d) == /\ Running(d) /\ ~Lacks(Next1(d), offense[d])
            /\ ~dryRun /\ Next1(d) \notin Posting \cup {"revoke_rbac"}

\* An address denied, a pod labelled, a node cordoned, an egress policy created
\* or already there (409).
CallReturns(d) ==
  /\ Calls(d)
  /\ Apply(d, Call(Next1(d), offense[d]))
  /\ Report(d, TRUE)
  /\ UNCHANGED bindings

CallRaises(d) ==
  /\ "cluster" \in Faults
  /\ Calls(d)
  /\ \/ UNCHANGED applied
     \/ Apply(d, Call(Next1(d), offense[d]))
  /\ Report(d, FALSE)
  /\ UNCHANGED bindings

Revokes(d) == /\ Running(d) /\ ~Lacks(Next1(d), offense[d])
              /\ ~dryRun /\ Next1(d) = "revoke_rbac"

\* These bindings go, and d is who removed them.
Delete(d, gone) ==
  /\ bindings' = bindings \ gone
  /\ applied' = applied \cup {<<d, <<"revoke_rbac", b>>>> : b \in gone}

\* What the delete of b may have removed although it raises: nothing, because b is
\* not there or the API server did not take the call, or b itself, and the answer
\* is lost.
RaisingRemoves(b) ==
  {gone \in SUBSET ({b} \cap bindings) : b \in bindings => "cluster" \in Faults}

RevokeBinding(d) ==
  /\ Revokes(d)
  /\ BindingOf(offense[d]) \in bindings
  /\ Delete(d, {BindingOf(offense[d])})
  /\ Report(d, TRUE)

\* The namespaced delete raises, whatever it did: the cluster-wide binding of the
\* same name goes.
RevokeInCluster(d) ==
  /\ Revokes(d)
  /\ ClusterBindingOf(offense[d]) \in bindings
  /\ \E gone \in RaisingRemoves(BindingOf(offense[d])) :
       Delete(d, gone \cup {ClusterBindingOf(offense[d])})
  /\ Report(d, TRUE)

\* Both deletes raise.
RevokeRaises(d) ==
  /\ Revokes(d)
  /\ \E gone \in RaisingRemoves(BindingOf(offense[d])),
        other \in RaisingRemoves(ClusterBindingOf(offense[d])) :
       Delete(d, gone \cup other)
  /\ Report(d, FALSE)

Answer(d) ==
  /\ Len(results[d]) = Len(Plays(d))
  /\ Reply(d, "dispatching", "results")
  /\ UNCHANGED <<redis, dryRun, offense, results, world>>

-----------------------------------------------------------------------------
InFlight == {"received", "dispatching"}

\* The replica that serves a delivery dies.  The marker stays.
Crash(d) ==
  /\ "crash" \in Faults
  /\ pc[d] \in InFlight
  /\ pc' = [pc EXCEPT ![d] = "lost"]
  /\ UNCHANGED <<redis, dryRun, offense, results, answer, world>>

Quiescent == /\ \A d \in Delivery : pc[d] \in {"answered", "lost"}
             /\ UNCHANGED vars

Handle(d) ==
  \/ Claim(d) \/ Deduplicate(d) \/ ClaimRaises(d)
  \/ PlayLacks(d) \/ PlayDryRun(d) \/ PostRaises(d) \/ CallReturns(d)
  \/ CallRaises(d) \/ RevokeBinding(d) \/ RevokeInCluster(d) \/ RevokeRaises(d)
  \/ Answer(d)

Next == \/ \E d \in Delivery : RejectSignature(d) \/ Receive(d) \/ Handle(d)
                               \/ Crash(d)
        \/ \E k \in Key : ExpireMarker(k)
        \/ Quiescent

Spec == Init /\ [][Next]_vars

-----------------------------------------------------------------------------
(* Properties *)

\* Every variable has its type.
TypeOK ==
  /\ marker   \in [Key -> Delivery \cup {None}]
  /\ dryRun   \in BOOLEAN
  /\ pc       \in [Delivery -> InFlight \cup {"idle", "answered", "lost"}]
  /\ offense  \in [Delivery -> Offense]
  /\ results  \in [Delivery -> Seq(BOOLEAN)]
  /\ answer   \in [Delivery -> {"none", "rejected", "deduplicated", "error",
                                "results"}]
  /\ bindings \subseteq Binding
  /\ window   \in [Key -> Nat \ {0}]
  /\ claim    \in [Delivery -> Nat]

\* Of the deliveries with one dedupe_key that arrive between two expiries of
\* their marker, on any replica, at most one runs playbooks; the others have no
\* effect on the cluster (main.py, _run).
OncePerWindow ==
  /\ \A d, e \in Delivery :
       (d # e /\ KeyFor(d) = KeyFor(e) /\ claim[d] # 0) => claim[d] # claim[e]
  /\ \A x \in applied : claim[x[1]] # 0

\* Offenses whose pieces read alike have one rule and the same targets.  The
\* dedupe_key does not see to that, it puts its pieces one after the other: it is
\* a condition on the names in use.
KeysTellApart ==
  \A o, p \in Offense : Joined(Pieces(o)) = Joined(Pieces(p)) =>
    /\ o.rule = p.rule
    /\ \A f \in {"namespace", "pod", "user_sub", "src_ip", "account_id"} : o[f] = p[f]

\* Where keys tell offenses apart, a delivery is turned away as a duplicate only
\* if another one of the same rule, with the same targets but for the binding's
\* name, had set the marker (_run).  That one may have died or been told of an
\* error since: what it did not finish, nobody does before the marker expires.
DuplicatesWereClaimed ==
  \A d \in Delivery : answer[d] = "deduplicated" =>
    \E e \in Delivery \ {d} :
      /\ claim[e] # 0
      /\ Plays(e) = Plays(d)
      /\ \A f \in {"namespace", "pod", "user_sub", "src_ip", "account_id"} :
           offense[e][f] = offense[d][f]

\* The answer reports every playbook of the rule, whatever became of the ones
\* before it, and what it calls a success is one (playbooks.py): outside a dry
\* run the call took effect, for a revocation on the binding or on the cluster's
\* binding of that name.  A dry run touches nothing.
HonestResults ==
  /\ \A d \in Delivery :
       answer[d] = "results" => Len(results[d]) = Len(Plays(d))
  /\ dryRun => applied = {} /\ bindings = Binding
  /\ ~dryRun => \A d \in Delivery : \A i \in 1..Len(results[d]) :
       results[d][i] =>
         \/ <<d, Call(Plays(d)[i], offense[d])>> \in applied
         \/ /\ Plays(d)[i] = "revoke_rbac"
            /\ <<d, <<"revoke_rbac", ClusterBindingOf(offense[d])>>>> \in applied
=============================================================================
