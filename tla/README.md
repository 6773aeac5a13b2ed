# SecureBank: a TLA+ verification project

This directory models the parts of SecureBank that are hard to test: what happens
between two `await`s, between two Redis commands, between a commit and the step
after it, on several replicas at once. The modules are translated from the Python
source; where a document or a comment says something else than the code does, the
code is modelled and the difference is a run that TLC refutes.

`PROJECT.json` lists the components, the runs, the mutants that show each property
can fail, the source lines behind each definition, the hazards, the findings and
the theorems.

    tlc -workers 2 -config account.cfg MCAccountLedger     # a run
    tlapm AccountLedger_proofs.tla                         # a proof

## 1. The system

A FastAPI service per component, two replicas each (three for the gateway), over
PostgreSQL, Redis and Kafka. A request's handler is a coroutine: it gives up
control at each `await`, so handlers of one replica interleave as freely as those
of two.

| component | state | operations | what makes it correct |
|---|---|---|---|
| account-service | table `accounts` (status, balance, version); Redis markers `idemp:*`, 24 h | create, credit, debit, list, get | no overdraft, no lost update, one movement for each idempotency key, honest answers |
| transaction-service | table `transactions`, unique (initiator, key); a Kafka producer or none | transfer, list | a retry gives the same transaction; an event for each accepted row and none for a missing one; large transfers stepped up |
| auth-service, sessions | Redis `sb:sess:*` (15 min, sliding), `sb:rtk:*` (7 days); a session key for each process or a shared one | create, get, delete, issue, rotate, refresh, logout | a refresh token is good once; a reuse ends the session; logout is final |
| auth-service, login | table `users`; Redis `mfa:verify:*`; a signing key | register, login, mfa/verify, mfa/enroll | lockout after failures, a bounded number of codes, no session without MFA for enrolled users, answers that do not differ |
| shared, Kafka | topics `tx.transfers.v1`, `tx.fraud_alerts.v1`, 6 partitions, signed envelopes | send, stream, commit | at least once, in partition order, no position lost or retaken |
| fraud-detection-service | Redis velocity window, list of amounts, set of destinations | the loop `run_worker`, `handle` | features reflect what was handed over; an anomaly raises an alert |
| notification-service | Redis lists `sb:notif:*` | two loops, webhook | one entry for each event, newest first, capped |
| auth-service, keys; JWKS cache | the secret `auth/keys`, a ring for each replica, a cached document for each verifier (300 s) | start, jwks, verify | a request is refused for its key only when the rings differ about it; a withdrawn key is out of use after the cache's time |
| api-gateway, middleware | JWKS cache, counters, limiter | proxy, the five middleware classes | a request reaches one service, with verified claims; counters that agree with the answers |
| soar-service | Redis marker `soar:dedupe:*`, 300 s; the cluster | three webhooks, eight playbooks | an offense is acted on once in the marker's time; what is dropped was claimed; what is reported happened |
| frontend | the page's tokens and user | api, tryRefresh, login, logout | the page holds the tokens of the user it shows, and signs out only for a cause |
| OPA policies, step-up gate, risk score, IBAN | none | pure functions | the gate is at least as strict as the policy; check digits are valid |
| ai-security-agent | none | explain, triage, robustness | its advice names the playbook that SOAR runs first; severities never fall |
| shared, audit | a hash chain for each process | emit, under a lock | every record chained to the one before |
| validation, crypto, URL safety; adapters; memory-safety-demo; deployment | none shared | | |

How they interact: the gateway authenticates and forwards with `x-user-id`,
`x-session-id` and the bearer token; services ask OPA before they act; the
transaction service writes to its table and then to Kafka; every verifier fetches
the JWKS document from whichever auth replica answers; the page talks to the gateway
alone; the fraud and the
notification worker read the same topic, each as a group of its own; an alert is
meant to reach SOAR, whose playbook PB-003 freezes an account through an internal
endpoint that the account service does not have.

The hard behaviour: check-then-act on Redis (idempotency markers, token states,
counters and their TTL), writes to two stores in sequence (row then marker, row
then event, token then session), exceptions raised inside a transaction block,
at-least-once delivery with rebalances, per-process state that is decided once
at startup (producer, consumer, keys), caches filled by overlapping fetches, and a
page whose answers come back in any order.

## 2. Modules

| module | what it is | models |
|---|---|---|
| `Ledger` | abstract specification | what the account service promises about its rows |
| `AccountLedger` | EXTENDS nothing of the project; INSTANCE `Ledger` | `routes_accounts.py`: `_mutate`, `create_account` |
| `AccountLedger_proofs` | theorems | |
| `TransferIntake` | | `routes_transfers.py`: `transfer`; `state.py`: the producer |
| `TransferIntake_proofs` | theorems | |
| `RefreshSessions` | | `sessions.py`; `routes_auth.py`: refresh, logout, the end of login |
| `RefreshSessions_proofs` | theorems | |
| `ConsumerGroup` | abstract specification | `kafka.py`: `SecureConsumer.stream`, and the group it is a member of |
| `EventWorkers` | EXTENDS `ConsumerGroup`, implements its `Spec` | fraud `worker.py` and notification `worker.py` |
| `EventWorkers_proofs` | theorems | |
| `LoginGuards` | | `routes_auth.py`: register, login, mfa/verify, mfa/enroll; `repo.py` |
| `LoginGuards_proofs` | theorems | |
| `KeyDistribution` | state and steps, no specification of its own | `keys.py`; `jwt_dep.py`: `JWKSCache` |
| `RequestPath` | EXTENDS `KeyDistribution`: the composition of gateway, service and keys | gateway `main.py`, `routing.py`; `jwt_dependency`; `opa.py`; `middleware.py` |
| `RequestPath_proofs` | EXTENDS `Policies` too; theorems about both | |
| `SoarDispatch` | | soar `main.py`, `playbooks.py` |
| `Advice` | EXTENDS `SoarDispatch`; operators | agent `main.py`, `reasoner.py`, `adversarial.py` |
| `SoarDispatch_proofs` | EXTENDS `Advice`; theorems about both | |
| `Policies` | operators | the Rego packages; the queries of two services; `risk.py`; the step-up gate; `iban.py` |
| `BrowserSession` | | `frontend/app.js`; the token steps of `sessions.py` as a client sees them |
| `BrowserSession_proofs` | theorems | |
| `MC*` | constants and symmetry for TLC | |

Conventions, the same in every module: `Req` (or `Worker`) is the set of handlers
that may ever run, `pc` (or `stage`, `step`) says where each of them is, and there
is one action for what a handler does from one `await` to the next. `Fail` is an
exception or a crash at any such point: an open transaction rolls back, what was
written to Redis or Kafka stays. Variables called history are not in the code; they
only let a property speak of the past, and no guard reads them, except the bounds
named in the modules. A definition whose comment begins with "Mutant" is not part
of any specification: it is the definition after it with a plausible bug, kept to
show that the property named with it in `PROJECT.json` notices.

### AccountLedger

A handler goes `received` (GET of the marker, line 113), `authorising` (OPA),
`locking` (SELECT ... FOR UPDATE, waits while `lock` is held), `locked` (status and
balance checked on the ORM object, `snap`), `flushed`, `committed` (the transaction
is over, the marker not yet written), `answered`; or `replaying` after a hit. The
marker names operation, account and key, not the amount, as in the code. `Freeze`
is external (PB-003 calls an endpoint that no service has): a status change by
anyone who holds no row lock. `exposed` records the markers one of whose three
windows was hit: two handlers past the check together, a failure after the commit
and before the marker, an expired marker.

### TransferIntake

The table is a function from (initiator, key) to the request that inserted the row;
`pending` holds the uncommitted insert the unique index makes others wait for. The
handler calls `s.rollback()` inside `async with s.begin()`; what the SELECT that
follows does depends on the library, so it is a constant, `AfterRollback`:
SQLAlchemy 2, which `pyproject.toml` asks for, raises. The safety run lets both
happen; the run about events takes SQLAlchemy 2. `Restart` kills the handlers of a
replica and decides again whether it has a producer.

### RefreshSessions

Every GET, SET and DELETE of `sessions.py` is a step. `Domain` is a set of replicas
that share a session key; without `SB_SESSION_KEY_HEX`, which no manifest sets,
each process has its own, and a replica that cannot decrypt a session deletes it
(`Undecryptable`, `Discard`). Tokens are numbers, so that "a fresh random one" can
be the least unused; nothing else is made of their order.

### ConsumerGroup and EventWorkers

`ConsumerGroup` is what `stream` gives its caller: take the next event of an owned
partition, hand it over if the envelope verifies, commit, go on. Membership,
assignment and expulsion belong to Kafka and aiokafka and are modelled from how
`stream` depends on them: a commit after a rebalance moves nothing (`stale`), a
silent member is expelled. A failed `commit()` ends the generator and with it the
worker's task (`dead`); nothing restarts it. `EventWorkers` adds the Redis commands
of both handlers, one step each. The two services share nothing but the topic and
run the same loop, so a behaviour is of one of them (`service`). When the score
reaches the threshold, `audit.emit` is given an explanation with a `datetime`,
`json.dumps` refuses it, and the handler ends there: `alerts` stays empty. `MaxRaises` bounds how often handlers raise.

### LoginGuards

`ring` and `seal` are each replica's signing key and session key, equal or not. A
login reads the row (`reading`), then counts a failure, or goes on. The failure is
written inside `async with s.begin()` and the `HTTPException` that follows is raised
inside it as well, so `RaiseInvalid` discards `draft`, and `failed` never moves. The
counter of codes is named after the first 32 characters of the token; those are the
same for every RS256 token of this service, so there is one counter. A token that is
presented may be live, expired, signed with any replica's key or with none; one
that begins otherwise counts on a name of its own and is left out. "bare session"
and "phone taken" are what the caller sees as a session and as an error, told apart
for the properties.

### KeyDistribution and RequestPath

A token is known by the key that signed it. `vault` is the secret, `ring` what each
auth replica read of it at its start, or, without Vault, a key of its own
(`StartEphemeral`); `Rotate` is external, since no code of the repository writes the
secret. A verifier's `JWKSCache.get` is a hit without an `await` (`Hit`) or a fetch in
three steps (`Ask`, `Serve`, `Fill`), so that two fetches of one process overlap and the
older answer may replace the newer one. `RequestPath` takes a request through the
gateway's checks in their order, the upstream call, the service's own check of the same
token, OPA, and back; `GiveUp` is the gateway's timeout, after which the service goes
on for nobody. One gateway and one service stand for all: replicas of either share
only the auth service. Each hop has middleware outside the one that counts
(`TurnAway` at the gateway: the body's size, the rate limit, a preflight;
`TurnAwayAtService`: the body's size), and what it answers is in no counter of that hop,
though the gateway counts what it relays. The rate limit of the login route is inside:
its 429 is an answer of `Handle`, counted at both hops. `away` records which
requests a hop's outer middleware answered. `exposed` (a ring lacked the request's key
while the request was under way) and `gone` (keys that were nowhere when a cache last expired) are
history.

### SoarDispatch

A delivery goes through the source's own checks (`Receive`), the SET NX of the marker
(`Claim`, `Deduplicate`, `ClaimRaises`, in which the SET may have been executed), and
the playbooks of its rule one by one, each with its early returns (`PlayLacks`,
`PlayDryRun`) and with an effect on the cluster that may happen and still raise: the
deletes of `pb_005` too, after which the cluster-wide binding goes as well. The
marker's name is a hash of fields joined without a separator; the model keeps the
fields as a sequence with the absent ones left out, and the run's names are distinct,
so two offenses whose concatenations are equal by accident are not looked at
(`KeysTellApart`). `window`
counts, for each key, how often its marker expired; `claim` is the window of its key
in which a delivery claimed.

### Policies and Advice

Pure operators. `Policies` has the three packages of `k8s/policies/opa`, what the
account and the transaction service ask of the first, the gate and the score of a
transfer (the score in tenths, which the code has in floats), and the check digits of
an IBAN. `Advice` has the agent's table, its triage and its verdict on robustness
(amounts in rupees, rates and indices in thousandths; the population stability index is
an argument). Both are evaluated by TLC on small inputs in an `ASSUME` of
`MCRequestPath` and `MCSoarDispatch`, and proved about for all inputs.

### BrowserSession

Between two `await`s the page runs alone, so an action is what happens between an
answer and the next request. A call is sent with the page's access token (`Enter`),
answered (`ReceiveOk`, `ReceiveError`, `ReceiveDenied`), and after a 401 goes through
`tryRefresh` (`TryRefresh`, the server's two steps of `rotate`, `Refreshed` or
`SignOut`). The server is the auth service as a client sees it; that two replicas may
not read each other's sessions is `RefreshSessions`' subject and left out here (one
session-key domain). `KillSessions` is the console's button, which only empties the
page. `stale`, `late`, `doubled` and `failed` record what each exception of the two
properties is about.

## 3. Runs

| run | bounds | states, time | shows |
|---|---|---|---|
| `account` | 1 account, 3 requests, 2 keys, amount 1, maximum 2 | ~100 s | every safety property of the ledger, the refinement, and that everyone is answered |
| `account_replay` | 3 requests, no fault | violated | two overlapping attempts with one key both move the money |
| `transfer_safety` | 2 users, 1 key, 3 requests, every fault, both library behaviours | ~20 s | receipts, events and rows agree |
| `transfer_once` | 1 user, 1 key, 3 requests | 127 000, ~55 s | one event at most for a row, with its amount; none accepted unheard; nobody waits for ever |
| `refresh_safety` | 1 session, 4 tokens, 4 requests, 2 key domains, every fault | ~30 s | one live token and final logout, but for the races named |
| `events` | 1 partition, 2 events, 2 workers, 1 fault, 1 raising handler | ~35 s | delivery, what is left in Redis, and that everything is committed |
| `events_alert` | no fault | violated | an anomaly is committed without an alert |
| `login` | 1 user, 3 requests, 1 replica, 2 keys, every fault | 445 000, ~35 s | the throttle, its TTL, MFA, and unified answers |
| `login_lockout` | no fault | violated | as many refusals as the lockout asks for, and no lock |
| `edge` | 2 requests, 2 auth replicas, 2 keys, 2 restarts, one failing request, every fault | 1 542 000, ~130 s | why a request in order is refused, what the counters of each hop have, when a withdrawn key is out of use |
| `soar` | 3 deliveries of 5 offenses, 1 expiry of each marker, every fault | 1 359 000, ~100 s | one dispatch in a window, drops that were claimed, honest results |
| `browser` | 2 calls, 2 logins, 4 pairs of tokens, a failing network | 2 090 000, ~60 s | whose tokens the page holds, and why it signs out |

Why these bounds are enough for the case to happen. Three requests on one account
give two that race and a third that arrives after them, a retry of either, and both
the overflow (three credits of 1 with a maximum of 2) and the refused debit; rows of
different accounts share no state. Three transfers with one key give an insert, one
that waits for it and one that comes late, and two users give events of another
slot. Four requests around a session give a login, two rotations that overlap and a
logout between the steps of either. Two workers on one partition give the late
commit, the redelivery and the handover; more partitions only multiply them, since
everything but the assignment is per partition, and the proofs cover any number.
Three requests of one user give two registrations that race, a login that an
enrolment overtakes, and verifications before, at and after the maximum of 2. One replica is enough there:
no step of `LoginGuards` reads another replica's keys, and tokens and secrets made
with keys this one does not hold are there from the start.
`MaxFails`, `MaxAttempts` and `Cap` are small stand-ins for 5, 10 and 100.
Two requests at the edge give two overlapping fetches at either verifier, and one that
fills the cache before the other asks; a request to an account, a
logout, a login and a method that no route has take the ways with and without the
token's check at either hop, and every answer of the outer middleware (the 405 stands for
the refusals of `Screened`, which differ in nothing but the status); two keys and two restarts give replicas that
differ in either direction, by a rotation or by a key of their own, and make them agree
again. A third key would only allow a second rotation before the first has reached
everyone, which differs in the same way. Three deliveries give a
claim, a repetition under it and one after the expiry, and the five offenses are two that
differ in nothing but the pod, one whose playbook deletes a binding, one whose playbooks
post or lack a field, and an unsigned one: together they take every step a playbook
can take, and `AdviceIsDispatched` covers the rest of the table. Two calls
of the page refresh one token at the same time, the second login finds answers of the
first user's calls still on their way, and four pairs suffice for two logins and a
rotation in each.

Symmetry is used in safety runs only. `CHECK_DEADLOCK` is on everywhere: each
specification has a `Quiescent` step for the states in which the system is done (in
`BrowserSession`: no answer is outstanding and nothing can be sent within the bounds),
so TLC would report a handler stuck anywhere else.

Refinements. `AccountLedger` is shown to implement `Ledger` (`AbstractLedger`, an
`INSTANCE ... WITH` the rows of the table, run `account` and theorem `RefinesLedger`), and `EventWorkers` to
implement `ConsumerGroup` (run `events` and theorem `WorkersImplementDelivery`).

Fairness. `FairSpec` in `AccountLedger` and `TransferIntake` asks weak fairness of
each handler's own steps: the event loop runs every coroutine that can go on, and
PostgreSQL, Redis and OPA answer or raise (drivers have timeouts). It never asks for
an arrival, a failure or an expiry. That suffices, and nothing stronger is claimed:
the wait for a row lock or for a unique index is bounded because each holder leaves,
and only finitely many requests exist. `EWFairSpec` asks the same of each worker's
loop and that the coordinator expels a member that stopped polling (aiokafka's
`max_poll_interval_ms`); `EverythingCommitted` then needs fewer faults than workers,
since a worker whose loop ended is never started again.

## 4. Proofs

The theorems hold for every value of the constants that the modules' assumptions
allow, with unbounded numbers of requests, workers, events and deliveries. Every
invariant and every action property of a passing run is stated by one of them; two
have a condition on the constants, named below. What follows is the invariant
behind each and why it is needed; a property that is inductive by itself is not
mentioned again.

*AccountLedger.* `BalanceInBounds` is not inductive: a
commit writes what the handler computed earlier, so nothing in the balance alone
says it is right. The strengthening is `Isolation`: a handler inside its transaction
holds the row lock, and its snapshot is the committed row, or the row plus its own
movement once flushed. From it follow `NoOverdraft` and `RefinesLedger` (every step
that touches a row is an `Open`, `Freeze` or `Move` of `Ledger`). `OnceOutsideWindows`
and `HonestAnswers` rest on `Idempotency`: commits and answers agree (`Outcomes`), a
marker witnesses a commit (`Witnessed`), outside the windows a commit is marked or
about to be (`Marked`), and two requests with one marker are not both past the check
(`Alone`). `BooksAlwaysBalance` takes both: by `Isolation` a commit writes the old row
plus its own movement, by `Outcomes` that request had not committed before, so the sum
grows by exactly that movement. The sum is the library's `MapThenSumSet`, a recursion
whose order `CHOOSE` decides; that it is defined, and grows by the value of the element
that joins, in whatever order, is proved first (`AddsExist`, `AddsAnyOrder`,
`SumOfOneMore`). The induction over finite sets in those lemmas is written as the
absence of a smallest counterexample (`SmallestSet`), because the library's induction
theorems take an operator and cannot be instantiated.

*TransferIntake.* `RowsInv` ties each handler's transaction to the table: a row stands in
the slot of the request that wrote it, an uncommitted one belongs to a handler about to
commit it, and a handler past its transaction, or a caller told "accepted", holds the
committed row (`HeldIsCommitted`). Committed rows are never rewritten and events never
taken back (`RowsAndEventsStay`), so `AcceptedAgree`, `ReceiptsStand`,
`PublishedIsCommitted` and `AcceptedIsHeard` follow, for both behaviours of the library.
`OneEventPerRow` assumes that the SELECT after the rollback raises
(`"reads" \notin AfterRollback`): then a handler only ever holds its own row
(`OwnRowsOnly`), and its event is in the topic only once it is past the send
(`OwnEvents`).

*RefreshSessions.* For `LogoutEnds`, `GoneForGood`: once a session is deleted while no
refresh holds a copy of it, no refresh can get one, so nothing writes it again. For
`RotationKeepsOne`, `Stakes`: outside races a session has one thing at most that is a
live token or will lead to one, be it a live token, a handler that is rotating it, or a
handler about to issue the next (`OneStake`).

*EventWorkers.* `DeliveryInv` says that a busy worker holds an event that was handed
over or refused, and that a busy worker whose assignment has not changed owns its
partition and stands at the first uncommitted event. That is what makes `Advance`
skip nothing: hence `AtLeastOnce` and `OffsetsNeverRetreat`. Both are proved of
`ConsumerGroup` and carried over to the workers by `WorkersImplementDelivery`.
`CommittedRecords` adds what a handler has written by each of its steps (`Recorded`),
so that the commit that follows finds it written. `RecentTransfers` has three parts: the
handlers about to push an event and its entries in the list are together no more than its
handovers (`PendingInv`); before an event is handed over, everything ahead of it in its
partition is committed, so that the earlier one's push is over unless it is a repeat
(`HandedOver`, `ListFollowsPartition`); and a list is longer than its cap only by those about to trim
and those that went away before (`CappedInv`). `NewScoredOnce` follows each pair of user
and destination through lookup, insertion and score (`PairInv`): at most one handler is
between lookup and insertion and what it found still holds, and once the destination is in
the set one handler is about to score it as new or one event has been.

*LoginGuards.* `CodesBounded` needs to know that what was let through is what was
counted, up to the maximum (`Counted`).
`MfaAsked` and `AnswersAlike` speak of an answer that follows from a row read one or
more steps before: `GuardInv` adds that what a handler read is still so, or that a
commit overtook it (`OpeningRead`, `CreatingRead`). `Undisturbed` says what other
handlers' steps leave of that.

*RequestPath.* `Moves` lists what a step can do with a request's answer, and
`KeyMoves` what it can do with its fetch; the types and counters are proved of these and
not of every action. `CountsMatchAnswers` needs `Answered`: a hop has not answered
what has not left it, so that it counts no request twice, and what its outer middleware
answered it does not answer again (`AwayAnswered`). `WithdrawnKeysFade` needs `Faded`: a key that was nowhere at an
expiry is in no ring, not in a fresh cache and in no document this verifier may still
put there. `RefusedForCause` needs `Covered`: the key of an unexposed request is in
every ring, hence in the document its own fetch was answered with, which is the one the
check that follows sees.

*SoarDispatch.* `OneDispatchPerWindow` needs `Claims`: a claim is of a window that has begun, a
claim of the present window still has its marker, and who dispatches has claimed. Two
deliveries of one key in one window would both hold the one marker. `ResultsAreHonest`
follows from what a playbook's step adds: a result, and first the effect. What was turned
away has a claimant with its key, always (`DuplicatesHaveAClaimant`, from
`MarkersAreClaims` and `Fresh`: a marker names the delivery that set it, and who has just
arrived has claimed nothing). That the claimant is of the same rule and targets
(`DuplicatesHaveTheirClaim`) assumes `KeysTellApart`.

*BrowserSession.* `PageActsForItsUser` needs `OwnTokens`: until an overtaken refresh is
applied, the calls that refresh since the last login or sign-out ask with a token of the
user shown. `SignOutHasCause` needs `CauseInv`: tokens on their way to the page are live,
unused and in one answer only (`Supplies`), a spent token the page still holds is being
rotated by one of its own calls (`SpentIsAsked`), and one that two calls asked with is
marked as doubled (`AskedOnce`).

*Policies* (in `RequestPath_proofs`). What passes the handler's gate is allowed by the policy whenever the
threshold is at most the policy's amount (`GateImpliesPolicy`); staff without the
customer role move no money; a risky score means a step-up; a larger amount is never
scored lower. Of the two packages nobody asks: information flows only upwards
(`NoFlowDown`), large transfers have a second pair of eyes (`SeparationOfDuty`), and a
refusal has a reason. The check digits make an IBAN valid. *Advice* (in
`SoarDispatch_proofs`). A rule with advice
has playbooks, the first of which is the one advised; triage never lowers a severity; an alarm
is never "robust"; and every transfer of at most 20,000 rupees evades the stub model when sliced.

What the proofs found in the models. `ListsCapped` could not be proved with the set of
events whose handler raised: an event delivered again may raise again and leave a second
entry untrimmed, so `raises` counts raises instead (at the run's bound of one raise the
two are the same, which is why TLC saw nothing). `DuplicatesWereClaimed` could not be
proved for every set of offenses: `dedupe_key` joins its pieces without a separator, so
the condition `KeysTellApart` is now stated, and `MCSoarDispatch` checks that the run's
offenses satisfy it.

Only model-checked: the liveness properties, `EveryRequestAnswered` in both modules that
have it and `EverythingCommitted` (fairness and ENABLED are out of these provers' reach).
The three runs that TLC refutes state what is false.

## 5. Where the code and its documents differ

The findings are in `PROJECT.json`. Three have a run whose trace TLC finds without any
fault: idempotency of overlapping requests, the fraud alert, the lockout. The others are
listed there with the steps of the model that show them: the retry of a transfer, the
reuse of a refresh token, the throttle of codes, the rotation of signing keys, an unknown kid at
the gateway, the order of the middleware, the gateway's rate limit, the fallback of PB-005, the endpoints that
three playbooks post to, `loadTrust` without a user, the two packages nobody asks, the
gate at exactly 10,000 rupees, the PSI between 0.2 and 0.25, a hint that is no severity, the audit call itself.
Also met while modelling:

- Two overlapping refreshes with one token both succeed, and a token marked
  compromised is rotated again when it comes back (`raced` in `RefreshSessions`). A
  refresh that read the session before a logout writes it back (`held`).
- A replica without a producer accepts transfers and publishes nothing
  (`SkipPublish`); nothing retries, unlike `state.py:54` says.
- A registration with a phone number that another user has, or that loses a race for
  the e-mail, is answered 500 and not with the unified 202 (`RegistrationsAlike`).
- The page's answers are not tied to whom they were asked for: a refresh that ends
  after a sign-out or under another user is applied (`late`). Two calls with one refresh
  token sign the user out although one of them was given good tokens (`doubled`).
- The claimant of an offense may die before its playbooks: its repetitions are dropped
  until the marker expires, and nobody acts (`DuplicatesWereClaimed` says no more than
  that it was claimed). Whether `sismember(...) is False` notices a new destination
  depends on the client library's return type; `EventWorkers` takes a boolean.
- The gateway does not look at a token's `typ`: a pre-auth token passes it and is
  refused by the service behind it.
- The gateway's limiter asks for its key before `auth_user_id` is set, and calls the key
  function without the request, because its parameter is not named `request`: it raises,
  and the client gets a 500 that no counter has. `TurnAway` may do so to any request; that
  it may also not happen stands for a limiter that works, without which nothing behind
  it could be looked at.
- `install_security_middleware(app)` in soar-service and ai-security-agent lacks the required `service`;
  PB-003's `/internal/...` endpoints and PB's `gw:deny:ip` key are served and read by
  nobody. Hence `Freeze` is external.

## 6. Not modelled

- Pure I/O and adapters (database, Vault client, configuration, logging): their failures
  are the handlers' failing actions.
- The audit chain: `emit` is one step under a lock in one process; what it may do to its
  callers, raise, is in every model whose handler calls it.
- The score of the Isolation Forest and what OPA answers at run time are nondeterministic
  (the policy itself is in `Policies`). Password hashing, TOTP and encryption are right
  or wrong. What the WAF's and the validators' regular expressions match is left open.
- What the slowapi limits count (per process, in memory): the gateway's may turn a request
  away at any time, login's may answer 429 at any time (`register`'s is the same limit on
  a path that `RequestPath` has no request for). The ageing
  of the workers' Redis keys, listings and other reads change nothing the properties see.
- The login form's own refresh with tokens left over (`api` is called without `noRefresh`
  only after a login), rendering, demo mode and the console of the page; `rotate`'s GET
  and SET are two steps in `RefreshSessions` and in `BrowserSession`, the read of a used
  token and its marking one.
- Code review by regular expressions in the agent, the demonstration programs, manifests,
  dashboards and reports. In detail: the notes under "components".

## 7. Plan

Done: the ledger, transfers, sessions, delivery and workers, login, keys and the request
path, SOAR, the page, policies and advice, each with its proofs.

Next, in this order:

1. The whole transfer: `TransferIntake` composed with `EventWorkers` on one topic, and
   the theorems of both carried over to it.
2. What the three windows of `AccountLedger` cost: a bound on how often a key is applied,
   by how often its windows were hit.
3. The keys of `SoarDispatch` as joined texts, to see which names collide.
