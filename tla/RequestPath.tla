----------------------------- MODULE RequestPath -----------------------------
(***************************************************************************)
(* The way of a request: the gateway's middleware and its proxy handler    *)
(* (api-gateway main.py, routing.py), the service behind it with its own   *)
(* check of the token (jwt_dependency) and OPA's decision (opa.py), and    *)
(* back, both sides counted by RequestContextMiddleware (middleware.py).   *)
(*                                                                         *)
(* One gateway and one service are modelled: replicas of either share      *)
(* nothing but the auth service.  Paths, patterns and headers are the      *)
(* branch they lead to.  What each hop's middleware outside                *)
(* RequestContextMiddleware answers is in no counter; what its routes and  *)
(* their own rate limits answer is.                                        *)
(***************************************************************************)
EXTENDS KeyDistribution

CONSTANTS
  Gateway, Service,  \* the two verifiers
  Call,              \* what requests may be (records, see Fields)
  MaxFailed          \* how many requests one of whose steps raises (bound)

Path   == {"/v1/auth/login", "/v1/auth/logout", "/v1/accounts", "/elsewhere"}
Fields == [path : Path, bearer : BOOLEAN, typ : {"access", "pre-auth"},
           method : {"allowed", "other"}, waf : {"hit", "clean"}]

ASSUME RequestPathAssumption ==
  /\ Verifier = {Gateway, Service}
  /\ Gateway # Service
  /\ Call \subseteq Fields
  /\ MaxFailed \in Nat

VARIABLES
  call,     \* each request
  pc,       \* how far it is
  status,   \* at each hop, the status it answered a request with
  count,    \* at each hop, sb_http_requests_total by status
  away,     \* history: at each hop, the requests its outer middleware answered
  expired,  \* requests whose token is past its exp
  failed    \* history: requests one of whose steps raised or timed out

pathVars == <<call, pc, status, count, away, expired, failed>>
vars     == <<keyVars, pathVars>>

Hop    == {"gateway", "service"}
Status == {"200", "400", "401", "403", "404", "405", "413", "429", "500", "502"}

AtService == {"verifying", "deciding", "handling"}
PC == {"idle", "screening", "authenticating", "forwarding", "returning",
       "answered"} \cup AtService

Init ==
  /\ KeyInit
  /\ call    \in [Req -> Call]
  /\ pc      = [r \in Req |-> "idle"]
  /\ status  = [h \in Hop |-> [r \in Req |-> "none"]]
  /\ count   = [h \in Hop |-> [s \in Status |-> 0]]
  /\ away    = [h \in Hop |-> {}]
  /\ expired = {}
  /\ failed  = {}

-----------------------------------------------------------------------------
(* Decisions *)

\* routing.py, ROUTES.
ResolveUpstream(path) ==
  CASE path \in {"/v1/auth/login", "/v1/auth/logout"} -> "auth-service"
    [] path = "/v1/accounts"                          -> "account-service"
    [] OTHER                                          -> "none"

\* routing.py, ANON_PATH_PREFIXES.
RequiresAuth(path) == path # "/v1/auth/login"

\* waf.py, scan: some value matches some pattern.
Blocked(c) == c.waf = "hit"

\* What proxy refuses without asking anyone, in its order.
Screened(c) ==
  CASE c.method = "other"                      -> "405"
    [] ResolveUpstream(c.path) = "none"        -> "404"
    [] Blocked(c)                              -> "400"
    [] RequiresAuth(c.path) /\ ~c.bearer       -> "401"
    [] OTHER                                   -> "pass"

\* What the gateway's middleware outside RequestContextMiddleware may answer: the
\* body is too large; where a route matches, the rate limit is reached or its key
\* function raises (it reads auth_user_id, which proxy has not set yet); where
\* none does, CORS answers a preflight.
OuterAnswers(c) ==
  {"413"} \cup (IF c.method = "allowed" THEN {"429", "500"} ELSE {"200", "400"})

\* What a route answers of its own.  Login has its own limit (limiter.limit), whose
\* exception the app's handler turns into a 429 inside RequestContextMiddleware.
\* A 401 or a 404 stands for the route's other refusals.
RouteAnswers(path) ==
  CASE path = "/v1/auth/login"  -> {"200", "401", "429"}
    [] path = "/v1/auth/logout" -> {"200"}
    [] OTHER                    -> {"200", "404"}

\* The gateway decodes with the keys it has: an unknown kid is a KeyError, which
\* only RequestContextMiddleware catches.  It does not look at typ.
GatewayVerdict(r, keys) ==
  CASE token[r] \notin keys -> "500"
    [] r \in expired        -> "401"
    [] OTHER                -> "pass"

\* jwt_dependency.
ServiceVerdict(r, keys) ==
  IF token[r] \notin keys \/ r \in expired \/ call[r].typ # "access"
  THEN "401" ELSE "pass"

-----------------------------------------------------------------------------
(* Helpers *)

Goto(r, from, to) == pc[r] = from /\ pc' = [pc EXCEPT ![r] = to]

\* RequestContextMiddleware: whatever comes back, an exception as a 500, is
\* counted and answered.
Finish(h, r, s) == /\ status' = [status EXCEPT ![h][r] = s]
                   /\ count' = [count EXCEPT ![h][s] = @ + 1]

\* A middleware outside it answers: nothing is counted.
AnsweredOutside(h, r, s) == /\ status' = [status EXCEPT ![h][r] = s]
                            /\ away' = [away EXCEPT ![h] = @ \cup {r}]
                            /\ UNCHANGED count

Fails(r) == /\ Cardinality(failed \ {r}) < MaxFailed
            /\ failed' = failed \cup {r}

\* Go on to `to`, or answer with the verdict.
GatewayGate(r, from, to, verdict) ==
  \/ /\ verdict = "pass"
     /\ Goto(r, from, to)
     /\ UNCHANGED <<status, count>>
  \/ /\ verdict # "pass"
     /\ Goto(r, from, "answered")
     /\ Finish("gateway", r, verdict)

ServiceGate(r, from, to, verdict) ==
  \/ /\ verdict = "pass"
     /\ Goto(r, from, to)
     /\ UNCHANGED <<status, count>>
  \/ /\ verdict # "pass"
     /\ Goto(r, from, "returning")
     /\ Finish("service", r, verdict)

-----------------------------------------------------------------------------
(* At the gateway *)

TurnAway(r) ==
  /\ "limits" \in Faults
  /\ Goto(r, "idle", "answered")
  /\ \E s \in OuterAnswers(call[r]) : AnsweredOutside("gateway", r, s)
  /\ UNCHANGED <<keyVars, call, expired, failed>>

Arrive(r) ==
  /\ Goto(r, "idle", "screening")
  /\ Bear(r)
  /\ UNCHANGED <<call, away, status, count, expired, failed>>

Screen(r) ==
  /\ GatewayGate(r, "screening",
                 IF RequiresAuth(call[r].path) THEN "authenticating"
                                               ELSE "forwarding",
                 Screened(call[r]))
  /\ UNCHANGED <<keyVars, call, away, expired, failed>>

GatewayHit(r) ==
  /\ Hit(r, Gateway)
  /\ GatewayGate(r, "authenticating", "forwarding",
                 GatewayVerdict(r, cache[Gateway].keys))
  /\ UNCHANGED <<call, away, expired, failed>>

GatewayAsk(r) == /\ pc[r] = "authenticating"
                 /\ Ask(r, Gateway)
                 /\ UNCHANGED pathVars

GatewayFill(r) ==
  /\ Fill(r, Gateway)
  /\ GatewayGate(r, "authenticating", "forwarding", GatewayVerdict(r, got[r]))
  /\ UNCHANGED <<call, away, expired, failed>>

GatewayFetchRaises(r) ==
  /\ FetchRaises(r)
  /\ Goto(r, "authenticating", "answered")
  /\ Finish("gateway", r, "500")
  /\ Fails(r)
  /\ UNCHANGED <<call, away, expired>>

\* The auth service's own paths take the gateway's headers for an answer.
Forward(r) ==
  /\ Goto(r, "forwarding",
          IF ResolveUpstream(call[r].path) = "account-service" THEN "verifying"
                                                               ELSE "handling")
  /\ UNCHANGED <<keyVars, call, away, status, count, expired, failed>>

\* httpx raises before the service has the request.
UpstreamDown(r) ==
  /\ "upstream" \in Faults
  /\ Goto(r, "forwarding", "answered")
  /\ Finish("gateway", r, "502")
  /\ Fails(r)
  /\ UNCHANGED <<keyVars, call, away, expired>>

\* httpx raises after that: the service goes on, for nobody.
GiveUp(r) ==
  /\ "upstream" \in Faults
  /\ pc[r] \in AtService \cup {"returning"}
  /\ status["gateway"][r] = "none"
  /\ Finish("gateway", r, "502")
  /\ Fails(r)
  /\ UNCHANGED <<keyVars, call, pc, away, expired>>

\* Mutant: the service's answer is counted although the gateway gave up.
RelayAnyway(r) ==
  /\ Goto(r, "returning", "answered")
  /\ Finish("gateway", r, status["service"][r])
  /\ UNCHANGED <<keyVars, call, away, expired, failed>>

Relay(r) ==
  /\ Goto(r, "returning", "answered")
  /\ IF status["gateway"][r] = "none"
     THEN Finish("gateway", r, status["service"][r])
     ELSE UNCHANGED <<status, count>>
  /\ UNCHANGED <<keyVars, call, away, expired, failed>>

-----------------------------------------------------------------------------
(* At the service *)

\* Its own middleware outside RequestContextMiddleware: a body without a declared
\* length passes the gateway, which sends it on with one.
TurnAwayAtService(r) ==
  /\ "limits" \in Faults
  /\ Goto(r, "forwarding", "returning")
  /\ AnsweredOutside("service", r, "413")
  /\ UNCHANGED <<keyVars, call, expired, failed>>

ServiceHit(r) ==
  /\ Hit(r, Service)
  /\ ServiceGate(r, "verifying", "deciding",
                 ServiceVerdict(r, cache[Service].keys))
  /\ UNCHANGED <<call, away, expired, failed>>

ServiceAsk(r) == /\ pc[r] = "verifying"
                 /\ Ask(r, Service)
                 /\ UNCHANGED pathVars

ServiceFill(r) ==
  /\ Fill(r, Service)
  /\ ServiceGate(r, "verifying", "deciding", ServiceVerdict(r, got[r]))
  /\ UNCHANGED <<call, away, expired, failed>>

ServiceFetchRaises(r) ==
  /\ FetchRaises(r)
  /\ Goto(r, "verifying", "returning")
  /\ Finish("service", r, "500")
  /\ Fails(r)
  /\ UNCHANGED <<call, away, expired>>

\* OPA decides; no answer from it is a no (is_allowed).
Decide(r) ==
  /\ \E verdict \in {"pass", "403"} :
       ServiceGate(r, "deciding", "handling", verdict)
  /\ UNCHANGED <<keyVars, call, away, expired, failed>>

\* The route's own work, which other modules are about.
Handle(r) ==
  /\ Goto(r, "handling", "returning")
  /\ \E s \in RouteAnswers(call[r].path) : Finish("service", r, s)
  /\ UNCHANGED <<keyVars, call, away, expired, failed>>

HandleRaises(r) ==
  /\ "handler" \in Faults
  /\ Goto(r, "handling", "returning")
  /\ Finish("service", r, "500")
  /\ Fails(r)
  /\ UNCHANGED <<keyVars, call, away, expired>>

-----------------------------------------------------------------------------
(* What happens around a request *)

ExpireToken(r) ==
  /\ pc[r] \in {"authenticating", "verifying"}
  /\ r \notin expired
  /\ expired' = expired \cup {r}
  /\ UNCHANGED <<keyVars, call, pc, status, count, away, failed>>

Phase(v) == IF v = Gateway THEN "authenticating" ELSE "verifying"

Expire(v) == /\ ExpireCache(v, {r \in Req : pc[r] = Phase(v)})
             /\ UNCHANGED pathVars

KeysMove == /\ \/ Rotate
               \/ LET under == {r \in Req : pc[r] \notin {"idle", "answered"}}
                  IN  \E a \in Auth : \/ StartFromVault(a, under)
                                      \/ StartEphemeral(a, under)
            /\ UNCHANGED pathVars

ServeJwks(r) == Serve(r) /\ UNCHANGED pathVars

Quiescent == (\A r \in Req : pc[r] = "answered") /\ UNCHANGED vars

Step(r) ==
  \/ Screen(r) \/ GatewayHit(r) \/ GatewayAsk(r) \/ GatewayFill(r)
  \/ GatewayFetchRaises(r) \/ Forward(r) \/ UpstreamDown(r) \/ Relay(r)
  \/ ServiceHit(r) \/ ServiceAsk(r) \/ ServiceFill(r) \/ ServiceFetchRaises(r)
  \/ TurnAwayAtService(r) \/ Decide(r) \/ Handle(r) \/ HandleRaises(r) \/ ServeJwks(r)

Next == \/ \E r \in Req : TurnAway(r) \/ Arrive(r) \/ Step(r) \/ GiveUp(r)
                          \/ ExpireToken(r)
        \/ \E v \in Verifier : Expire(v)
        \/ KeysMove
        \/ Quiescent

Spec == Init /\ [][Next]_vars

-----------------------------------------------------------------------------
(* Properties *)

\* Every variable has its type.
TypeOK ==
  /\ KeyTypeOK
  /\ call    \in [Req -> Call]
  /\ pc      \in [Req -> PC]
  /\ status  \in [Hop -> [Req -> Status \cup {"none"}]]
  /\ count   \in [Hop -> [Status -> Nat]]
  /\ away    \in [Hop -> SUBSET Req]
  /\ expired \subseteq Req
  /\ failed  \subseteq Req

\* An access token that some replica signed, presented while it is valid on a
\* path that asks for one, by a request nothing happened to: it got past the outer
\* middleware, and none of its steps raised.
InOrder(r) == /\ pc[r] # "idle" /\ token[r] \in Key
              /\ Screened(call[r]) = "pass" /\ RequiresAuth(call[r].path)
              /\ call[r].typ = "access"
              /\ r \notin expired \cup failed
              /\ \A h \in Hop : r \notin away[h]

Refused(r) == \E h \in Hop : status[h][r] \in {"401", "500"}

\* A request in order is refused, by the gateway or by the service, only if the
\* rings of the auth replicas differed about its key while it was under way.
\* Neither a cache's age, nor what another handler's late answer did to the
\* cache, is ever the reason (JWKSCache.get asks again for a kid it misses).
RefusedForCause ==
  \A r \in Req : InOrder(r) /\ Refused(r) => r \in exposed

\* No token passes a verifier with a key that was in no ring, not in Vault and
\* not in an answer on its way when that verifier's cache last expired: a key
\* that is withdrawn is out of use after 300 seconds (JWKSCache._exp).
WithdrawnKeysFade ==
  [][\A r \in Req :
       /\ pc[r] = "authenticating" /\ pc'[r] = "forwarding"
            => token[r] \notin gone[Gateway]
       /\ pc[r] = "verifying" /\ pc'[r] = "deciding"
            => token[r] \notin gone[Service]]_vars

\* The counters say what was answered: at each hop, as many of a status as there
\* are requests answered with it, the service's work for a gateway that gave up
\* included, and a service's answer at both hops where it is relayed.  Only what a
\* hop's own outer middleware answered is not in that hop's counters: a service's
\* 413 is in the gateway's, login's 429 is in both (RequestContextMiddleware).
CountsMatchAnswers ==
  \A h \in Hop : \A s \in Status :
    count[h][s] = Cardinality({r \in Req : status[h][r] = s /\ r \notin away[h]})
=============================================================================
