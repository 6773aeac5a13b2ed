------------------------- MODULE RequestPath_proofs -------------------------
(***************************************************************************)
(* Theorems of RequestPath, for any number of requests, auth replicas and  *)
(* keys, and of Policies, for every input.  Moves says what a step may do  *)
(* with a request's answer; the types and the counters need nothing else   *)
(* of the actions.                                                         *)
(***************************************************************************)
EXTENDS RequestPath, Policies, FiniteSetTheorems, TLAPS

-----------------------------------------------------------------------------
(* Types, and which hop has answered when *)

Early == {"idle", "screening", "authenticating", "forwarding"}

PathTypeOK ==
  /\ call    \in [Req -> Call]
  /\ pc      \in [Req -> PC]
  /\ status  \in [Hop -> [Req -> Status \cup {"none"}]]
  /\ count   \in [Hop -> [Status -> Nat]]
  /\ away    \in [Hop -> SUBSET Req]
  /\ expired \subseteq Req
  /\ failed  \subseteq Req

\* What a hop's outer middleware answered is answered.
AwayAnswered == \A h \in Hop : \A r \in away[h] : status[h][r] # "none"

\* A hop has not answered a request that has not left it, and the service has
\* answered what returns from it.
Answered ==
  /\ AwayAnswered
  /\ \A r \in Req :
       /\ pc[r] \in Early => status["gateway"][r] = "none"
       /\ pc[r] \in Early \cup AtService => status["service"][r] = "none"
       /\ pc[r] = "returning" => status["service"][r] # "none"

\* Where a request that is not answered may go.
Onward == ((Early \ {"idle"}) \X (Early \ {"idle"}))
          \cup ({"idle"} \X {"screening"})
          \cup ({"forwarding"} \X {"verifying", "handling"})
          \cup (AtService \X AtService)

Passes(r) == \E way \in Onward : Goto(r, way[1], way[2]) /\ UNCHANGED <<status, count>>

LeavesGateway(r) ==
  \E from \in Early, s \in Status : Goto(r, from, "answered") /\ Finish("gateway", r, s)

LeavesService(r) ==
  \E from \in AtService, s \in Status :
    Goto(r, from, "returning") /\ Finish("service", r, s)

Returns(r) ==
  /\ Goto(r, "returning", "answered")
  /\ \/ status["gateway"][r] = "none" /\ Finish("gateway", r, status["service"][r])
     \/ status["gateway"][r] # "none" /\ UNCHANGED <<status, count>>

GivenUp(r) == /\ pc[r] \in AtService \cup {"returning"} /\ pc' = pc
              /\ status["gateway"][r] = "none" /\ Finish("gateway", r, "502")

Moves(r) ==
  \/ /\ Passes(r) \/ LeavesGateway(r) \/ LeavesService(r) \/ Returns(r) \/ GivenUp(r)
     /\ UNCHANGED away
  \/ TurnAway(r) \/ TurnAwayAtService(r)

\* A check lets pass, or answers with a status.
LEMMA Verdicts ==
  ASSUME NEW r, NEW keys
  PROVE  /\ Screened(call[r]) \in Status \cup {"pass"}
         /\ GatewayVerdict(r, keys) \in Status \cup {"pass"}
         /\ ServiceVerdict(r, keys) \in Status \cup {"pass"}
         /\ RouteAnswers(call[r].path) \subseteq Status
         /\ OuterAnswers(call[r]) \subseteq Status
BY DEF Screened, GatewayVerdict, ServiceVerdict, RouteAnswers, OuterAnswers, Status

\* The gateway's gate moves a request on or answers it.
LEMMA GatewayGateMoves ==
  ASSUME NEW r \in Req, NEW from \in Early \ {"idle"}, NEW to \in Early \ {"idle"},
         NEW verdict \in Status \cup {"pass"}, GatewayGate(r, from, to, verdict),
         UNCHANGED away
  PROVE  Moves(r)
<1>1. CASE verdict = "pass"
  <2>1. <<from, to>> \in Onward /\ <<from, to>>[1] = from /\ <<from, to>>[2] = to
    BY DEF Onward
  <2>2. Passes(r)
    BY <1>1, <2>1 DEF GatewayGate, Passes
  <2> QED
    BY <2>2 DEF Moves
<1>2. CASE verdict # "pass"
  BY <1>2 DEF GatewayGate, Moves, LeavesGateway
<1> QED
  BY <1>1, <1>2

\* So does the service's.
LEMMA ServiceGateMoves ==
  ASSUME NEW r \in Req, NEW from \in AtService, NEW to \in AtService,
         NEW verdict \in Status \cup {"pass"}, ServiceGate(r, from, to, verdict),
         UNCHANGED away
  PROVE  Moves(r)
<1>1. CASE verdict = "pass"
  <2>1. <<from, to>> \in Onward /\ <<from, to>>[1] = from /\ <<from, to>>[2] = to
    BY DEF Onward
  <2>2. Passes(r)
    BY <1>1, <2>1 DEF ServiceGate, Passes
  <2> QED
    BY <2>2 DEF Moves
<1>2. CASE verdict # "pass"
  BY <1>2 DEF ServiceGate, Moves, LeavesService
<1> QED
  BY <1>1, <1>2

\* A step moves one request, or leaves every answer as it is.
LEMMA StepMoves ==
  [Next]_vars => (\E r \in Req : Moves(r)) \/ UNCHANGED <<pc, status, count, away>>
<1> SUFFICES ASSUME [Next]_vars
             PROVE  (\E r \in Req : Moves(r)) \/ UNCHANGED <<pc, status, count, away>>
    OBVIOUS
<1>a. {"401", "403", "500", "502", "200"} \subseteq Status
  BY DEF Status
<1>b. /\ {"screening", "authenticating", "forwarding"} = Early \ {"idle"}
      /\ "idle" \in Early
      /\ {"verifying", "deciding", "handling"} = AtService
  BY DEF Early, AtService
<1>1. ASSUME NEW r \in Req, TurnAway(r)
      PROVE  (\E q \in Req : Moves(q)) \/ UNCHANGED <<pc, status, count, away>>
  BY <1>1 DEF Moves
<1>2. ASSUME NEW r \in Req, Arrive(r)
      PROVE  (\E q \in Req : Moves(q)) \/ UNCHANGED <<pc, status, count, away>>
  <2>1. <<"idle", "screening">> \in Onward
    BY DEF Onward
  <2> QED
    BY <1>2, <2>1 DEF Arrive, Moves, Passes
<1>3. ASSUME NEW r \in Req, Screen(r)
      PROVE  (\E q \in Req : Moves(q)) \/ UNCHANGED <<pc, status, count, away>>
  <2>1. (IF RequiresAuth(call[r].path) THEN "authenticating" ELSE "forwarding")
          \in Early \ {"idle"}
    BY <1>b
  <2> QED
    BY <1>3, <1>b, <2>1, Verdicts, GatewayGateMoves DEF Screen
<1>4. ASSUME NEW r \in Req, GatewayHit(r)
      PROVE  (\E q \in Req : Moves(q)) \/ UNCHANGED <<pc, status, count, away>>
  BY <1>4, <1>b, Verdicts, GatewayGateMoves DEF GatewayHit
<1>5. ASSUME NEW r \in Req, GatewayAsk(r)
      PROVE  (\E q \in Req : Moves(q)) \/ UNCHANGED <<pc, status, count, away>>
  BY <1>5 DEF GatewayAsk, pathVars
<1>6. ASSUME NEW r \in Req, GatewayFill(r)
      PROVE  (\E q \in Req : Moves(q)) \/ UNCHANGED <<pc, status, count, away>>
  BY <1>6, <1>b, Verdicts, GatewayGateMoves DEF GatewayFill
<1>7. ASSUME NEW r \in Req, GatewayFetchRaises(r)
      PROVE  (\E q \in Req : Moves(q)) \/ UNCHANGED <<pc, status, count, away>>
  BY <1>7, <1>a, <1>b DEF GatewayFetchRaises, Moves, LeavesGateway
<1>8. ASSUME NEW r \in Req, Forward(r)
      PROVE  (\E q \in Req : Moves(q)) \/ UNCHANGED <<pc, status, count, away>>
  <2>1. <<"forwarding", "verifying">> \in Onward /\ <<"forwarding", "handling">> \in Onward
    BY DEF Onward
  <2>2. \E to \in {"verifying", "handling"} :
           Goto(r, "forwarding", to) /\ UNCHANGED <<status, count, away>>
    BY <1>8 DEF Forward
  <2> QED
    BY <2>1, <2>2 DEF Moves, Passes
<1>9. ASSUME NEW r \in Req, UpstreamDown(r)
      PROVE  (\E q \in Req : Moves(q)) \/ UNCHANGED <<pc, status, count, away>>
  BY <1>9, <1>a, <1>b DEF UpstreamDown, Moves, LeavesGateway
<1>10. ASSUME NEW r \in Req, Relay(r)
      PROVE  (\E q \in Req : Moves(q)) \/ UNCHANGED <<pc, status, count, away>>
  BY <1>10 DEF Relay, Moves, Returns
<1>11. ASSUME NEW r \in Req, ServiceHit(r)
      PROVE  (\E q \in Req : Moves(q)) \/ UNCHANGED <<pc, status, count, away>>
  BY <1>11, <1>b, Verdicts, ServiceGateMoves DEF ServiceHit
<1>12. ASSUME NEW r \in Req, ServiceAsk(r)
      PROVE  (\E q \in Req : Moves(q)) \/ UNCHANGED <<pc, status, count, away>>
  BY <1>12 DEF ServiceAsk, pathVars
<1>13. ASSUME NEW r \in Req, ServiceFill(r)
      PROVE  (\E q \in Req : Moves(q)) \/ UNCHANGED <<pc, status, count, away>>
  BY <1>13, <1>b, Verdicts, ServiceGateMoves DEF ServiceFill
<1>14. ASSUME NEW r \in Req, ServiceFetchRaises(r)
      PROVE  (\E q \in Req : Moves(q)) \/ UNCHANGED <<pc, status, count, away>>
  BY <1>14, <1>a, <1>b DEF ServiceFetchRaises, Moves, LeavesService
<1>15. ASSUME NEW r \in Req, Decide(r)
      PROVE  (\E q \in Req : Moves(q)) \/ UNCHANGED <<pc, status, count, away>>
  <2>1. {"pass", "403"} \subseteq Status \cup {"pass"}
    BY <1>a
  <2> QED
    BY <1>15, <1>b, <2>1, ServiceGateMoves DEF Decide
<1>16. ASSUME NEW r \in Req, Handle(r)
      PROVE  (\E q \in Req : Moves(q)) \/ UNCHANGED <<pc, status, count, away>>
  BY <1>16, <1>b, Verdicts DEF Handle, Moves, LeavesService
<1>17. ASSUME NEW r \in Req, HandleRaises(r)
      PROVE  (\E q \in Req : Moves(q)) \/ UNCHANGED <<pc, status, count, away>>
  BY <1>17, <1>a, <1>b DEF HandleRaises, Moves, LeavesService
<1>18. ASSUME NEW r \in Req, ServeJwks(r)
      PROVE  (\E q \in Req : Moves(q)) \/ UNCHANGED <<pc, status, count, away>>
  BY <1>18 DEF ServeJwks, pathVars
<1>1s. ASSUME NEW r \in Req, TurnAwayAtService(r)
      PROVE  (\E q \in Req : Moves(q)) \/ UNCHANGED <<pc, status, count, away>>
  BY <1>1s DEF Moves
<1>19. ASSUME NEW r \in Req, GiveUp(r)
      PROVE  (\E q \in Req : Moves(q)) \/ UNCHANGED <<pc, status, count, away>>
  BY <1>19 DEF GiveUp, Moves, GivenUp
<1>20. ASSUME NEW r \in Req, ExpireToken(r)
      PROVE  (\E q \in Req : Moves(q)) \/ UNCHANGED <<pc, status, count, away>>
  BY <1>20 DEF ExpireToken
<1>21. ASSUME NEW v \in Verifier, Expire(v) PROVE UNCHANGED <<pc, status, count, away>>
  BY <1>21 DEF Expire, pathVars
<1>22. CASE KeysMove
  BY <1>22 DEF KeysMove, pathVars
<1>23. CASE UNCHANGED vars
  BY <1>23 DEF vars, pathVars
<1> QED
  BY <1>1, <1>2, <1>3, <1>4, <1>5, <1>6, <1>7, <1>8, <1>9, <1>10, <1>11, <1>12,
     <1>13, <1>14, <1>15, <1>16, <1>17, <1>18, <1>19, <1>20, <1>21, <1>22, <1>23, <1>1s
  DEF Next, Step, Quiescent

\* A request's step from place to place keeps the types.
LEMMA GotoTyped ==
  ASSUME PathTypeOK, NEW r \in Req, NEW from, NEW to \in PC, Goto(r, from, to)
  PROVE  /\ pc' \in [Req -> PC] /\ pc[r] = from /\ pc'[r] = to
         /\ \A q \in Req \ {r} : pc'[q] = pc[q]
BY DEF PathTypeOK, Goto

\* So does an answer of the outer middleware, which is not counted.
LEMMA OutsideTyped ==
  ASSUME PathTypeOK, NEW h \in Hop, NEW r \in Req, NEW s \in Status,
         AnsweredOutside(h, r, s)
  PROVE  /\ status' \in [Hop -> [Req -> Status \cup {"none"}]]
         /\ away' \in [Hop -> SUBSET Req]
         /\ status'[h][r] = s /\ away'[h] = away[h] \cup {r}
         /\ \A g \in Hop, q \in Req : g # h \/ q # r => status'[g][q] = status[g][q]
         /\ \A g \in Hop \ {h} : away'[g] = away[g]
BY DEF PathTypeOK, AnsweredOutside

\* So does counting an answer.
LEMMA FinishTyped ==
  ASSUME PathTypeOK, NEW h \in Hop, NEW r \in Req, NEW s \in Status, Finish(h, r, s)
  PROVE  /\ status' \in [Hop -> [Req -> Status \cup {"none"}]]
         /\ count' \in [Hop -> [Status -> Nat]]
         /\ status'[h][r] = s
         /\ \A g \in Hop, q \in Req : g # h \/ q # r => status'[g][q] = status[g][q]
BY DEF PathTypeOK, Finish

\* One more answer inside a hop leaves those of the outer middleware as they are.
LEMMA AwayStays ==
  ASSUME PathTypeOK, AwayAnswered, UNCHANGED away, NEW h \in Hop, NEW r \in Req,
         status'[h][r] # "none",
         \A g \in Hop, q \in Req : g # h \/ q # r => status'[g][q] = status[g][q]
  PROVE  AwayAnswered'
BY DEF PathTypeOK, AwayAnswered

MovedWell == /\ pc'     \in [Req -> PC]
             /\ status' \in [Hop -> [Req -> Status \cup {"none"}]]
             /\ count'  \in [Hop -> [Status -> Nat]]
             /\ away'   \in [Hop -> SUBSET Req]
             /\ Answered'

\* So does every move.
LEMMA MoveTyped ==
  ASSUME PathTypeOK, Answered, NEW r \in Req, Moves(r)
  PROVE  MovedWell
<1>h. "gateway" \in Hop /\ "service" \in Hop
  BY DEF Hop
<1>c. {"502", "413"} \subseteq Status /\ "none" \notin Status
  BY DEF Status
<1>1. CASE Passes(r) /\ UNCHANGED away
  <2>1. PICK way \in Onward : Goto(r, way[1], way[2]) /\ UNCHANGED <<status, count>>
    BY <1>1 DEF Passes
  <2>2. way[2] \in PC /\ (way[1] \in Early \/ way[1] \in AtService)
    BY DEF Onward, PC, Early, AtService
  <2>3. /\ way[2] # "returning"
        /\ way[2] \in Early => way[1] \in Early
    BY DEF Onward, Early, AtService
  <2>4. /\ pc' \in [Req -> PC] /\ pc[r] = way[1] /\ pc'[r] = way[2]
        /\ \A q \in Req \ {r} : pc'[q] = pc[q]
    BY <2>1, <2>2, GotoTyped
  <2> QED
    BY <1>1, <2>1, <2>2, <2>3, <2>4 DEF MovedWell, Answered, AwayAnswered, PathTypeOK
<1>2. CASE LeavesGateway(r) /\ UNCHANGED away
  <2>1. PICK from \in Early, s \in Status :
          Goto(r, from, "answered") /\ Finish("gateway", r, s)
    BY <1>2 DEF LeavesGateway
  <2>2. /\ pc' \in [Req -> PC] /\ pc[r] = from /\ pc'[r] = "answered"
        /\ \A q \in Req \ {r} : pc'[q] = pc[q]
    BY <2>1, GotoTyped DEF PC
  <2>3. /\ status' \in [Hop -> [Req -> Status \cup {"none"}]]
        /\ count' \in [Hop -> [Status -> Nat]]
        /\ status'["gateway"][r] = s
        /\ \A g \in Hop, q \in Req : g # "gateway" \/ q # r => status'[g][q] = status[g][q]
    BY <1>h, <1>c, <2>1, FinishTyped
  <2>4. AwayAnswered'
    BY <1>2, <1>h, <1>c, <2>1, <2>3, AwayStays DEF Answered
  <2> QED
    BY <1>2, <1>h, <2>2, <2>3, <2>4
       DEF MovedWell, Answered, Early, AtService, PathTypeOK
<1>3. CASE LeavesService(r) /\ UNCHANGED away
  <2>1. PICK from \in AtService, s \in Status :
          Goto(r, from, "returning") /\ Finish("service", r, s)
    BY <1>3 DEF LeavesService
  <2>2. /\ pc' \in [Req -> PC] /\ pc[r] = from /\ pc'[r] = "returning"
        /\ \A q \in Req \ {r} : pc'[q] = pc[q]
    BY <2>1, GotoTyped DEF PC
  <2>3. /\ status' \in [Hop -> [Req -> Status \cup {"none"}]]
        /\ count' \in [Hop -> [Status -> Nat]]
        /\ status'["service"][r] = s
        /\ \A g \in Hop, q \in Req : g # "service" \/ q # r => status'[g][q] = status[g][q]
    BY <1>h, <1>c, <2>1, FinishTyped
  <2>4. AwayAnswered' /\ s # "none"
    BY <1>3, <1>h, <1>c, <2>1, <2>3, AwayStays DEF Answered
  <2> QED
    BY <1>3, <1>h, <2>2, <2>3, <2>4
       DEF MovedWell, Answered, Early, AtService, PathTypeOK
<1>4. CASE Returns(r) /\ UNCHANGED away
  <2>1. /\ pc' \in [Req -> PC] /\ pc[r] = "returning" /\ pc'[r] = "answered"
        /\ \A q \in Req \ {r} : pc'[q] = pc[q]
    BY <1>4, GotoTyped DEF Returns, PC
  <2>2. status["service"][r] \in Status
    BY <1>h, <2>1 DEF Answered, PathTypeOK
  <2>3. /\ status' \in [Hop -> [Req -> Status \cup {"none"}]]
        /\ count' \in [Hop -> [Status -> Nat]]
        /\ status'["gateway"][r] # "none"
        /\ \A g \in Hop, q \in Req : g # "gateway" \/ q # r => status'[g][q] = status[g][q]
    <3>1. CASE Finish("gateway", r, status["service"][r])
      BY <1>h, <1>c, <2>2, <3>1, FinishTyped
    <3>2. CASE status["gateway"][r] # "none" /\ UNCHANGED <<status, count>>
      BY <3>2 DEF PathTypeOK
    <3> QED
      BY <1>4, <3>1, <3>2 DEF Returns
  <2>4. AwayAnswered'
    BY <1>4, <1>h, <2>3, AwayStays DEF Answered
  <2> QED
    BY <1>4, <1>h, <2>1, <2>3, <2>4 DEF MovedWell, Answered, Early, AtService, PathTypeOK
<1>5. CASE GivenUp(r) /\ UNCHANGED away
  <2>1. /\ status' \in [Hop -> [Req -> Status \cup {"none"}]]
        /\ count' \in [Hop -> [Status -> Nat]]
        /\ status'["gateway"][r] # "none"
        /\ \A g \in Hop, q \in Req : g # "gateway" \/ q # r => status'[g][q] = status[g][q]
    BY <1>5, <1>h, <1>c, FinishTyped DEF GivenUp
  <2>2. AwayAnswered'
    BY <1>5, <1>h, <2>1, AwayStays DEF Answered
  <2> QED
    BY <1>5, <1>h, <2>1, <2>2
       DEF MovedWell, GivenUp, Answered, Early, AtService, PathTypeOK
<1>6. CASE TurnAway(r)
  <2>1. /\ pc' \in [Req -> PC] /\ pc[r] = "idle" /\ pc'[r] = "answered"
        /\ \A q \in Req \ {r} : pc'[q] = pc[q]
    BY <1>6, GotoTyped DEF TurnAway, PC
  <2>2. PICK s \in Status : AnsweredOutside("gateway", r, s)
    BY <1>6, Verdicts DEF TurnAway
  <2>3. /\ status' \in [Hop -> [Req -> Status \cup {"none"}]]
        /\ away' \in [Hop -> SUBSET Req]
        /\ status'["gateway"][r] = s /\ away'["gateway"] = away["gateway"] \cup {r}
        /\ \A g \in Hop, q \in Req : g # "gateway" \/ q # r => status'[g][q] = status[g][q]
        /\ \A g \in Hop \ {"gateway"} : away'[g] = away[g]
    BY <1>h, <2>2, OutsideTyped
  <2>4. AwayAnswered'
    BY <1>h, <1>c, <2>3 DEF Answered, AwayAnswered, PathTypeOK
  <2> QED
    BY <1>h, <1>c, <2>1, <2>2, <2>3, <2>4
       DEF AnsweredOutside, MovedWell, Answered, Early, AtService, PathTypeOK
<1>7. CASE TurnAwayAtService(r)
  <2>1. /\ pc' \in [Req -> PC] /\ pc[r] = "forwarding" /\ pc'[r] = "returning"
        /\ \A q \in Req \ {r} : pc'[q] = pc[q]
    BY <1>7, GotoTyped DEF TurnAwayAtService, PC
  <2>2. AnsweredOutside("service", r, "413")
    BY <1>7 DEF TurnAwayAtService
  <2>3. /\ status' \in [Hop -> [Req -> Status \cup {"none"}]]
        /\ away' \in [Hop -> SUBSET Req]
        /\ status'["service"][r] = "413" /\ away'["service"] = away["service"] \cup {r}
        /\ \A g \in Hop, q \in Req : g # "service" \/ q # r => status'[g][q] = status[g][q]
        /\ \A g \in Hop \ {"service"} : away'[g] = away[g]
    BY <1>h, <1>c, <2>2, OutsideTyped
  <2>4. AwayAnswered'
    BY <1>h, <1>c, <2>3 DEF Answered, AwayAnswered, PathTypeOK
  <2> QED
    BY <1>h, <1>c, <2>1, <2>2, <2>3, <2>4
       DEF AnsweredOutside, MovedWell, Answered, Early, AtService, PathTypeOK
<1> QED
  BY <1>1, <1>2, <1>3, <1>4, <1>5, <1>6, <1>7 DEF Moves

\* Requests never change, and what has expired or failed stays so.
LEMMA OthersStep ==
  ASSUME PathTypeOK, [Next]_vars
  PROVE  /\ call' = call
         /\ expired \subseteq expired' /\ expired' \subseteq Req
         /\ failed \subseteq failed' /\ failed' \subseteq Req
         /\ \A h \in Hop : away[h] \subseteq away'[h]
<1>1. /\ call' = call
      /\ expired \subseteq expired' /\ expired' \subseteq Req
      /\ failed \subseteq failed' /\ failed' \subseteq Req
  BY DEF PathTypeOK, Next, Step, KeysMove, Quiescent, vars, pathVars, TurnAway,
         TurnAwayAtService, Arrive, Screen, GatewayHit, GatewayAsk, GatewayFill,
         GatewayFetchRaises, Forward, UpstreamDown, GiveUp, Relay, ServiceHit,
         ServiceAsk, ServiceFill, ServiceFetchRaises, Decide, Handle, HandleRaises,
         ServeJwks, ExpireToken, Expire, Fails
<1>2. away' = away \/ \E h \in Hop, r \in Req, s \in Status : AnsweredOutside(h, r, s)
  BY StepMoves, Verdicts DEF Moves, TurnAway, TurnAwayAtService, Hop, Status
<1>3. \A h \in Hop : away[h] \subseteq away'[h]
  BY <1>2 DEF PathTypeOK, AnsweredOutside
<1> QED
  BY <1>1, <1>3

\* Every step keeps the path's types, and who has answered.
LEMMA PathStep == PathTypeOK /\ Answered /\ [Next]_vars => PathTypeOK' /\ Answered'
<1> SUFFICES ASSUME PathTypeOK, Answered, [Next]_vars PROVE PathTypeOK' /\ Answered'
    OBVIOUS
<1>1. MovedWell
  <2>1. CASE \E r \in Req : Moves(r)
    BY <2>1, MoveTyped
  <2>2. CASE UNCHANGED <<pc, status, count, away>>
    BY <2>2 DEF MovedWell, Answered, AwayAnswered, PathTypeOK
  <2> QED
    BY <2>1, <2>2, StepMoves
<1> QED
  BY <1>1, OthersStep DEF MovedWell, PathTypeOK

-----------------------------------------------------------------------------
(* The counters *)

Of(h, s) == {r \in Req : status[h][r] = s /\ r \notin away[h]}

\* An answer is counted once, at its own hop.
LEMMA FinishCounts ==
  ASSUME IsFiniteSet(Req), PathTypeOK, CountsMatchAnswers,
         NEW h \in Hop, NEW r \in Req, NEW s \in Status,
         Finish(h, r, s), status[h][r] = "none", r \notin away[h], UNCHANGED away
  PROVE  CountsMatchAnswers'
<1> SUFFICES ASSUME NEW g \in Hop, NEW x \in Status
             PROVE  count'[g][x] = Cardinality(Of(g, x)')
    BY DEF CountsMatchAnswers, Of
<1>1. s \in Status /\ x # "none"
    BY DEF Status
<1>2. count[g][x] = Cardinality(Of(g, x))
    BY DEF CountsMatchAnswers, Of
<1>3. /\ status'[h][r] = s
      /\ \A k \in Hop, q \in Req : k # h \/ q # r => status'[k][q] = status[k][q]
    BY <1>1, FinishTyped
<1>4. CASE g = h /\ x = s
  <2>1. Of(g, x)' = Of(g, x) \cup {r} /\ r \notin Of(g, x)
    BY <1>1, <1>3, <1>4 DEF Of
  <2>2. IsFiniteSet(Of(g, x))
    BY FS_Subset DEF Of
  <2>3. Cardinality(Of(g, x)') = Cardinality(Of(g, x)) + 1
    BY <2>1, <2>2, FS_AddElement
  <2>4. count'[g][x] = count[g][x] + 1
    BY <1>4 DEF Finish, PathTypeOK
  <2> QED
    BY <1>1, <1>2, <1>4, <2>3, <2>4
<1>5. CASE ~(g = h /\ x = s)
  <2>1. Of(g, x)' = Of(g, x)
    BY <1>1, <1>3, <1>5 DEF Of
  <2>2. count'[g][x] = count[g][x]
    BY <1>1, <1>5 DEF Finish, PathTypeOK
  <2> QED
    BY <1>2, <2>1, <2>2
<1> QED
  BY <1>4, <1>5

\* An answer of the outer middleware changes neither a counter nor what it counts.
LEMMA OutsideKeepsCounts ==
  ASSUME PathTypeOK, CountsMatchAnswers,
         NEW h \in Hop, NEW r \in Req, NEW s \in Status,
         AnsweredOutside(h, r, s), status[h][r] = "none"
  PROVE  CountsMatchAnswers'
<1>1. /\ status'[h][r] = s /\ away'[h] = away[h] \cup {r}
      /\ \A g \in Hop, q \in Req : g # h \/ q # r => status'[g][q] = status[g][q]
      /\ \A g \in Hop \ {h} : away'[g] = away[g]
  BY OutsideTyped
<1>2. ASSUME NEW g \in Hop, NEW x \in Status PROVE Of(g, x)' = Of(g, x)
  <2>1. x # "none"
    BY DEF Status
  <2> QED
    BY <1>1, <2>1 DEF Of
<1>3. count' = count
  BY DEF AnsweredOutside
<1> QED
  BY <1>2, <1>3 DEF CountsMatchAnswers, Of

\* Every step keeps counters and answers together.
LEMMA CountStep ==
  ASSUME IsFiniteSet(Req), PathTypeOK, Answered, CountsMatchAnswers, [Next]_vars
  PROVE  CountsMatchAnswers'
<1>h. "gateway" \in Hop /\ "service" \in Hop
  BY DEF Hop
<1>1. CASE UNCHANGED <<pc, status, count, away>>
  BY <1>1 DEF CountsMatchAnswers
<1>n. \A h \in Hop, r \in Req : status[h][r] = "none" => r \notin away[h]
  BY DEF Answered, AwayAnswered
<1>2. ASSUME NEW r \in Req, Moves(r) PROVE CountsMatchAnswers'
  <2>1. CASE Passes(r) /\ UNCHANGED away
    BY <2>1 DEF Passes, CountsMatchAnswers
  <2>2. CASE LeavesGateway(r) /\ UNCHANGED away
    <3>1. PICK from \in Early, s \in Status : pc[r] = from /\ Finish("gateway", r, s)
      BY <2>2 DEF LeavesGateway, Goto
    <3> QED
      BY <1>h, <1>n, <2>2, <3>1, FinishCounts DEF Answered
  <2>3. CASE LeavesService(r) /\ UNCHANGED away
    <3>1. PICK from \in AtService, s \in Status : pc[r] = from /\ Finish("service", r, s)
      BY <2>3 DEF LeavesService, Goto
    <3> QED
      BY <1>h, <1>n, <2>3, <3>1, FinishCounts DEF Answered
  <2>4. CASE Returns(r) /\ UNCHANGED away
    <3>1. status["service"][r] \in Status
      BY <1>h, <2>4 DEF Returns, Goto, Answered, PathTypeOK
    <3>2. CASE UNCHANGED <<status, count>>
      BY <2>4, <3>2 DEF CountsMatchAnswers
    <3> QED
      BY <1>h, <1>n, <2>4, <3>1, <3>2, FinishCounts DEF Returns
  <2>5. CASE GivenUp(r) /\ UNCHANGED away
    <3>1. "502" \in Status
      BY DEF Status
    <3> QED
      BY <1>h, <1>n, <2>5, <3>1, FinishCounts DEF GivenUp
  <2>6. CASE TurnAway(r)
    <3>1. PICK s \in Status : AnsweredOutside("gateway", r, s)
      BY <2>6, Verdicts DEF TurnAway
    <3>2. status["gateway"][r] = "none"
      BY <2>6 DEF TurnAway, Goto, Answered, Early
    <3> QED
      BY <1>h, <3>1, <3>2, OutsideKeepsCounts
  <2>7. CASE TurnAwayAtService(r)
    <3>1. AnsweredOutside("service", r, "413") /\ "413" \in Status
      BY <2>7 DEF TurnAwayAtService, Status
    <3>2. status["service"][r] = "none"
      BY <2>7 DEF TurnAwayAtService, Goto, Answered, Early
    <3> QED
      BY <1>h, <3>1, <3>2, OutsideKeepsCounts
  <2> QED
    BY <1>2, <2>1, <2>2, <2>3, <2>4, <2>5, <2>6, <2>7 DEF Moves
<1> QED
  BY <1>1, <1>2, StepMoves

\* At each hop the counters say how many requests were answered with each status by
\* anything but the hop's own outer middleware, although the gateway may give up
\* what the service goes on with, and relays what the service's outer middleware
\* answered (RequestContextMiddleware, and the timeout of the gateway's proxy).
THEOREM CountersAreHonest ==
  ASSUME IsFiniteSet(Req) PROVE Spec => []CountsMatchAnswers
<1> DEFINE CInv == PathTypeOK /\ Answered /\ CountsMatchAnswers
<1>1. Init => CInv
  <2> SUFFICES ASSUME Init PROVE CInv
    OBVIOUS
  <2>1. \A h \in Hop, s \in Status : Of(h, s) = {}
    BY DEF Init, Of, Status
  <2>2. CountsMatchAnswers
    BY <2>1, FS_EmptySet DEF Init, CountsMatchAnswers, Of
  <2> QED
    BY <2>2 DEF Init, PathTypeOK, Answered, AwayAnswered, PC, AtService, Early, Hop
<1>2. CInv /\ [Next]_vars => CInv'
  BY PathStep, CountStep
<1> QED
  BY <1>1, <1>2, PTL DEF Spec

-----------------------------------------------------------------------------
(* Keys: who fetches when, and what is gone *)

Phases == {"authenticating", "verifying"}

\* A fetch is under way only where JWKSCache.get is called, and has a document
\* only when it was answered.
Fetching ==
  \A r \in Req :
    /\ look[r] # "none" => pc[r] \in Phases
    /\ look[r] # "answered" => got[r] = {}

\* The secret and the rings hold keys that were generated.
Minted == /\ Jwks(vault) \subseteq minted
          /\ \A a \in Auth : Jwks(ring[a]) \subseteq minted

\* What a step does with a request's fetch.
KeyMoves(r) ==
  \/ UNCHANGED <<keyVars, pc>>
  \/ /\ UNCHANGED keyVars /\ look[r] = "none"
     /\ \E from, to \in PC : /\ from \notin {"idle", "answered"} \/ to = "answered"
                            /\ Goto(r, from, to)
  \/ Bear(r) /\ Goto(r, "idle", "screening")
  \/ Serve(r) /\ UNCHANGED pc
  \/ \E v \in Verifier : \/ pc[r] = Phase(v) /\ Ask(r, v) /\ UNCHANGED pc
                         \/ Fill(r, v) /\ \E to \in PC : Goto(r, Phase(v), to)
  \/ FetchRaises(r) /\ \E from, to \in PC : Goto(r, from, to)

\* What a gate does with its verdict.
LEMMA Gates ==
  ASSUME NEW r \in Req, NEW from, NEW to, NEW verdict
  PROVE  /\ GatewayGate(r, from, to, verdict) =>
              \/ verdict = "pass" /\ Goto(r, from, to) /\ UNCHANGED <<status, count>>
              \/ verdict # "pass" /\ Goto(r, from, "answered") /\ Finish("gateway", r, verdict)
         /\ ServiceGate(r, from, to, verdict) =>
              \/ verdict = "pass" /\ Goto(r, from, to) /\ UNCHANGED <<status, count>>
              \/ verdict # "pass" /\ Goto(r, from, "returning") /\ Finish("service", r, verdict)
BY DEF GatewayGate, ServiceGate

\* What a step of a request does with its fetch.
LEMMA StepKeys ==
  ASSUME PathTypeOK, KeyTypeOK, Fetching, [Next]_vars
  PROVE  \/ \E r \in Req : KeyMoves(r)
         \/ KeysMove /\ UNCHANGED pc
         \/ \E v \in Verifier : Expire(v) /\ UNCHANGED pc
         \/ UNCHANGED <<keyVars, pc>>
<1>v. /\ Gateway \in Verifier /\ Service \in Verifier
      /\ Phase(Gateway) = "authenticating" /\ Phase(Service) = "verifying"
  BY RequestPathAssumption DEF Phase
<1>p. /\ PC = {"idle", "screening", "authenticating", "forwarding", "returning",
              "answered", "verifying", "deciding", "handling"}
      /\ pc \in [Req -> PC]
  BY DEF PC, AtService, PathTypeOK
<1>n. \A r \in Req : pc[r] \notin Phases => look[r] = "none"
  BY DEF Fetching
<1>1. ASSUME NEW r \in Req, TurnAway(r) PROVE KeyMoves(r)
  BY <1>1, <1>n, <1>p DEF TurnAway, KeyMoves, Goto, Phases
<1>1s. ASSUME NEW r \in Req, TurnAwayAtService(r) PROVE KeyMoves(r)
  BY <1>1s, <1>n, <1>p DEF TurnAwayAtService, KeyMoves, Goto, Phases
<1>2. ASSUME NEW r \in Req, Arrive(r) PROVE KeyMoves(r)
  BY <1>2 DEF Arrive, KeyMoves
<1>3. ASSUME NEW r \in Req, Screen(r) PROVE KeyMoves(r)
  BY <1>3, <1>n, <1>p, Gates DEF Screen, KeyMoves, Goto, Phases
<1>4. ASSUME NEW r \in Req, GatewayHit(r) PROVE KeyMoves(r)
  BY <1>4, <1>p, Gates DEF GatewayHit, Hit, KeyMoves
<1>5. ASSUME NEW r \in Req, GatewayAsk(r) PROVE KeyMoves(r)
  BY <1>5, <1>v DEF GatewayAsk, KeyMoves, pathVars
<1>6. ASSUME NEW r \in Req, GatewayFill(r) PROVE KeyMoves(r)
  BY <1>6, <1>v, <1>p, Gates DEF GatewayFill, KeyMoves
<1>7. ASSUME NEW r \in Req, GatewayFetchRaises(r) PROVE KeyMoves(r)
  BY <1>7, <1>p DEF GatewayFetchRaises, KeyMoves
<1>8. ASSUME NEW r \in Req, Forward(r) PROVE KeyMoves(r)
  BY <1>8, <1>n, <1>p DEF Forward, KeyMoves, Goto, Phases
<1>9. ASSUME NEW r \in Req, UpstreamDown(r) PROVE KeyMoves(r)
  BY <1>9, <1>n, <1>p DEF UpstreamDown, KeyMoves, Goto, Phases
<1>10. ASSUME NEW r \in Req, Relay(r) PROVE KeyMoves(r)
  BY <1>10, <1>n, <1>p DEF Relay, KeyMoves, Goto, Phases
<1>11. ASSUME NEW r \in Req, ServiceHit(r) PROVE KeyMoves(r)
  BY <1>11, <1>p, Gates DEF ServiceHit, Hit, KeyMoves
<1>12. ASSUME NEW r \in Req, ServiceAsk(r) PROVE KeyMoves(r)
  BY <1>12, <1>v DEF ServiceAsk, KeyMoves, pathVars
<1>13. ASSUME NEW r \in Req, ServiceFill(r) PROVE KeyMoves(r)
  BY <1>13, <1>v, <1>p, Gates DEF ServiceFill, KeyMoves
<1>14. ASSUME NEW r \in Req, ServiceFetchRaises(r) PROVE KeyMoves(r)
  BY <1>14, <1>p DEF ServiceFetchRaises, KeyMoves
<1>15. ASSUME NEW r \in Req, Decide(r) PROVE KeyMoves(r)
  BY <1>15, <1>n, <1>p, Gates DEF Decide, KeyMoves, Goto, Phases
<1>16. ASSUME NEW r \in Req, Handle(r) PROVE KeyMoves(r)
  BY <1>16, <1>n, <1>p DEF Handle, KeyMoves, Goto, Phases
<1>17. ASSUME NEW r \in Req, HandleRaises(r) PROVE KeyMoves(r)
  BY <1>17, <1>n, <1>p DEF HandleRaises, KeyMoves, Goto, Phases
<1>18. ASSUME NEW r \in Req, ServeJwks(r) PROVE KeyMoves(r)
  BY <1>18 DEF ServeJwks, KeyMoves, pathVars
<1>19. ASSUME NEW r \in Req, GiveUp(r) PROVE KeyMoves(r)
  BY <1>19 DEF GiveUp, KeyMoves
<1>20. ASSUME NEW r \in Req, ExpireToken(r) PROVE KeyMoves(r)
  BY <1>20 DEF ExpireToken, KeyMoves
<1>21. (\E v \in Verifier : Expire(v)) \/ KeysMove => UNCHANGED pc
  BY DEF Expire, KeysMove, pathVars
<1>22. UNCHANGED vars => UNCHANGED <<keyVars, pc>>
  BY DEF vars, pathVars
<1> QED
  BY <1>1, <1>2, <1>3, <1>4, <1>5, <1>6, <1>7, <1>8, <1>9, <1>10, <1>11, <1>12,
     <1>13, <1>14, <1>15, <1>16, <1>17, <1>18, <1>19, <1>20, <1>21, <1>22, <1>1s
  DEF Next, Step, Quiescent

\* Every step keeps the types of keys, caches and fetches.
LEMMA LookStep ==
  ASSUME PathTypeOK, KeyTypeOK, Fetching, Minted, [Next]_vars
  PROVE  KeyTypeOK' /\ Fetching' /\ Minted'
<1>p. pc \in [Req -> PC] /\ \A v \in Verifier : Phase(v) \in Phases
  BY DEF PathTypeOK, Phase, Phases
<1>j. /\ \A r \in Ring : Jwks(r) \subseteq Key
      /\ \A k \in Key : [active |-> k, previous |-> NoKey] \in Ring
      /\ \A k \in Key, l \in Key : [active |-> k, previous |-> l] \in Ring
  BY DEF Ring, Jwks
<1>k. /\ \A k \in Key : \A l :
           Jwks([active |-> k, previous |-> l]) \subseteq {k, l} \ {NoKey}
      /\ \A r \in Ring : r.active \in Jwks(r)
  BY KeyDistributionAssumption DEF Ring, Jwks
<1>1. ASSUME NEW r \in Req, KeyMoves(r) PROVE KeyTypeOK' /\ Fetching' /\ Minted'
  <2> USE <1>p DEF KeyTypeOK, Fetching, Minted
  <2>1. CASE UNCHANGED <<keyVars, pc>>
    BY <2>1 DEF keyVars, rings, looks
  <2>2. CASE /\ UNCHANGED keyVars /\ look[r] = "none"
             /\ \E from, to \in PC : Goto(r, from, to)
    BY <2>2 DEF keyVars, rings, looks, Goto
  <2>3. CASE Bear(r) /\ Goto(r, "idle", "screening")
    BY <2>3 DEF Bear, rings, looks, Goto, Phases
  <2>4. CASE Serve(r) /\ UNCHANGED pc
    BY <2>4, <1>j DEF Serve, rings
  <2>5. CASE \E v \in Verifier : pc[r] = Phase(v) /\ Ask(r, v) /\ UNCHANGED pc
    BY <2>5 DEF Ask, rings
  <2>6. CASE \E v \in Verifier : Fill(r, v) /\ \E to \in PC : Goto(r, Phase(v), to)
    BY <2>6 DEF Fill, rings, Goto, Cache
  <2>7. CASE FetchRaises(r) /\ \E from, to \in PC : Goto(r, from, to)
    BY <2>7 DEF FetchRaises, rings, Goto
  <2> QED
    BY <1>1, <2>1, <2>2, <2>3, <2>4, <2>5, <2>6, <2>7 DEF KeyMoves
<1>2. ASSUME KeysMove, UNCHANGED pc PROVE KeyTypeOK' /\ Fetching' /\ Minted'
  <2> USE DEF KeyTypeOK, Fetching, Minted
  <2>1. CASE Rotate
    BY <1>2, <2>1, <1>j, <1>k DEF Rotate, Mint, looks, Ring
  <2>2. ASSUME NEW a \in Auth, NEW under \in SUBSET Req, StartFromVault(a, under)
        PROVE  KeyTypeOK' /\ Fetching' /\ Minted'
    BY <1>2, <2>2, <1>k, KeyDistributionAssumption
    DEF StartFromVault, Install, KvGet, looks, Ring
  <2>3. ASSUME NEW a \in Auth, NEW under \in SUBSET Req, StartEphemeral(a, under)
        PROVE  KeyTypeOK' /\ Fetching' /\ Minted'
    BY <1>2, <2>3, <1>j, <1>k, KeyDistributionAssumption
    DEF StartEphemeral, Mint, Install, looks
  <2> QED
    BY <1>2, <2>1, <2>2, <2>3 DEF KeysMove
<1>3. ASSUME NEW v \in Verifier, Expire(v), UNCHANGED pc
      PROVE  KeyTypeOK' /\ Fetching' /\ Minted'
  BY <1>3 DEF Expire, ExpireCache, Nowhere, KeyTypeOK, Fetching, Minted, Cache,
     rings, looks
<1>4. CASE UNCHANGED <<keyVars, pc>>
  BY <1>4 DEF KeyTypeOK, Fetching, Minted, keyVars, rings, looks
<1> QED
  BY <1>1, <1>2, <1>3, <1>4, StepKeys

TInv == PathTypeOK /\ KeyTypeOK /\ Answered /\ Fetching /\ Minted

\* Types hold throughout, of the path and of the keys.
LEMMA TInvHolds == Spec => []TInv
<1>1. Init => TInv
  BY KeyDistributionAssumption
  DEF Init, KeyInit, TInv, PathTypeOK, KeyTypeOK, Answered, AwayAnswered, Fetching, Minted, Jwks, PC,
      AtService, Early, Hop, Ring, Cache
<1>2. TInv /\ [Next]_vars => TInv'
  BY PathStep, LookStep DEF TInv
<1> QED
  BY <1>1, <1>2, PTL DEF Spec

\* Every variable keeps its type, for any number of requests, replicas and keys.
THEOREM TypeCorrect == Spec => []TypeOK
<1>1. TInv => TypeOK
  BY DEF TInv, TypeOK, PathTypeOK
<1> QED
  BY <1>1, TInvHolds, PTL

-----------------------------------------------------------------------------
(* Withdrawn keys *)

\* A key that was nowhere stays out of every ring, and out of every document
\* that a verifier may yet use.
Faded ==
  \A v \in Verifier :
    /\ gone[v] \subseteq minted
    /\ gone[v] \cap Jwks(vault) = {}
    /\ \A a \in Auth : gone[v] \cap Jwks(ring[a]) = {}
    /\ cache[v].fresh => gone[v] \cap cache[v].keys = {}
    /\ \A r \in Req : pc[r] = Phase(v) => gone[v] \cap got[r] = {}

\* Every step keeps faded keys out.
LEMMA FadedStep == TInv /\ Faded /\ [Next]_vars => Faded'
<1> SUFFICES ASSUME TInv, Faded, [Next]_vars PROVE Faded'
    OBVIOUS
<1>t. PathTypeOK /\ KeyTypeOK /\ Fetching /\ Minted
  BY DEF TInv
<1>p. pc \in [Req -> PC] /\ \A v \in Verifier : Phase(v) \in Phases
  BY <1>t DEF PathTypeOK, Phase, Phases
<1>e. \A r \in Req : pc[r] \notin Phases \/ look[r] = "none" => got[r] = {}
  BY <1>t DEF Fetching
<1>k. /\ \A k \in Key : \A l :
           Jwks([active |-> k, previous |-> l]) \subseteq {k, l} \ {NoKey}
      /\ \A r \in Ring : r.active \in Jwks(r)
  BY KeyDistributionAssumption DEF Ring, Jwks
<1>1. ASSUME NEW r \in Req, KeyMoves(r) PROVE Faded'
  <2> USE <1>p, <1>t DEF KeyTypeOK, Faded
  <2>1. CASE UNCHANGED <<keyVars, pc>>
    BY <2>1 DEF keyVars, rings, looks
  <2>2. CASE /\ UNCHANGED keyVars /\ look[r] = "none"
             /\ \E from, to \in PC : Goto(r, from, to)
    BY <2>2, <1>e DEF keyVars, rings, looks, Goto
  <2>3. CASE Bear(r) /\ Goto(r, "idle", "screening")
    BY <2>3 DEF Bear, rings, looks, Goto, Phases
  <2>4. CASE Serve(r) /\ UNCHANGED pc
    BY <2>4 DEF Serve, rings
  <2>5. CASE \E v \in Verifier : pc[r] = Phase(v) /\ Ask(r, v) /\ UNCHANGED pc
    BY <2>5 DEF Ask, rings
  <2>6. CASE \E v \in Verifier : Fill(r, v) /\ \E to \in PC : Goto(r, Phase(v), to)
    BY <2>6 DEF Fill, rings, Goto, Cache
  <2>7. CASE FetchRaises(r) /\ \E from, to \in PC : Goto(r, from, to)
    BY <2>7 DEF FetchRaises, rings, Goto
  <2> QED
    BY <1>1, <2>1, <2>2, <2>3, <2>4, <2>5, <2>6, <2>7 DEF KeyMoves
<1>2. ASSUME KeysMove, UNCHANGED pc PROVE Faded'
  <2>1. CASE Rotate
    BY <1>2, <1>t, <1>k, <2>1 DEF KeyTypeOK, Minted, Faded, Rotate, Mint, looks
  <2>2. ASSUME NEW a \in Auth, NEW under \in SUBSET Req, StartFromVault(a, under)
        PROVE  Faded'
    BY <1>2, <1>t, <1>k, <2>2
    DEF KeyTypeOK, Minted, Faded, StartFromVault, Install, KvGet, looks
  <2>3. ASSUME NEW a \in Auth, NEW under \in SUBSET Req, StartEphemeral(a, under)
        PROVE  Faded'
    BY <1>2, <1>t, <1>k, <2>3
    DEF KeyTypeOK, Minted, Faded, StartEphemeral, Mint, Install, looks
  <2> QED
    BY <1>2, <2>1, <2>2, <2>3 DEF KeysMove
<1>3. ASSUME NEW v \in Verifier, Expire(v), UNCHANGED pc PROVE Faded'
  <2>1. /\ cache' = [cache EXCEPT ![v] = [keys |-> cache[v].keys, fresh |-> FALSE]]
        /\ gone' = [gone EXCEPT ![v] = @ \cup Nowhere({r \in Req : pc[r] = Phase(v)})]
        /\ UNCHANGED <<vault, ring, minted, got>>
    BY <1>3 DEF Expire, ExpireCache, rings, looks
  <2>2. /\ Nowhere({r \in Req : pc[r] = Phase(v)}) \subseteq minted
        /\ Nowhere({r \in Req : pc[r] = Phase(v)}) \cap Jwks(vault) = {}
        /\ \A a \in Auth : Nowhere({r \in Req : pc[r] = Phase(v)}) \cap Jwks(ring[a]) = {}
        /\ \A q \in Req : pc[q] = Phase(v) =>
             Nowhere({r \in Req : pc[r] = Phase(v)}) \cap got[q] = {}
    BY DEF Nowhere
  <2> DEFINE N == Nowhere({r \in Req : pc[r] = Phase(v)})
  <2> HIDE DEF N
  <2>3. /\ gone'[v] = gone[v] \cup N /\ ~cache'[v].fresh
        /\ \A w \in Verifier \ {v} : gone'[w] = gone[w] /\ cache'[w] = cache[w]
    BY <2>1, <1>t DEF N, KeyTypeOK
  <2>4. /\ N \subseteq minted /\ N \cap Jwks(vault) = {}
        /\ \A a \in Auth : N \cap Jwks(ring[a]) = {}
        /\ \A q \in Req : pc[q] = Phase(v) => N \cap got[q] = {}
    BY <2>2 DEF N
  <2> QED
    BY <1>3, <2>1, <2>3, <2>4 DEF Faded
<1>4. CASE UNCHANGED <<keyVars, pc>>
  BY <1>4 DEF Faded, keyVars, rings, looks
<1> QED
  BY <1>t, <1>1, <1>2, <1>3, <1>4, StepKeys

\* Only an authenticated request goes on to the service, and only a verified one
\* to OPA's decision.
LEMMA WaysIn ==
  ASSUME PathTypeOK, [Next]_vars, NEW q \in Req
  PROVE  /\ pc[q] = "authenticating" /\ pc'[q] = "forwarding" =>
              GatewayHit(q) \/ GatewayFill(q)
         /\ pc[q] = "verifying" /\ pc'[q] = "deciding" =>
              ServiceHit(q) \/ ServiceFill(q)
<1> DEFINE In == /\ pc[q] = "authenticating" /\ pc'[q] = "forwarding" =>
                      GatewayHit(q) \/ GatewayFill(q)
                 /\ pc[q] = "verifying" /\ pc'[q] = "deciding" =>
                      ServiceHit(q) \/ ServiceFill(q)
<1>p. pc \in [Req -> PC]
  BY DEF PathTypeOK
<1> HIDE DEF In
<1>1. ASSUME NEW r \in Req, TurnAway(r) PROVE In
  BY <1>1, <1>p DEF In, TurnAway, Goto
<1>1s. ASSUME NEW r \in Req, TurnAwayAtService(r) PROVE In
  BY <1>1s, <1>p DEF In, TurnAwayAtService, Goto
<1>2. ASSUME NEW r \in Req, Arrive(r) PROVE In
  BY <1>2, <1>p DEF In, Arrive, Goto
<1>3. ASSUME NEW r \in Req, Screen(r) PROVE In
  BY <1>3, <1>p DEF In, Screen, GatewayGate, Goto
<1>4. ASSUME NEW r \in Req, GatewayHit(r) PROVE In
  BY <1>4, <1>p DEF In, GatewayHit, GatewayGate, Goto
<1>5. ASSUME NEW r \in Req, GatewayAsk(r) PROVE In
  BY <1>5, <1>p DEF In, GatewayAsk, pathVars
<1>6. ASSUME NEW r \in Req, GatewayFill(r) PROVE In
  BY <1>6, <1>p DEF In, GatewayFill, GatewayGate, Goto
<1>7. ASSUME NEW r \in Req, GatewayFetchRaises(r) PROVE In
  BY <1>7, <1>p DEF In, GatewayFetchRaises, Goto
<1>8. ASSUME NEW r \in Req, Forward(r) PROVE In
  BY <1>8, <1>p DEF In, Forward, Goto
<1>9. ASSUME NEW r \in Req, UpstreamDown(r) PROVE In
  BY <1>9, <1>p DEF In, UpstreamDown, Goto
<1>10. ASSUME NEW r \in Req, Relay(r) PROVE In
  BY <1>10, <1>p DEF In, Relay, Goto
<1>11. ASSUME NEW r \in Req, ServiceHit(r) PROVE In
  BY <1>11, <1>p DEF In, ServiceHit, ServiceGate, Goto
<1>12. ASSUME NEW r \in Req, ServiceAsk(r) PROVE In
  BY <1>12, <1>p DEF In, ServiceAsk, pathVars
<1>13. ASSUME NEW r \in Req, ServiceFill(r) PROVE In
  BY <1>13, <1>p DEF In, ServiceFill, ServiceGate, Goto
<1>14. ASSUME NEW r \in Req, ServiceFetchRaises(r) PROVE In
  BY <1>14, <1>p DEF In, ServiceFetchRaises, Goto
<1>15. ASSUME NEW r \in Req, Decide(r) PROVE In
  BY <1>15, <1>p DEF In, Decide, ServiceGate, Goto
<1>16. ASSUME NEW r \in Req, Handle(r) PROVE In
  BY <1>16, <1>p DEF In, Handle, Goto
<1>17. ASSUME NEW r \in Req, HandleRaises(r) PROVE In
  BY <1>17, <1>p DEF In, HandleRaises, Goto
<1>18. ASSUME NEW r \in Req, ServeJwks(r) PROVE In
  BY <1>18, <1>p DEF In, ServeJwks, pathVars
<1>19. ASSUME NEW r \in Req, GiveUp(r) PROVE In
  BY <1>19, <1>p DEF In, GiveUp
<1>20. ASSUME NEW r \in Req, ExpireToken(r) PROVE In
  BY <1>20, <1>p DEF In, ExpireToken
<1>21. (\E v \in Verifier : Expire(v)) \/ KeysMove \/ UNCHANGED vars => In
  BY DEF In, Expire, KeysMove, pathVars, vars
<1>22. In
  BY <1>1, <1>2, <1>3, <1>4, <1>5, <1>6, <1>7, <1>8, <1>9, <1>10, <1>11, <1>12,
     <1>13, <1>14, <1>15, <1>16, <1>17, <1>18, <1>19, <1>20, <1>21, <1>1s
  DEF Next, Step, Quiescent
<1> QED
  BY <1>22 DEF In

\* A withdrawn key is out of use at a verifier once its cache has expired, however
\* many fetches overlap there (JWKSCache).
THEOREM WithdrawnKeysAreOut == Spec => WithdrawnKeysFade
<1>1. Init => Faded
  BY DEF Init, KeyInit, Faded
<1>2. TInv /\ Faded /\ [Next]_vars =>
        [\A r \in Req :
           /\ pc[r] = "authenticating" /\ pc'[r] = "forwarding"
                => token[r] \notin gone[Gateway]
           /\ pc[r] = "verifying" /\ pc'[r] = "deciding"
                => token[r] \notin gone[Service]]_vars
  <2> SUFFICES ASSUME TInv, Faded, [Next]_vars, NEW r \in Req
               PROVE  /\ pc[r] = "authenticating" /\ pc'[r] = "forwarding"
                           => token[r] \notin gone[Gateway]
                      /\ pc[r] = "verifying" /\ pc'[r] = "deciding"
                           => token[r] \notin gone[Service]
    OBVIOUS
  <2>v. /\ Gateway \in Verifier /\ Service \in Verifier
        /\ Phase(Gateway) = "authenticating" /\ Phase(Service) = "verifying"
    BY RequestPathAssumption DEF Phase
  <2>g. \A keys : GatewayVerdict(r, keys) = "pass" => token[r] \in keys
    BY DEF GatewayVerdict
  <2>s. \A keys : ServiceVerdict(r, keys) = "pass" => token[r] \in keys
    BY DEF ServiceVerdict
  <2>p. pc \in [Req -> PC]
    BY DEF TInv, PathTypeOK
  <2>1. ASSUME pc[r] = "authenticating", pc'[r] = "forwarding"
        PROVE  token[r] \notin gone[Gateway]
    <3>1. CASE GatewayHit(r)
      BY <2>v, <3>1 DEF GatewayHit, Hit, MustAsk, Faded
    <3>2. CASE GatewayFill(r)
      <4>1. GatewayVerdict(r, got[r]) = "pass"
        BY <2>1, <2>p, <3>2 DEF GatewayFill, GatewayGate, Goto
      <4> QED
        BY <2>1, <2>v, <2>g, <4>1 DEF Faded
    <3> QED
      BY <2>1, <3>1, <3>2, WaysIn DEF TInv
  <2>2. ASSUME pc[r] = "verifying", pc'[r] = "deciding"
        PROVE  token[r] \notin gone[Service]
    <3>1. CASE ServiceHit(r)
      BY <2>v, <3>1 DEF ServiceHit, Hit, MustAsk, Faded
    <3>2. CASE ServiceFill(r)
      <4>1. ServiceVerdict(r, got[r]) = "pass"
        BY <2>2, <2>p, <3>2 DEF ServiceFill, ServiceGate, Goto
      <4> QED
        BY <2>2, <2>v, <2>s, <4>1 DEF Faded
    <3> QED
      BY <2>2, <3>1, <3>2, WaysIn DEF TInv
  <2> QED
    BY <2>1, <2>2
<1> QED
  BY <1>1, <1>2, FadedStep, TInvHolds, PTL DEF Spec, WithdrawnKeysFade

-----------------------------------------------------------------------------
(* Requests in order *)

\* The key of a request under way is in every ring, and in the document its own
\* fetch was answered with, unless the request is exposed.
Covered ==
  \A r \in Req :
    token[r] \in Key /\ r \notin exposed /\ pc[r] \notin {"idle", "answered"} =>
      /\ \A a \in Auth : token[r] \in Jwks(ring[a])
      /\ look[r] = "answered" => token[r] \in got[r]

\* Every step keeps the keys of unexposed requests covered.
LEMMA CoveredStep == TInv /\ Covered /\ [Next]_vars => Covered'
<1> SUFFICES ASSUME TInv, Covered, [Next]_vars PROVE Covered'
    OBVIOUS
<1>t. PathTypeOK /\ KeyTypeOK /\ Fetching /\ Minted
  BY DEF TInv
<1>p. pc \in [Req -> PC] /\ \A v \in Verifier : Phase(v) \in Phases
  BY <1>t DEF PathTypeOK, Phase, Phases
<1>1. ASSUME NEW r \in Req, KeyMoves(r) PROVE Covered'
  <2> USE <1>p, <1>t DEF KeyTypeOK, Covered, Phases
  <2>1. CASE UNCHANGED <<keyVars, pc>>
    BY <2>1 DEF keyVars, rings, looks
  <2>2. CASE /\ UNCHANGED keyVars /\ look[r] = "none"
             /\ \E from, to \in PC : /\ from \notin {"idle", "answered"} \/ to = "answered"
                                    /\ Goto(r, from, to)
    BY <2>2 DEF keyVars, rings, looks, Goto
  <2>3. CASE Bear(r) /\ Goto(r, "idle", "screening")
    BY <2>3 DEF Bear, rings, looks, Goto, Lacking, Fetching
  <2>4. CASE Serve(r) /\ UNCHANGED pc
    BY <2>4 DEF Serve, rings, Fetching
  <2>5. CASE \E v \in Verifier : pc[r] = Phase(v) /\ Ask(r, v) /\ UNCHANGED pc
    BY <2>5 DEF Ask, rings
  <2>6. CASE \E v \in Verifier : Fill(r, v) /\ \E to \in PC : Goto(r, Phase(v), to)
    BY <2>6 DEF Fill, rings, Goto
  <2>7. CASE FetchRaises(r) /\ \E from, to \in PC : Goto(r, from, to)
    BY <2>7 DEF FetchRaises, rings, Goto, Fetching
  <2> QED
    BY <1>1, <2>1, <2>2, <2>3, <2>4, <2>5, <2>6, <2>7 DEF KeyMoves
<1>2. ASSUME KeysMove, UNCHANGED pc PROVE Covered'
  <2> DEFINE under == {r \in Req : pc[r] \notin {"idle", "answered"}}
  <2>1. CASE Rotate
    BY <1>2, <2>1 DEF Covered, Rotate, looks
  <2>2. ASSUME NEW a \in Auth, NEW new, Install(a, new, under), UNCHANGED <<token, looks>>
        PROVE  Covered'
    BY <1>2, <1>t, <2>2 DEF KeyTypeOK, Covered, Install, Lacking, looks
  <2>3. \A a \in Auth : StartEphemeral(a, under) => Covered'
    BY <2>2 DEF StartEphemeral
  <2>4. \A a \in Auth : StartFromVault(a, under) => Covered'
    BY <2>2 DEF StartFromVault
  <2> QED
    BY <1>2, <2>1, <2>3, <2>4 DEF KeysMove
<1>3. ASSUME NEW v \in Verifier, Expire(v), UNCHANGED pc PROVE Covered'
  BY <1>3 DEF Expire, ExpireCache, Covered, rings, looks
<1>4. CASE UNCHANGED <<keyVars, pc>>
  BY <1>4 DEF Covered, keyVars, rings, looks
<1> QED
  BY <1>t, <1>1, <1>2, <1>3, <1>4, StepKeys

\* Where a request that was not refused becomes so.
LEMMA NewRefusal ==
  ASSUME PathTypeOK, Answered, [Next]_vars, NEW q \in Req, ~Refused(q), Refused(q)'
  PROVE  \/ Screen(q) \/ GatewayHit(q) \/ GatewayFill(q) \/ GatewayFetchRaises(q)
         \/ ServiceHit(q) \/ ServiceFill(q) \/ ServiceFetchRaises(q) \/ HandleRaises(q)
         \/ TurnAway(q) \/ Handle(q)
<1> DEFINE Here == \/ Screen(q) \/ GatewayHit(q) \/ GatewayFill(q)
                   \/ GatewayFetchRaises(q) \/ ServiceHit(q) \/ ServiceFill(q)
                   \/ ServiceFetchRaises(q) \/ HandleRaises(q)
                   \/ TurnAway(q) \/ Handle(q)
<1>h. Hop = {"gateway", "service"}
  BY DEF Hop
<1>s. status' # status
  BY DEF Refused
<1>c. {"403", "200", "502"} \subseteq Status
  BY DEF Status
\* An answer to another request, or one that is no refusal, refuses nothing.
<1>f. ASSUME NEW r \in Req, NEW h \in Hop, NEW s \in Status, Finish(h, r, s),
             r # q \/ s \notin {"401", "500"} \/ s = status["service"][r]
      PROVE  FALSE
  <2>1. /\ status'[h][r] = s
        /\ \A g \in Hop, x \in Req : g # h \/ x # r => status'[g][x] = status[g][x]
    BY <1>f, FinishTyped
  <2> QED
    BY <1>f, <1>h, <2>1 DEF Refused
<1>g. ASSUME NEW r \in Req, NEW from, NEW to, NEW verdict \in Status \cup {"pass"},
             r # q \/ verdict = "403" \/ verdict = "pass",
             GatewayGate(r, from, to, verdict) \/ ServiceGate(r, from, to, verdict)
      PROVE  FALSE
  <2>1. verdict = "pass" \/ verdict \in Status
    BY DEF Status
  <2> QED
    BY <1>g, <1>h, <1>s, <1>f, <2>1, Gates
<1> HIDE DEF Here
<1>1. ASSUME NEW r \in Req, TurnAway(r) PROVE Here
  <2>1. PICK s \in Status : AnsweredOutside("gateway", r, s)
    BY <1>1, Verdicts DEF TurnAway
  <2>2. \A g \in Hop, x \in Req : g # "gateway" \/ x # r => status'[g][x] = status[g][x]
    BY <1>h, <2>1, OutsideTyped
  <2> QED
    BY <1>1, <2>2, <1>h DEF Here, Refused
<1>1s. ASSUME NEW r \in Req, TurnAwayAtService(r) PROVE Here
  <2>1. AnsweredOutside("service", r, "413") /\ "413" \in Status
    BY <1>1s DEF TurnAwayAtService, Status
  <2>2. /\ status'["service"][r] = "413"
        /\ \A g \in Hop, x \in Req : g # "service" \/ x # r => status'[g][x] = status[g][x]
    BY <1>h, <2>1, OutsideTyped
  <2> QED
    BY <2>2, <1>h DEF Refused
<1>2. ASSUME NEW r \in Req, Arrive(r) PROVE Here
  BY <1>2, <1>s DEF Arrive
<1>3. ASSUME NEW r \in Req, Screen(r) PROVE Here
  BY <1>3, <1>g, Verdicts DEF Here, Screen
<1>4. ASSUME NEW r \in Req, GatewayHit(r) PROVE Here
  BY <1>4, <1>g, Verdicts DEF Here, GatewayHit
<1>5. ASSUME NEW r \in Req, GatewayAsk(r) PROVE Here
  BY <1>5, <1>s DEF GatewayAsk, pathVars
<1>6. ASSUME NEW r \in Req, GatewayFill(r) PROVE Here
  BY <1>6, <1>g, Verdicts DEF Here, GatewayFill
<1>7. ASSUME NEW r \in Req, GatewayFetchRaises(r) PROVE Here
  BY <1>7, <1>h, <1>f DEF Here, GatewayFetchRaises, Status
<1>8. ASSUME NEW r \in Req, Forward(r) PROVE Here
  BY <1>8, <1>s DEF Forward
<1>9. ASSUME NEW r \in Req, UpstreamDown(r) PROVE Here
  BY <1>9, <1>h, <1>c, <1>f DEF UpstreamDown
<1>10. ASSUME NEW r \in Req, Relay(r) PROVE Here
  <2>1. status["service"][r] \in Status
    BY <1>10, <1>h DEF Relay, Goto, Answered, PathTypeOK
  <2> QED
    BY <1>10, <1>h, <1>s, <1>f, <2>1 DEF Relay
<1>11. ASSUME NEW r \in Req, ServiceHit(r) PROVE Here
  BY <1>11, <1>g, Verdicts DEF Here, ServiceHit
<1>12. ASSUME NEW r \in Req, ServiceAsk(r) PROVE Here
  BY <1>12, <1>s DEF ServiceAsk, pathVars
<1>13. ASSUME NEW r \in Req, ServiceFill(r) PROVE Here
  BY <1>13, <1>g, Verdicts DEF Here, ServiceFill
<1>14. ASSUME NEW r \in Req, ServiceFetchRaises(r) PROVE Here
  BY <1>14, <1>h, <1>f DEF Here, ServiceFetchRaises, Status
<1>15. ASSUME NEW r \in Req, Decide(r) PROVE Here
  BY <1>15, <1>g DEF Decide, Status
<1>16. ASSUME NEW r \in Req, Handle(r) PROVE Here
  BY <1>16, <1>h, <1>f, Verdicts DEF Here, Handle
<1>17. ASSUME NEW r \in Req, HandleRaises(r) PROVE Here
  BY <1>17, <1>h, <1>f DEF Here, HandleRaises, Status
<1>18. ASSUME NEW r \in Req, ServeJwks(r) PROVE Here
  BY <1>18, <1>s DEF ServeJwks, pathVars
<1>19. ASSUME NEW r \in Req, GiveUp(r) PROVE Here
  BY <1>19, <1>h, <1>c, <1>f DEF GiveUp
<1>20. ASSUME NEW r \in Req, ExpireToken(r) PROVE Here
  BY <1>20, <1>s DEF ExpireToken
<1>21. (\E v \in Verifier : Expire(v)) \/ KeysMove \/ UNCHANGED vars => Here
  BY <1>s DEF Expire, KeysMove, pathVars, vars
<1>22. Here
  BY <1>1, <1>2, <1>3, <1>4, <1>5, <1>6, <1>7, <1>8, <1>9, <1>10, <1>11, <1>12,
     <1>13, <1>14, <1>15, <1>16, <1>17, <1>18, <1>19, <1>20, <1>21, <1>1s
  DEF Next, Step, Quiescent
<1> QED
  BY <1>22 DEF Here

\* The token of a request that has arrived stays, and exposure is never undone.
LEMMA ExposureStays ==
  ASSUME PathTypeOK, KeyTypeOK, Fetching, [Next]_vars
  PROVE  /\ exposed \subseteq exposed'
         /\ \A q \in Req : pc[q] # "idle" => token'[q] = token[q]
<1>1. ASSUME NEW r \in Req, KeyMoves(r)
      PROVE  /\ exposed \subseteq exposed'
             /\ \A q \in Req : pc[q] # "idle" => token'[q] = token[q]
  BY <1>1
     DEF KeyMoves, keyVars, rings, looks, Bear, Serve, Ask, Fill, FetchRaises,
              Goto, KeyTypeOK
<1>2. CASE KeysMove
  BY <1>2 DEF KeysMove, Rotate, StartFromVault, StartEphemeral, Install
<1>3. CASE \E v \in Verifier : Expire(v)
  BY <1>3 DEF Expire, ExpireCache
<1>4. CASE UNCHANGED <<keyVars, pc>>
  BY <1>4 DEF keyVars
<1> QED
  BY <1>1, <1>2, <1>3, <1>4, StepKeys

\* A valid access token is refused, at the gateway or at the service, only if the
\* rings differed about its key: neither the age of a cache nor an older document
\* that another handler put there is ever the reason (JWKSCache.get).
THEOREM RefusalsHaveACause == Spec => []RefusedForCause
<1>1. Init => Covered /\ RefusedForCause
  BY DEF Init, KeyInit, Covered, RefusedForCause, InOrder
<1>2. TInv /\ Covered /\ RefusedForCause /\ [Next]_vars => RefusedForCause'
  <2> SUFFICES ASSUME TInv, Covered, RefusedForCause, [Next]_vars,
                      NEW q \in Req, InOrder(q)', Refused(q)'
               PROVE  q \in exposed'
    BY DEF RefusedForCause
  <2>t. PathTypeOK /\ KeyTypeOK /\ Answered /\ Fetching
    BY DEF TInv
  <2>o. /\ exposed \subseteq exposed' /\ call' = call
        /\ expired \subseteq expired' /\ failed \subseteq failed'
        /\ \A h \in Hop : away[h] \subseteq away'[h]
        /\ pc[q] # "idle" => token'[q] = token[q]
    BY <2>t, ExposureStays, OthersStep
  <2>i. pc[q] # "idle" => InOrder(q)
    BY <2>o DEF InOrder
  <2>1. CASE Refused(q)
    <3>1. pc[q] # "idle"
      BY <2>1, <2>t DEF Refused, Answered, Early, Hop
    <3> QED
      BY <2>1, <2>i, <2>o, <3>1 DEF RefusedForCause
  <2>2. CASE ~Refused(q)
    <3>1. /\ ~Screen(q) /\ ~GatewayFetchRaises(q) /\ ~ServiceFetchRaises(q)
          /\ ~HandleRaises(q) /\ ~TurnAway(q) /\ ~Handle(q)
      <4>1. ~Screen(q)
        <5>1. Screened(call[q]) = "pass"
          BY <2>o DEF InOrder
        <5>2. GatewayGate(q, "screening", IF RequiresAuth(call[q].path)
                            THEN "authenticating" ELSE "forwarding", "pass") =>
                UNCHANGED <<status, count>>
          BY Gates
        <5> QED
          BY <2>2, <5>1, <5>2 DEF Screen, Refused
      <4>2. q \notin failed'
        BY DEF InOrder
      <4>3. ~TurnAway(q)
        BY <2>t DEF InOrder, TurnAway, AnsweredOutside, Hop, PathTypeOK
      <4>4. ~Handle(q)
        <5>1. RouteAnswers(call[q].path) \cap {"401", "500"} = {}
          BY <2>o DEF InOrder, RouteAnswers, RequiresAuth
        <5>2. ASSUME NEW s \in RouteAnswers(call[q].path), Finish("service", q, s)
              PROVE  FALSE
          <6>1. s \in Status /\ "service" \in Hop
            BY Verdicts DEF Hop
          <6>2. /\ status'["service"][q] = s
                /\ \A g \in Hop, x \in Req :
                     g # "service" \/ x # q => status'[g][x] = status[g][x]
            BY <2>t, <5>2, <6>1, FinishTyped
          <6> QED
            BY <2>2, <5>1, <6>2 DEF Refused
        <5> QED
          BY <5>2 DEF Handle
      <4> QED
        BY <4>1, <4>2, <4>3, <4>4
           DEF GatewayFetchRaises, ServiceFetchRaises, HandleRaises, Fails
    <3>2. GatewayHit(q) \/ GatewayFill(q) \/ ServiceHit(q) \/ ServiceFill(q)
      BY <2>t, <2>2, <3>1, NewRefusal
    <3>3. pc[q] \in {"authenticating", "verifying"}
      BY <3>2, Gates DEF GatewayHit, GatewayFill, ServiceHit, ServiceFill, Goto
    <3>4. InOrder(q)
      BY <2>i, <3>3
    <3>5. ASSUME NEW keys, token[q] \in keys
          PROVE  GatewayVerdict(q, keys) = "pass" /\ ServiceVerdict(q, keys) = "pass"
      BY <3>4, <3>5 DEF InOrder, GatewayVerdict, ServiceVerdict
    <3>6. ASSUME NEW keys, token[q] \in keys, NEW to,
                 \/ GatewayGate(q, "authenticating", to, GatewayVerdict(q, keys))
                 \/ ServiceGate(q, "verifying", to, ServiceVerdict(q, keys))
          PROVE  FALSE
      BY <2>2, <3>5, <3>6, Gates DEF Refused
    <3>7. GatewayFill(q) \/ ServiceFill(q)
      BY <3>2, <3>6 DEF GatewayHit, ServiceHit, Hit, MustAsk
    <3>8. look[q] = "answered" /\ token[q] \notin got[q]
      BY <3>6, <3>7 DEF GatewayFill, ServiceFill, Fill
    <3> QED
      BY <2>o, <3>3, <3>4, <3>8 DEF Covered, InOrder
  <2> QED
    BY <2>1, <2>2
<1> QED
  BY <1>1, <1>2, CoveredStep, TInvHolds, PTL DEF Spec

-----------------------------------------------------------------------------
(* The policies *)

\* No transfer the handler's own gate lets pass is refused by the policy for
\* want of MFA, whatever threshold the gate has: a customer who is told to step
\* up and does so gets no 403 from the sidecar, and one below the threshold
\* neither.
THEOREM GateImpliesPolicy ==
  ASSUME NEW c \in Claims, "customer" \in c.roles, NEW amount \in Nat \ {0},
         GatePasses(c, amount)
  PROVE  Allow(TransferQuery(c, amount))
<1>1. CASE amount <= Rupees(10000)
  BY <1>1, SMT DEF Allow, TransferQuery, Query, IsCustomer, Rupees
<1>2. CASE ~(amount <= Rupees(10000))
  <2>1. Threshold \in Int /\ Threshold <= Rupees(10000)
    BY PoliciesAssumption DEF Rupees
  <2>2. amount > Rupees(10000) /\ amount >= Threshold
    BY <1>2, <2>1 DEF Rupees
  <2>3. c.mfa
    BY <2>2 DEF GatePasses, StepUpRequired
  <2>4. /\ TransferQuery(c, amount).claims = c
        /\ TransferQuery(c, amount).action = "transfer"
        /\ TransferQuery(c, amount).amount = amount
    BY DEF TransferQuery, Query
  <2>5. /\ IsCustomer(TransferQuery(c, amount))
        /\ TransferQuery(c, amount).amount > Rupees(10000)
        /\ TransferQuery(c, amount).claims.mfa
    <3>1. IsCustomer(TransferQuery(c, amount))
      BY <2>4 DEF IsCustomer
    <3>2. TransferQuery(c, amount).amount > Rupees(10000)
      BY <2>2, <2>4
    <3>3. TransferQuery(c, amount).claims.mfa
      BY <2>3, <2>4, Zenon
    <3> QED
      BY <3>1, <3>2, <3>3
  <2> QED
    BY <2>4, <2>5 DEF Allow
<1> QED
  BY <1>1, <1>2

\* An administrator who is no customer may read and nothing else: none of the
\* inputs the services send for money or accounts is allowed.
THEOREM AdminsMoveNoMoney ==
  ASSUME NEW c \in Claims, "customer" \notin c.roles
  PROVE  /\ ~Allow(CreateQuery(c))
         /\ \A op \in {"credit", "debit"} : ~Allow(MutateQuery(c, op))
         /\ \A amount \in Int : ~Allow(TransferQuery(c, amount))
  BY DEF Allow, IsCustomer, CreateQuery, MutateQuery, TransferQuery, Query

\* A transfer that got past the gate and scores 0.4 or more was made by a
\* session that had shown a second factor: the score's first step and the gate
\* look at the same amount.
THEOREM RiskyMeansStepUp ==
  ASSUME NEW c \in Claims, NEW amount \in Nat, NEW first \in BOOLEAN,
         NEW hour \in 0 .. 23, GatePasses(c, amount),
         FastScore(amount, first, hour) >= 4
  PROVE  c.mfa
<1>1. amount >= Rupees(10000)
  BY DEF FastScore, Rupees
<1>2. amount >= Threshold
  BY <1>1, PoliciesAssumption DEF Rupees
<1> QED
  BY <1>2 DEF GatePasses, StepUpRequired

\* A larger transfer never scores less, and a score is between 0 and 1.
THEOREM RiskGrows ==
  ASSUME NEW a \in Nat, NEW b \in Nat, a <= b, NEW first \in BOOLEAN,
         NEW hour \in 0 .. 23
  PROVE  /\ FastScore(a, first, hour) \in 0 .. 10
         /\ FastScore(a, first, hour) <= FastScore(b, first, hour)
  BY DEF FastScore, Rupees

\* A level is one of four numbers.
LEMMA LevelsAreNumbers == \A name : LevelValue(name) \in 0 .. 3
<1> SUFFICES ASSUME NEW name PROVE LevelValue(name) \in 0 .. 3
  OBVIOUS
<1>1. CASE \E i \in 1 .. 4 : levels[i] = name
  <2>1. (CHOOSE i \in 1 .. 4 : levels[i] = name) \in 1 .. 4
    BY <1>1
  <2> QED
    BY <1>1, <2>1 DEF LevelValue
<1> QED
  BY <1>1 DEF LevelValue

\* Nothing flows down: whoever may read one resource and write another, the
\* second is classified at least as high; and so for a chain of two, hence of
\* any number.
THEOREM NoFlowDown ==
  ASSUME NEW s, NEW t, NEW from, NEW via, NEW to,
         AllowRead(s, from), AllowWrite(s, via), AllowRead(t, via), AllowWrite(t, to)
  PROVE  /\ LevelValue(from) <= LevelValue(via)
         /\ LevelValue(from) <= LevelValue(to)
<1>1. \A name \in {s, t, from, via, to} : LevelValue(name) \in Int
  BY LevelsAreNumbers
<1> QED
  BY <1>1 DEF AllowRead, AllowWrite

\* A transformation procedure is refused exactly when there is a reason to log.
THEOREM DenialIsExplained ==
  ASSUME NEW i \in TpInput
  PROVE  AllowTp(i) <=> DenyReason(i) = ""
  BY DEF AllowTp, DenyReason, Whitelisted, RoleMayRun

\* Nobody moves a million rupees alone, and nobody freezes his own account or
\* opens a freeze again with the role he froze it with.
THEOREM SeparationOfDuty ==
  ASSUME NEW i \in TpInput, NEW j \in TpInput, AllowTp(i), AllowTp(j)
  PROVE  /\ i.tp = "transfer_funds" /\ i.amount >= Rupees(1000000) =>
              i.approver \in Subject \ {i.sub}
         /\ i.tp = "freeze_account" /\ j.tp = "unfreeze_account" =>
              i.role # j.role /\ i.owner # i.sub
<1>1. i.approver \in Subject \cup {Absent}
  BY DEF TpInput
<1>2. i.tp = "transfer_funds" /\ i.amount >= Rupees(1000000) =>
        i.approver \in Subject \ {i.sub}
  BY <1>1 DEF AllowTp, SeparationOfDutyOk
<1>3. ASSUME i.tp = "freeze_account", j.tp = "unfreeze_account"
      PROVE  i.role # j.role /\ i.owner # i.sub
  BY <1>3 DEF AllowTp, RoleMayRun, TpSpecificCheck, tp_roles
<1> QED
  BY <1>2, <1>3

\* Every account number gets two check digits, and with them an IBAN a bank
\* accepts.
THEOREM IbansAreValid ==
  ASSUME NEW n \in Nat, (n % 100) = 0
  PROVE  CheckDigits(n) \in 2 .. 98 /\ ValidIban(n, CheckDigits(n))
<1>1. n % 97 \in 0 .. 96
  OBVIOUS
<1>2. (n + (98 - (n % 97))) % 97 = 1
  BY <1>1
<1> QED
  BY <1>1, <1>2 DEF CheckDigits, ValidIban
=============================================================================
