----------------------- MODULE RefreshSessions_proofs -----------------------
(***************************************************************************)
(* Proofs about RefreshSessions for every set of sessions, tokens,         *)
(* requests and session keys, and every combination of faults.             *)
(***************************************************************************)
EXTENDS RefreshSessions, TLAPS

-----------------------------------------------------------------------------
(* Types                                                                    *)

\* A handler that creates a session or has read its token works on one.
WorksOn == {"tokening", "burning", "marking", "issuing", "looking", "sliding",
            "discarding", "granting"}

\* A handler has the session and the token its place in the code implies, and
\* only what was issued has a value in Redis.
Shape ==
  /\ \A r \in Req : /\ pc[r] \in WorksOn => sid[r] \in Sid
                    /\ pc[r] \in {"idle", "reading"} => sid[r] = NoSid
                    /\ pc[r] \in {"reading", "burning", "marking"} => tok[r] \in issued
                    /\ pc[r] \in {"burning", "marking"} => family[tok[r]] = sid[r]
  /\ \A t \in Token : /\ state[t] # "absent" => t \in issued
                      /\ t \in issued => family[t] \in created
  /\ sess \cup revoked \subseteq created

Typed == TypeOK /\ Shape

\* The initial states are typed.
LEMMA TypeInit == Init => Typed
  BY RefreshSessionsAssumption
     DEF Init, Typed, TypeOK, Shape, WorksOn, issued, created, TokenState, PC,
         InFlight, Answer

\* What issuing a token does: one token that was none gets its session.
LEMMA IssueEffect ==
  ASSUME TypeOK, NEW s \in Sid, Issue(s)
  PROVE  \E t \in Token :
           /\ family[t] = NoSid
           /\ family' = [family EXCEPT ![t] = s]
           /\ state'  = [state EXCEPT ![t] = "live"]
  BY DEF Issue, issued, TypeOK

\* Every step of every handler, and every expiry, keeps the types.
LEMMA TypeStep == Typed /\ [Next]_vars => TypeOK'
<1> SUFFICES ASSUME Typed, [Next]_vars PROVE TypeOK'
  OBVIOUS
<1> USE RefreshSessionsAssumption
        DEF Typed, TypeOK, Shape, WorksOn, PC, InFlight, Answer, TokenState,
            tokens, history
<1>1. ASSUME NEW r \in Req, CreateSession(r) PROVE TypeOK'
  BY <1>1 DEF CreateSession, Goto, created
<1>2. ASSUME NEW r \in Req, FirstToken(r) PROVE TypeOK'
  <2>1. sid[r] \in Sid /\ Issue(sid[r])
    BY <1>2 DEF FirstToken, Reply, Goto
  <2>. QED
    BY <1>2, <2>1, IssueEffect DEF FirstToken, Reply, Goto
<1>3. ASSUME NEW r \in Req, NEW t \in issued, Present(r, t) PROVE TypeOK'
  <2>1. t \in Token
    BY <1>3 DEF issued
  <2>. QED
    BY <1>3, <2>1 DEF Present, Goto
<1>4. ASSUME NEW r \in Req, TokenGone(r) PROVE TypeOK'
  BY <1>4 DEF TokenGone, Reply, Goto
<1>5. ASSUME NEW r \in Req, ReadToken(r) PROVE TypeOK'
  <2>1. tok[r] \in Token /\ family[tok[r]] \in Sid
    BY <1>5, ZenonT(40) DEF ReadToken, issued
  <2>2. /\ \E to \in PC : pc' = [pc EXCEPT ![r] = to]
        /\ sid' = [sid EXCEPT ![r] = family[tok[r]]]
        /\ raced' \in {raced, raced \cup {family[tok[r]]}}
        /\ UNCHANGED <<sess, sealed, state, family, tok, at, answer, revoked, held>>
    BY <1>5 DEF ReadToken, Goto
  <2>. QED
    BY <2>1, <2>2
<1>6. ASSUME NEW r \in Req, Burn(r) PROVE TypeOK'
  BY <1>6 DEF Burn, Reply, Goto, SetState, issued
<1>7. ASSUME NEW r \in Req, MarkUsed(r) PROVE TypeOK'
  BY <1>7 DEF MarkUsed, Goto, SetState, issued
<1>8. ASSUME NEW r \in Req, IssueNext(r) PROVE TypeOK'
  <2>1. sid[r] \in Sid /\ Issue(sid[r])
    BY <1>8 DEF IssueNext, Goto
  <2>. QED
    BY <1>8, <2>1, IssueEffect DEF IssueNext, Goto
<1>9. ASSUME NEW r \in Req, SessionGone(r) PROVE TypeOK'
  BY <1>9 DEF SessionGone, Reply, Goto
<1>10. ASSUME NEW r \in Req, ReadSession(r) PROVE TypeOK'
  BY <1>10 DEF ReadSession, Goto
<1>11. ASSUME NEW r \in Req, Undecryptable(r) PROVE TypeOK'
  BY <1>11 DEF Undecryptable, Goto
<1>12. ASSUME NEW r \in Req, Discard(r) PROVE TypeOK'
  BY <1>12 DEF Discard, Reply, Goto
<1>13. ASSUME NEW r \in Req, Slide(r) PROVE TypeOK'
  BY <1>13 DEF Slide, Goto
<1>14. ASSUME NEW r \in Req, Grant(r) PROVE TypeOK'
  BY <1>14 DEF Grant, Reply, Goto
<1>15. ASSUME NEW r \in Req, NEW s \in created, Logout(r, s) PROVE TypeOK'
  BY <1>15 DEF Logout, Reply, Goto, created
<1>16. ASSUME NEW r \in Req, Fail(r) PROVE TypeOK'
  BY <1>16 DEF Fail, Reply, Goto
<1>17. ASSUME NEW s \in Sid, ExpireSession(s) PROVE TypeOK'
  BY <1>17 DEF ExpireSession
<1>18. ASSUME NEW t \in Token, ExpireToken(t) PROVE TypeOK'
  BY <1>18 DEF ExpireToken, SetState
<1>19. CASE UNCHANGED vars
  BY <1>19 DEF vars
<1>. QED
  BY <1>1, <1>2, <1>3, <1>4, <1>5, <1>6, <1>7, <1>8, <1>9, <1>10, <1>11,
     <1>12, <1>13, <1>14, <1>15, <1>16, <1>17, <1>18, <1>19 DEF Next, Quiescent

\* A session once created stays so: a handler gets its session once.
LEMMA CreatedAfter ==
  ASSUME Typed, NEW r \in Req, NEW s \in Sid, sid[r] = NoSid,
         sid' = [sid EXCEPT ![r] = s]
  PROVE  created' = created \cup {s}
  BY RefreshSessionsAssumption DEF Typed, TypeOK, created

\* A token given a family is one more issued.
LEMMA IssuedAfter ==
  ASSUME Typed, NEW t \in Token, NEW s \in Sid, family[t] = NoSid,
         family' = [family EXCEPT ![t] = s]
  PROVE  issued' = issued \cup {t} /\ t \notin issued
  BY RefreshSessionsAssumption DEF Typed, TypeOK, issued

\* A step that names no session creates none.
LEMMA NothingCreated == UNCHANGED sid => created' = created
  BY DEF created

\* A step that gives no token a family issues none.
LEMMA NothingIssued == UNCHANGED family => issued' = issued
  BY DEF issued

\* Every step keeps the shape of handlers and tokens.
LEMMA ShapeStep == Typed /\ [Next]_vars => Shape'
<1> SUFFICES ASSUME Typed, [Next]_vars PROVE Shape'
  OBVIOUS
<1> USE RefreshSessionsAssumption, NothingCreated, NothingIssued
        DEF Typed, TypeOK, Shape, WorksOn, InFlight, tokens, history
<1>0. issued \subseteq Token /\ created \subseteq Sid
  BY DEF issued, created
<1>1. ASSUME NEW r \in Req, CreateSession(r) PROVE Shape'
  <2>1. PICK s \in Sid : /\ sess' = sess \cup {s}
                         /\ sid' = [sid EXCEPT ![r] = s]
    BY <1>1 DEF CreateSession, Goto
  <2>2. created' = created \cup {s}
    BY <1>1, <2>1, CreatedAfter DEF CreateSession, Goto
  <2>. QED
    BY <1>0, <1>1, <2>1, <2>2 DEF CreateSession, Goto
<1>2. ASSUME NEW r \in Req, FirstToken(r) PROVE Shape'
  <2>1. sid[r] \in Sid /\ Issue(sid[r])
    BY <1>2 DEF FirstToken, Reply, Goto
  <2>2. PICK t \in Token : /\ family[t] = NoSid
                           /\ family' = [family EXCEPT ![t] = sid[r]]
                           /\ state'  = [state EXCEPT ![t] = "live"]
    BY <2>1, IssueEffect
  <2>3. issued' = issued \cup {t} /\ t \notin issued
    BY <2>1, <2>2, IssuedAfter
  <2>4. sid[r] \in created
    BY <2>1 DEF created
  <2>. QED
    BY <1>0, <1>2, <2>1, <2>2, <2>3, <2>4 DEF FirstToken, Reply, Goto
<1>3. ASSUME NEW r \in Req, NEW t \in issued, Present(r, t) PROVE Shape'
  BY <1>0, <1>3 DEF Present, Goto
<1>4. ASSUME NEW r \in Req, TokenGone(r) PROVE Shape'
  BY <1>0, <1>4 DEF TokenGone, Reply, Goto
<1>5. ASSUME NEW r \in Req, ReadToken(r) PROVE Shape'
  <2>1. tok[r] \in issued /\ family[tok[r]] \in created
    BY <1>0, <1>5 DEF ReadToken, Goto
  <2>2. created' = created \cup {family[tok[r]]}
    BY <1>0, <1>5, <2>1, CreatedAfter DEF ReadToken, Goto
  <2>. QED
    BY <1>0, <1>5, <2>1, <2>2 DEF ReadToken, Goto
<1>6. ASSUME NEW r \in Req, Burn(r) PROVE Shape'
  BY <1>0, <1>6 DEF Burn, Reply, Goto, SetState
<1>7. ASSUME NEW r \in Req, MarkUsed(r) PROVE Shape'
  BY <1>0, <1>7 DEF MarkUsed, Goto, SetState
<1>8. ASSUME NEW r \in Req, IssueNext(r) PROVE Shape'
  <2>1. sid[r] \in Sid /\ Issue(sid[r])
    BY <1>8 DEF IssueNext, Goto
  <2>2. PICK t \in Token : /\ family[t] = NoSid
                           /\ family' = [family EXCEPT ![t] = sid[r]]
                           /\ state'  = [state EXCEPT ![t] = "live"]
    BY <2>1, IssueEffect
  <2>3. issued' = issued \cup {t} /\ t \notin issued
    BY <2>1, <2>2, IssuedAfter
  <2>4. sid[r] \in created
    BY <2>1 DEF created
  <2>. QED
    BY <1>0, <1>8, <2>1, <2>2, <2>3, <2>4 DEF IssueNext, Goto
<1>9. ASSUME NEW r \in Req, SessionGone(r) PROVE Shape'
  BY <1>0, <1>9 DEF SessionGone, Reply, Goto
<1>10. ASSUME NEW r \in Req, ReadSession(r) PROVE Shape'
  BY <1>0, <1>10 DEF ReadSession, Goto
<1>11. ASSUME NEW r \in Req, Undecryptable(r) PROVE Shape'
  BY <1>0, <1>11 DEF Undecryptable, Goto
<1>12. ASSUME NEW r \in Req, Discard(r) PROVE Shape'
  <2>1. sid[r] \in created
    BY <1>12 DEF Discard, Reply, Goto, created
  <2>. QED
    BY <1>0, <1>12, <2>1 DEF Discard, Reply, Goto
<1>13. ASSUME NEW r \in Req, Slide(r) PROVE Shape'
  <2>1. sid[r] \in created
    BY <1>13 DEF Slide, Goto, created
  <2>. QED
    BY <1>0, <1>13, <2>1 DEF Slide, Goto
<1>14. ASSUME NEW r \in Req, Grant(r) PROVE Shape'
  BY <1>0, <1>14 DEF Grant, Reply, Goto
<1>15. ASSUME NEW r \in Req, NEW s \in created, Logout(r, s) PROVE Shape'
  <2>1. created' = created \cup {s}
    BY <1>0, <1>15, CreatedAfter DEF Logout, Reply, Goto
  <2>. QED
    BY <1>0, <1>15, <2>1 DEF Logout, Reply, Goto
<1>16. ASSUME NEW r \in Req, Fail(r) PROVE Shape'
  BY <1>0, <1>16 DEF Fail, Reply, Goto
<1>17. ASSUME NEW s \in Sid, ExpireSession(s) PROVE Shape'
  BY <1>0, <1>17 DEF ExpireSession
<1>18. ASSUME NEW t \in Token, ExpireToken(t) PROVE Shape'
  BY <1>0, <1>18 DEF ExpireToken, SetState
<1>19. CASE UNCHANGED vars
  BY <1>19 DEF vars
<1>. QED
  BY <1>1, <1>2, <1>3, <1>4, <1>5, <1>6, <1>7, <1>8, <1>9, <1>10, <1>11,
     <1>12, <1>13, <1>14, <1>15, <1>16, <1>17, <1>18, <1>19 DEF Next, Quiescent

\* Types and shape hold throughout.
LEMMA TypedAlways == Spec => []Typed
<1>1. Typed /\ [Next]_vars => Typed'
  BY TypeStep, ShapeStep DEF Typed
<1>. QED
  BY <1>1, TypeInit, PTL DEF Spec

\* Spec keeps every variable in its type.
THEOREM TypeCorrect == Spec => []TypeOK
<1>1. Typed => TypeOK
  BY DEF Typed
<1>. QED
  BY <1>1, TypedAlways, PTL

-----------------------------------------------------------------------------
(* Logout                                                                   *)

\* Once a session is deleted while no refresh holds a copy of it, no refresh
\* can get one, so that nothing writes it again.
GoneForGood ==
  \A s \in revoked \ held :
    /\ s \notin sess
    /\ \A r \in Req : ~(pc[r] = "sliding" /\ sid[r] = s)

\* Every step leaves a session that is gone alone.
LEMMA GoneStep == Typed /\ GoneForGood /\ [Next]_vars => GoneForGood'
<1> SUFFICES ASSUME Typed, GoneForGood, [Next]_vars PROVE GoneForGood'
  OBVIOUS
<1> USE RefreshSessionsAssumption
        DEF Typed, TypeOK, Shape, WorksOn, InFlight, tokens, history, GoneForGood
<1>1. ASSUME NEW r \in Req, CreateSession(r) PROVE GoneForGood'
  <2>1. PICK s \in Sid \ created : /\ sess' = sess \cup {s}
                                   /\ sid' = [sid EXCEPT ![r] = s]
    BY <1>1 DEF CreateSession, Goto
  <2>2. s \notin revoked
    BY <2>1
  <2>. QED
    BY <1>1, <2>1, <2>2 DEF CreateSession, Goto
<1>2. ASSUME NEW r \in Req, FirstToken(r) PROVE GoneForGood'
  BY <1>2 DEF FirstToken, Reply, Goto
<1>3. ASSUME NEW r \in Req, NEW t \in issued, Present(r, t) PROVE GoneForGood'
  BY <1>3 DEF Present, Goto
<1>4. ASSUME NEW r \in Req, TokenGone(r) PROVE GoneForGood'
  BY <1>4 DEF TokenGone, Reply, Goto
<1>5. ASSUME NEW r \in Req, ReadToken(r) PROVE GoneForGood'
  BY <1>5 DEF ReadToken, Goto
<1>6. ASSUME NEW r \in Req, Burn(r) PROVE GoneForGood'
  BY <1>6 DEF Burn, Reply, Goto, SetState
<1>7. ASSUME NEW r \in Req, MarkUsed(r) PROVE GoneForGood'
  BY <1>7 DEF MarkUsed, Goto, SetState
<1>8. ASSUME NEW r \in Req, IssueNext(r) PROVE GoneForGood'
  BY <1>8 DEF IssueNext, Goto
<1>9. ASSUME NEW r \in Req, SessionGone(r) PROVE GoneForGood'
  BY <1>9 DEF SessionGone, Reply, Goto
<1>10. ASSUME NEW r \in Req, ReadSession(r) PROVE GoneForGood'
  BY <1>10 DEF ReadSession, Goto
<1>11. ASSUME NEW r \in Req, Undecryptable(r) PROVE GoneForGood'
  BY <1>11 DEF Undecryptable, Goto
<1>12. ASSUME NEW r \in Req, Discard(r) PROVE GoneForGood'
  BY <1>12 DEF Discard, Reply, Goto
<1>13. ASSUME NEW r \in Req, Slide(r) PROVE GoneForGood'
  BY <1>13 DEF Slide, Goto
<1>14. ASSUME NEW r \in Req, Grant(r) PROVE GoneForGood'
  BY <1>14 DEF Grant, Reply, Goto
<1>15. ASSUME NEW r \in Req, NEW s \in created, Logout(r, s) PROVE GoneForGood'
  <2>1. s \in Sid
    BY DEF created
  <2>. QED
    BY <1>15, <2>1 DEF Logout, Reply, Goto
<1>16. ASSUME NEW r \in Req, Fail(r) PROVE GoneForGood'
  BY <1>16 DEF Fail, Reply, Goto
<1>17. ASSUME NEW s \in Sid, ExpireSession(s) PROVE GoneForGood'
  BY <1>17 DEF ExpireSession
<1>18. ASSUME NEW t \in Token, ExpireToken(t) PROVE GoneForGood'
  BY <1>18 DEF ExpireToken, SetState
<1>19. CASE UNCHANGED vars
  BY <1>19 DEF vars
<1>. QED
  BY <1>1, <1>2, <1>3, <1>4, <1>5, <1>6, <1>7, <1>8, <1>9, <1>10, <1>11,
     <1>12, <1>13, <1>14, <1>15, <1>16, <1>17, <1>18, <1>19 DEF Next, Quiescent

\* A logout that no refresh overlapped ends the session for good, whatever
\* refreshes and logins come later (sessions.py, delete).
THEOREM LogoutEnds == Spec => []LogoutIsFinal
<1>1. Init => GoneForGood
  BY DEF Init, GoneForGood
<1>2. Typed /\ GoneForGood /\ [Next]_vars => GoneForGood'
  BY GoneStep
<1>3. GoneForGood => LogoutIsFinal
  BY DEF GoneForGood, LogoutIsFinal
<1>. QED
  BY <1>1, <1>2, <1>3, TypedAlways, PTL DEF Spec

-----------------------------------------------------------------------------
(* Rotation                                                                 *)

\* The handlers that will issue a token for session s.
Issuing(r, s)  == pc[r] \in {"tokening", "issuing"} /\ sid[r] = s
Rotating(r, s) == pc[r] = "marking" /\ sid[r] = s
Live(t, s)     == state[t] = "live" /\ family[t] = s

\* Outside races a session has one thing at most that is a live token or will
\* lead to one: a live token nobody is rotating, the live token a handler is
\* rotating together with that handler, or a handler about to issue one.
OneStake(s) ==
  /\ \A t, u \in Token : Live(t, s) /\ Live(u, s) => t = u
  /\ \A q, r \in Req :
       /\ Issuing(q, s) \/ Rotating(q, s)
       /\ Issuing(r, s) \/ Rotating(r, s)
       => q = r
  /\ \A r \in Req : \A t \in Token : ~(Issuing(r, s) /\ Live(t, s))
  /\ \A r \in Req : \A t \in Token : Rotating(r, s) /\ Live(t, s) => tok[r] = t

Stakes == \A s \in Sid \ raced : OneStake(s)

\* Every step passes a session's stake on, or names the race.
LEMMA StakesStep == Typed /\ Stakes /\ [Next]_vars => Stakes'
<1> SUFFICES ASSUME Typed, Stakes, [Next]_vars PROVE Stakes'
  OBVIOUS
<1> USE RefreshSessionsAssumption
        DEF Typed, TypeOK, Shape, WorksOn, InFlight, tokens, history, Stakes, OneStake,
            Issuing, Rotating, Live
<1>1. ASSUME NEW r \in Req, CreateSession(r) PROVE Stakes'
  <2>1. PICK s \in Sid \ created : sid' = [sid EXCEPT ![r] = s]
    BY <1>1 DEF CreateSession, Goto
  <2>2. /\ \A q \in Req : sid[q] # s
        /\ \A t \in Token : ~Live(t, s)
    BY <2>1 DEF created, issued
  <2>. QED
    BY <1>1, <2>1, <2>2 DEF CreateSession, Goto
<1>2. ASSUME NEW r \in Req, FirstToken(r) PROVE Stakes'
  <2>1. sid[r] \in Sid /\ Issue(sid[r])
    BY <1>2 DEF FirstToken, Reply, Goto
  <2>2. PICK t \in Token : /\ family[t] = NoSid
                           /\ family' = [family EXCEPT ![t] = sid[r]]
                           /\ state'  = [state EXCEPT ![t] = "live"]
    BY <2>1, IssueEffect
  <2>. QED
    BY <1>2, <2>1, <2>2 DEF FirstToken, Reply, Goto
<1>3. ASSUME NEW r \in Req, NEW t \in issued, Present(r, t) PROVE Stakes'
  <2>1. t \in Token
    BY DEF issued
  <2>. QED
    BY <1>3, <2>1 DEF Present, Goto
<1>4. ASSUME NEW r \in Req, TokenGone(r) PROVE Stakes'
  BY <1>4 DEF TokenGone, Reply, Goto
<1>5. ASSUME NEW r \in Req, ReadToken(r) PROVE Stakes'
  <2>1. tok[r] \in Token /\ family[tok[r]] \in Sid
    BY <1>5, ZenonT(40) DEF ReadToken, Goto, issued
  <2>2. PICK t \in Token : t = tok[r]
    BY <2>1
  <2>3. PICK s \in Sid : s = family[t]
    BY <2>1, <2>2
  <2>4. /\ pc[r] = "reading" /\ state[t] # "absent"
        /\ pc' = [pc EXCEPT ![r] = IF state[t] = "used" THEN "burning" ELSE "marking"]
        /\ sid' = [sid EXCEPT ![r] = s]
        /\ raced \subseteq raced'
        /\ s \notin raced' =>
             /\ state[t] # "compromised"
             /\ \A q \in Req \ {r} : ~(pc[q] = "marking" /\ tok[q] = t)
        /\ UNCHANGED <<state, family, tok>>
    BY <1>5, <2>1, <2>2, <2>3 DEF ReadToken, Goto
  <2>5. ASSUME NEW z \in Sid \ raced', z # s \/ state[t] = "used"
        PROVE  OneStake(z)'
    BY <2>4, <2>5
  <2>6. ASSUME s \notin raced', state[t] # "used"
        PROVE  OneStake(s)'
    <3>1. s \in Sid \ raced /\ Live(t, s)
      <4>1. state[t] = "live"
        BY <2>4, <2>6 DEF TokenState
      <4>. QED
        BY <2>3, <2>4, <2>6, <4>1
    <3>2. \A q \in Req : ~Issuing(q, s) /\ ~Rotating(q, s)
      BY <3>1, <2>4, <2>6
    <3>3. /\ \A q \in Req : ~Issuing(q, s)'
          /\ \A q \in Req \ {r} : ~Rotating(q, s)'
          /\ \A u \in Token : Live(u, s)' => u = t
      BY <3>1, <3>2, <2>4
    <3>. QED
      BY <2>2, <2>4, <3>3
  <2>. QED
    BY <2>5, <2>6
<1>6. ASSUME NEW r \in Req, Burn(r) PROVE Stakes'
  <2>1. tok[r] \in Token
    BY <1>6 DEF Burn, Reply, Goto, SetState, issued
  <2>. QED
    BY <1>6, <2>1 DEF Burn, Reply, Goto, SetState
<1>7. ASSUME NEW r \in Req, MarkUsed(r) PROVE Stakes'
  <2>1. tok[r] \in Token
    BY <1>7 DEF MarkUsed, Goto, SetState, issued
  <2>. QED
    BY <1>7, <2>1 DEF MarkUsed, Goto, SetState
<1>8. ASSUME NEW r \in Req, IssueNext(r) PROVE Stakes'
  <2>1. sid[r] \in Sid /\ Issue(sid[r])
    BY <1>8 DEF IssueNext, Goto
  <2>2. PICK t \in Token : /\ family[t] = NoSid
                           /\ family' = [family EXCEPT ![t] = sid[r]]
                           /\ state'  = [state EXCEPT ![t] = "live"]
    BY <2>1, IssueEffect
  <2>. QED
    BY <1>8, <2>1, <2>2 DEF IssueNext, Goto
<1>9. ASSUME NEW r \in Req, SessionGone(r) PROVE Stakes'
  BY <1>9 DEF SessionGone, Reply, Goto
<1>10. ASSUME NEW r \in Req, ReadSession(r) PROVE Stakes'
  BY <1>10 DEF ReadSession, Goto
<1>11. ASSUME NEW r \in Req, Undecryptable(r) PROVE Stakes'
  BY <1>11 DEF Undecryptable, Goto
<1>12. ASSUME NEW r \in Req, Discard(r) PROVE Stakes'
  BY <1>12 DEF Discard, Reply, Goto
<1>13. ASSUME NEW r \in Req, Slide(r) PROVE Stakes'
  BY <1>13 DEF Slide, Goto
<1>14. ASSUME NEW r \in Req, Grant(r) PROVE Stakes'
  BY <1>14 DEF Grant, Reply, Goto
<1>15. ASSUME NEW r \in Req, NEW s \in created, Logout(r, s) PROVE Stakes'
  BY <1>15 DEF Logout, Reply, Goto
<1>16. ASSUME NEW r \in Req, Fail(r) PROVE Stakes'
  BY <1>16 DEF Fail, Reply, Goto
<1>17. ASSUME NEW s \in Sid, ExpireSession(s) PROVE Stakes'
  BY <1>17 DEF ExpireSession
<1>18. ASSUME NEW t \in Token, ExpireToken(t) PROVE Stakes'
  BY <1>18 DEF ExpireToken, SetState
<1>19. CASE UNCHANGED vars
  BY <1>19 DEF vars
<1>. QED
  BY <1>1, <1>2, <1>3, <1>4, <1>5, <1>6, <1>7, <1>8, <1>9, <1>10, <1>11,
     <1>12, <1>13, <1>14, <1>15, <1>16, <1>17, <1>18, <1>19 DEF Next, Quiescent

\* Rotation leaves a session one live refresh token at most, unless two
\* rotations of one token overlapped or a burned token was presented again
\* (sessions.py, rotate: GET and SET are two operations).
THEOREM RotationKeepsOne == Spec => []OneLiveTokenPerSession
<1>1. Init => Stakes
  BY DEF Init, Stakes, OneStake, Issuing, Rotating, Live
<1>2. Typed /\ Stakes /\ [Next]_vars => Stakes'
  BY StakesStep
<1>3. Typed /\ Stakes => OneLiveTokenPerSession
  BY RefreshSessionsAssumption
     DEF Typed, TypeOK, Shape, Stakes, OneStake, Live, OneLiveTokenPerSession, issued
<1>. QED
  BY <1>1, <1>2, <1>3, TypedAlways, PTL DEF Spec
=============================================================================
