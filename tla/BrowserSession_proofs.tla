------------------------ MODULE BrowserSession_proofs ------------------------
(***************************************************************************)
(* Proofs about BrowserSession for every number of logins, calls and       *)
(* tokens.                                                                 *)
(***************************************************************************)
EXTENDS BrowserSession, TLAPS

-----------------------------------------------------------------------------
(* Types                                                                    *)

\* What a step hands on is there: the tokens a login or a refresh was answered
\* with, and the token a refresh was asked with, belong to a login that was
\* answered.
Shape ==
  /\ \A c \in Call :
       /\ pc[c] \in Refreshing => asked[c] \in Token /\ of[asked[c]] # None
       /\ pc[c] = "granted" => got[c] \in Token /\ of[got[c]] = of[asked[c]]
  /\ \A s \in Session : login[s] = "opened" => first[s] \in Token /\ of[first[s]] = s
  /\ \A t \in Token : /\ of[t] # None => login[of[t]] \in {"opened", "entered"}
                      /\ rtk[t] = "absent" <=> of[t] = None
  /\ access  # None => of[access] # None
  /\ refresh # None => of[refresh] # None

\* The initial states are typed.
LEMMA TypeInit == Init => TypeOK /\ Shape
<1> SUFFICES ASSUME Init PROVE TypeOK /\ Shape
  OBVIOUS
<1>1. late \in BOOLEAN /\ kind \in [Call -> Kind]
  BY DEF Init
<1>2. TypeOK
  BY <1>1 DEF Init, TypeOK
<1>3. Shape
  BY BrowserAssumption DEF Init, Shape, Refreshing
<1>. QED
  BY <1>2, <1>3

\* Every step of the page, the server and the network keeps the types.
LEMMA TypeStep == TypeOK /\ Shape /\ [Next]_vars => TypeOK'
<1> SUFFICES ASSUME TypeOK, Shape, [Next]_vars PROVE TypeOK'
  OBVIOUS
<1> USE BrowserAssumption
        DEF TypeOK, Refreshing, page, server, logins, Shape
<1>1. ASSUME NEW c \in Call, Send(c) PROVE TypeOK'
  BY <1>1 DEF Send, Goto
<1>2. ASSUME NEW c \in Call, NEW from \in {"ok", "error", "denied"}, Done(c, from)
      PROVE  TypeOK'
  <2>1. CASE kind[c] = "logout"
    <3>1. late' \in BOOLEAN
      BY <1>2, <2>1 DEF Done, Goto, Reset, Overtake
    <3>2. /\ access' = None /\ refresh' = None /\ user' = None
          /\ stale' \subseteq Call
          /\ pc' = [pc EXCEPT ![c] = "done"]
          /\ UNCHANGED <<of, rtk, expired, alive, login, first, kind, bearer, again,
                         asked, got, doubled, failed>>
      BY <1>2, <2>1 DEF Done, Goto, Reset, Overtake
    <3>. QED
      BY <3>1, <3>2
  <2>2. CASE kind[c] # "logout"
    BY <1>2, <2>2 DEF Done, Goto, Reset, Overtake
  <2>. QED
    BY <2>1, <2>2
<1>3. ASSUME NEW c \in Call, TryRefresh(c) PROVE TypeOK'
  BY <1>3 DEF TryRefresh, Ask, Goto
<1>4. ASSUME NEW c \in Call, Refreshed(c) PROVE TypeOK'
  BY <1>4 DEF Refreshed, Goto
<1>5. ASSUME NEW c \in Call, SignOut(c) PROVE TypeOK'
  BY <1>5 DEF SignOut, Goto, Reset, Overtake
<1>6. ASSUME NEW c \in Call, Serve(c) PROVE TypeOK'
  BY <1>6 DEF Serve, Goto
<1>7. ASSUME NEW c \in Call, ServeDenied(c) PROVE TypeOK'
  BY <1>7 DEF ServeDenied, Goto
<1>8. ASSUME NEW c \in Call, ReadUsed(c) PROVE TypeOK'
  BY <1>8 DEF ReadUsed, Goto
<1>9. ASSUME NEW c \in Call, ReadLive(c) PROVE TypeOK'
  BY <1>9 DEF ReadLive, Goto
<1>10. ASSUME NEW c \in Call, Rotate(c) PROVE TypeOK'
  BY <1>10 DEF Rotate, Goto, Issue
<1>11. ASSUME NEW c \in Call, RotateRefused(c) PROVE TypeOK'
  BY <1>11 DEF RotateRefused, Goto
<1>12. ASSUME NEW c \in Call, Break(c) PROVE TypeOK'
  BY <1>12 DEF Break
<1>13. ASSUME NEW s \in Session, SubmitLogin(s) PROVE TypeOK'
  BY <1>13 DEF SubmitLogin
<1>14. ASSUME NEW s \in Session, OpenSession(s) PROVE TypeOK'
  BY <1>14 DEF OpenSession, Issue
<1>15. ASSUME NEW s \in Session, Enter(s) PROVE TypeOK'
  BY <1>15 DEF Enter, Overtake
<1>16. ASSUME NEW t \in Token, ExpireAccess(t) PROVE TypeOK'
  BY <1>16 DEF ExpireAccess
<1>17. ASSUME KillSessions PROVE TypeOK'
  BY <1>17 DEF KillSessions, Reset, Overtake
<1>18. CASE UNCHANGED vars
  BY <1>18 DEF vars
<1>. QED
  BY <1>1, <1>2, <1>3, <1>4, <1>5, <1>6, <1>7, <1>8, <1>9, <1>10, <1>11,
     <1>12, <1>13, <1>14, <1>15, <1>16, <1>17, <1>18
     DEF Next, Step, ReceiveOk, ReceiveError, ReceiveDenied, Quiescent

\* Every step keeps the shape of calls and logins.
LEMMA ShapeStep == TypeOK /\ Shape /\ [Next]_vars => Shape'
<1> SUFFICES ASSUME TypeOK, Shape, [Next]_vars PROVE Shape'
  OBVIOUS
<1> USE BrowserAssumption
        DEF TypeOK, Refreshing, page, server, logins, Shape
<1>1. ASSUME NEW c \in Call, Send(c) PROVE Shape'
  BY <1>1 DEF Send, Goto
<1>2. ASSUME NEW c \in Call, NEW from \in {"ok", "error", "denied"}, Done(c, from)
      PROVE  Shape'
  BY <1>2 DEF Done, Goto, Reset, Overtake
<1>3. ASSUME NEW c \in Call, TryRefresh(c) PROVE Shape'
  BY <1>3 DEF TryRefresh, Ask, Goto
<1>4. ASSUME NEW c \in Call, Refreshed(c) PROVE Shape'
  BY <1>4 DEF Refreshed, Goto
<1>5. ASSUME NEW c \in Call, SignOut(c) PROVE Shape'
  BY <1>5 DEF SignOut, Goto, Reset, Overtake
<1>6. ASSUME NEW c \in Call, Serve(c) PROVE Shape'
  BY <1>6 DEF Serve, Goto
<1>7. ASSUME NEW c \in Call, ServeDenied(c) PROVE Shape'
  BY <1>7 DEF ServeDenied, Goto
<1>8. ASSUME NEW c \in Call, ReadUsed(c) PROVE Shape'
  BY <1>8 DEF ReadUsed, Goto
<1>9. ASSUME NEW c \in Call, ReadLive(c) PROVE Shape'
  BY <1>9 DEF ReadLive, Goto
<1>10. ASSUME NEW c \in Call, Rotate(c) PROVE Shape'
  <2>1. PICK a \in Token, s \in Session : a = asked[c] /\ s = of[a]
    BY <1>10 DEF Rotate, Goto, Issue
  <2>2. PICK t \in Token :
          /\ of[t] = None
          /\ of' = [of EXCEPT ![t] = s]
          /\ rtk' = [rtk EXCEPT ![a] = "used", ![t] = "live"]
          /\ got' = [got EXCEPT ![c] = t]
    BY <1>10, <2>1 DEF Rotate, Goto, Issue
  <2>3. /\ pc[c] = "rotating" /\ pc' = [pc EXCEPT ![c] = "granted"]
        /\ UNCHANGED <<access, refresh, user, stale, late, alive, login, first, asked,
                       doubled, failed>>
    BY <1>10 DEF Rotate, Goto, Issue
  <2>4. /\ t # a /\ rtk[t] = "absent"
        /\ rtk'[t] = "live" /\ rtk'[a] = "used"
        /\ \A x \in Token \ {a, t} : rtk'[x] = rtk[x]
        /\ of'[t] = s
        /\ \A x \in Token \ {t} : of'[x] = of[x]
    BY <2>1, <2>2, BrowserAssumption
  <2>. QED
    BY <2>1, <2>2, <2>3, <2>4
<1>11. ASSUME NEW c \in Call, RotateRefused(c) PROVE Shape'
  BY <1>11 DEF RotateRefused, Goto
<1>12. ASSUME NEW c \in Call, Break(c) PROVE Shape'
  BY <1>12 DEF Break
<1>13. ASSUME NEW s \in Session, SubmitLogin(s) PROVE Shape'
  BY <1>13 DEF SubmitLogin
<1>14. ASSUME NEW s \in Session, OpenSession(s) PROVE Shape'
  BY <1>14 DEF OpenSession, Issue
<1>15. ASSUME NEW s \in Session, Enter(s) PROVE Shape'
  BY <1>15 DEF Enter, Overtake
<1>16. ASSUME NEW t \in Token, ExpireAccess(t) PROVE Shape'
  BY <1>16 DEF ExpireAccess
<1>17. ASSUME KillSessions PROVE Shape'
  BY <1>17 DEF KillSessions, Reset, Overtake
<1>18. CASE UNCHANGED vars
  BY <1>18 DEF vars
<1>. QED
  BY <1>1, <1>2, <1>3, <1>4, <1>5, <1>6, <1>7, <1>8, <1>9, <1>10, <1>11,
     <1>12, <1>13, <1>14, <1>15, <1>16, <1>17, <1>18
     DEF Next, Step, ReceiveOk, ReceiveError, ReceiveDenied, Quiescent

\* Types and shape hold throughout.
LEMMA TypedAlways == Spec => [](TypeOK /\ Shape)
  BY TypeInit, TypeStep, ShapeStep, PTL DEF Spec

\* Spec keeps every variable in its type.
THEOREM TypeCorrect == Spec => []TypeOK
  BY TypedAlways, PTL

-----------------------------------------------------------------------------
(* Whose tokens the page has                                                *)

\* The page's tokens, and those its calls under way have asked with since the
\* last login or sign-out, are its user's.
OwnTokens ==
  late \/ /\ TokensAreTheUsers
          /\ \A c \in Call \ stale : pc[c] \in Refreshing => of[asked[c]] = user

\* Every step keeps the page's tokens its user's.
LEMMA OwnTokensStep == TypeOK /\ Shape /\ OwnTokens /\ [Next]_vars => OwnTokens'
<1> SUFFICES ASSUME TypeOK, Shape, OwnTokens, [Next]_vars PROVE OwnTokens'
  OBVIOUS
<1> USE BrowserAssumption
        DEF TypeOK, Refreshing, page, server, logins, Shape, OwnTokens,
            TokensAreTheUsers
<1>1. ASSUME NEW c \in Call, Send(c) PROVE OwnTokens'
  BY <1>1 DEF Send, Goto
<1>2. ASSUME NEW c \in Call, NEW from \in {"ok", "error", "denied"}, Done(c, from)
      PROVE  OwnTokens'
  BY <1>2 DEF Done, Goto, Reset, Overtake
<1>3. ASSUME NEW c \in Call, TryRefresh(c) PROVE OwnTokens'
  BY <1>3 DEF TryRefresh, Ask, Goto
<1>4. ASSUME NEW c \in Call, Refreshed(c) PROVE OwnTokens'
  <2>1. /\ pc[c] = "granted" /\ pc' = [pc EXCEPT ![c] = "sent"]
        /\ access' = got[c] /\ refresh' = got[c]
        /\ UNCHANGED <<user, stale, of, asked>>
    BY <1>4 DEF Refreshed, Goto
  <2>2. late' \in BOOLEAN /\ (~late' => ~late /\ c \notin stale)
    BY <1>4 DEF Refreshed, Goto
  <2>3. CASE ~late'
    BY <2>1, <2>2, <2>3
  <2>. QED
    BY <2>3
<1>5. ASSUME NEW c \in Call, SignOut(c) PROVE OwnTokens'
  BY <1>5 DEF SignOut, Goto, Reset, Overtake
<1>6. ASSUME NEW c \in Call, Serve(c) PROVE OwnTokens'
  BY <1>6 DEF Serve, Goto
<1>7. ASSUME NEW c \in Call, ServeDenied(c) PROVE OwnTokens'
  BY <1>7 DEF ServeDenied, Goto
<1>8. ASSUME NEW c \in Call, ReadUsed(c) PROVE OwnTokens'
  BY <1>8 DEF ReadUsed, Goto
<1>9. ASSUME NEW c \in Call, ReadLive(c) PROVE OwnTokens'
  BY <1>9 DEF ReadLive, Goto
<1>10. ASSUME NEW c \in Call, Rotate(c) PROVE OwnTokens'
  BY <1>10 DEF Rotate, Goto, Issue
<1>11. ASSUME NEW c \in Call, RotateRefused(c) PROVE OwnTokens'
  BY <1>11 DEF RotateRefused, Goto
<1>12. ASSUME NEW c \in Call, Break(c) PROVE OwnTokens'
  BY <1>12 DEF Break
<1>13. ASSUME NEW s \in Session, SubmitLogin(s) PROVE OwnTokens'
  BY <1>13 DEF SubmitLogin
<1>14. ASSUME NEW s \in Session, OpenSession(s) PROVE OwnTokens'
  BY <1>14 DEF OpenSession, Issue
<1>15. ASSUME NEW s \in Session, Enter(s) PROVE OwnTokens'
  BY <1>15 DEF Enter, Overtake
<1>16. ASSUME NEW t \in Token, ExpireAccess(t) PROVE OwnTokens'
  BY <1>16 DEF ExpireAccess
<1>17. ASSUME KillSessions PROVE OwnTokens'
  BY <1>17 DEF KillSessions, Reset, Overtake
<1>18. CASE UNCHANGED vars
  BY <1>18 DEF vars
<1>. QED
  BY <1>1, <1>2, <1>3, <1>4, <1>5, <1>6, <1>7, <1>8, <1>9, <1>10, <1>11,
     <1>12, <1>13, <1>14, <1>15, <1>16, <1>17, <1>18
     DEF Next, Step, ReceiveOk, ReceiveError, ReceiveDenied, Quiescent

\* The page acts for the user it shows, whatever order answers come in, unless
\* an overtaken refresh was applied (app.js, tryRefresh).
THEOREM PageActsForItsUser == Spec => []TokensAreTheUsers
<1>1. Init => OwnTokens
  BY DEF Init, OwnTokens, TokensAreTheUsers, Refreshing
<1>2. TypeOK /\ Shape /\ OwnTokens /\ [Next]_vars => OwnTokens'
  BY OwnTokensStep
<1>3. OwnTokens => TokensAreTheUsers
  BY DEF OwnTokens, TokensAreTheUsers
<1>. QED
  BY <1>1, <1>2, <1>3, TypedAlways, PTL DEF Spec

-----------------------------------------------------------------------------
(* Why the page signs its user out                                          *)

\* Tokens on their way to the page: nobody has used them, and only one answer
\* carries them.
Fresh(t) == /\ rtk[t] = "live" /\ refresh # t
            /\ \A c \in Call : pc[c] \in Refreshing => asked[c] # t

Supplies ==
  /\ \A s \in Session : login[s] = "opened" => Fresh(first[s])
  /\ \A c \in Call : pc[c] = "granted" => Fresh(got[c])
  /\ \A c, q \in Call :
       pc[c] = "granted" /\ pc[q] = "granted" /\ got[c] = got[q] => c = q
  /\ \A c \in Call : \A s \in Session :
       pc[c] = "granted" /\ login[s] = "opened" => got[c] # first[s]

\* A token the page holds that is no longer live is being rotated by one of its
\* own calls.
SpentIsAsked ==
  refresh # None /\ rtk[refresh] # "live" =>
    \E c \in Call : pc[c] \in Refreshing /\ asked[c] = refresh

\* Two refreshes with one token make it a doubled one; any other is good until
\* its call's own rotation.
AskedOnce ==
  /\ \A c, q \in Call : /\ pc[c] \in Refreshing /\ pc[q] \in Refreshing
                        /\ asked[c] = asked[q] /\ c # q
                        => asked[c] \in doubled
  /\ \A c \in Call : pc[c] \in {"refreshing", "rotating"} =>
       rtk[asked[c]] = "live" \/ asked[c] \in doubled

\* A refused call has one of the three causes.
HasCause(c) == c \in failed \/ of[asked[c]] \notin alive \/ asked[c] \in doubled

RefusedForCause == \A c \in Call : pc[c] = "refused" => HasCause(c)

\* Every step keeps the tokens on their way unused and unshared.
LEMMA SuppliesStep == TypeOK /\ Shape /\ Supplies /\ [Next]_vars => Supplies'
<1> SUFFICES ASSUME TypeOK, Shape, Supplies, [Next]_vars PROVE Supplies'
  OBVIOUS
<1> USE BrowserAssumption
        DEF TypeOK, Refreshing, page, server, logins, Shape,
            Supplies, Fresh
<1>1. ASSUME NEW c \in Call, Send(c) PROVE Supplies'
  BY <1>1 DEF Send, Goto
<1>2. ASSUME NEW c \in Call, NEW from \in {"ok", "error", "denied"}, Done(c, from)
      PROVE  Supplies'
  BY <1>2 DEF Done, Goto, Reset, Overtake
<1>3. ASSUME NEW c \in Call, TryRefresh(c) PROVE Supplies'
  BY <1>3 DEF TryRefresh, Ask, Goto
<1>4. ASSUME NEW c \in Call, Refreshed(c) PROVE Supplies'
  BY <1>4 DEF Refreshed, Goto
<1>5. ASSUME NEW c \in Call, SignOut(c) PROVE Supplies'
  BY <1>5 DEF SignOut, Goto, Reset, Overtake
<1>6. ASSUME NEW c \in Call, Serve(c) PROVE Supplies'
  BY <1>6 DEF Serve, Goto
<1>7. ASSUME NEW c \in Call, ServeDenied(c) PROVE Supplies'
  BY <1>7 DEF ServeDenied, Goto
<1>8. ASSUME NEW c \in Call, ReadUsed(c) PROVE Supplies'
  BY <1>8 DEF ReadUsed, Goto
<1>9. ASSUME NEW c \in Call, ReadLive(c) PROVE Supplies'
  BY <1>9 DEF ReadLive, Goto
<1>10. ASSUME NEW c \in Call, Rotate(c) PROVE Supplies'
  <2>1. PICK a \in Token, s \in Session : a = asked[c] /\ s = of[a]
    BY <1>10 DEF Rotate, Goto, Issue
  <2>2. PICK t \in Token :
          /\ of[t] = None
          /\ of' = [of EXCEPT ![t] = s]
          /\ rtk' = [rtk EXCEPT ![a] = "used", ![t] = "live"]
          /\ got' = [got EXCEPT ![c] = t]
    BY <1>10, <2>1 DEF Rotate, Goto, Issue
  <2>3. /\ pc[c] = "rotating" /\ pc' = [pc EXCEPT ![c] = "granted"]
        /\ UNCHANGED <<access, refresh, user, stale, late, alive, login, first, asked,
                       doubled, failed>>
    BY <1>10 DEF Rotate, Goto, Issue
  <2>4. /\ t # a /\ rtk[t] = "absent"
        /\ rtk'[t] = "live" /\ rtk'[a] = "used"
        /\ \A x \in Token \ {a, t} : rtk'[x] = rtk[x]
        /\ of'[t] = s
        /\ \A x \in Token \ {t} : of'[x] = of[x]
    BY <2>1, <2>2, BrowserAssumption
  <2>. QED
    BY <2>1, <2>2, <2>3, <2>4
<1>11. ASSUME NEW c \in Call, RotateRefused(c) PROVE Supplies'
  BY <1>11 DEF RotateRefused, Goto
<1>12. ASSUME NEW c \in Call, Break(c) PROVE Supplies'
  BY <1>12 DEF Break
<1>13. ASSUME NEW s \in Session, SubmitLogin(s) PROVE Supplies'
  BY <1>13 DEF SubmitLogin
<1>14. ASSUME NEW s \in Session, OpenSession(s) PROVE Supplies'
  <2>1. PICK t \in Token :
          /\ of[t] = None
          /\ of' = [of EXCEPT ![t] = s]
          /\ rtk' = [rtk EXCEPT ![t] = "live"]
          /\ first' = [first EXCEPT ![s] = t]
    BY <1>14 DEF OpenSession, Issue
  <2>2. /\ login[s] = "asked" /\ login' = [login EXCEPT ![s] = "opened"]
        /\ alive' = alive \cup {s}
        /\ UNCHANGED <<access, refresh, user, stale, late, pc, got, asked, doubled,
                       failed>>
    BY <1>14 DEF OpenSession, Issue
  <2>3. /\ \A x \in Token \ {t} : of'[x] = of[x]
        /\ of'[t] = s /\ rtk[t] = "absent"
    BY <2>1
  <2>. QED
    BY <2>1, <2>2, <2>3
<1>15. ASSUME NEW s \in Session, Enter(s) PROVE Supplies'
  BY <1>15 DEF Enter, Overtake
<1>16. ASSUME NEW t \in Token, ExpireAccess(t) PROVE Supplies'
  BY <1>16 DEF ExpireAccess
<1>17. ASSUME KillSessions PROVE Supplies'
  BY <1>17 DEF KillSessions, Reset, Overtake
<1>18. CASE UNCHANGED vars
  BY <1>18 DEF vars
<1>. QED
  BY <1>1, <1>2, <1>3, <1>4, <1>5, <1>6, <1>7, <1>8, <1>9, <1>10, <1>11,
     <1>12, <1>13, <1>14, <1>15, <1>16, <1>17, <1>18
     DEF Next, Step, ReceiveOk, ReceiveError, ReceiveDenied, Quiescent

\* Every step keeps a spent token of the page in the hands of a call.
LEMMA SpentStep ==
  TypeOK /\ Shape /\ Supplies /\ SpentIsAsked /\ [Next]_vars => SpentIsAsked'
<1> SUFFICES ASSUME TypeOK, Shape, Supplies, SpentIsAsked, [Next]_vars
             PROVE  SpentIsAsked'
  OBVIOUS
<1> USE BrowserAssumption
        DEF TypeOK, Refreshing, page, server, logins, Shape,
            Supplies, Fresh, SpentIsAsked
<1>1. ASSUME NEW c \in Call, Send(c) PROVE SpentIsAsked'
  BY <1>1 DEF Send, Goto
<1>2. ASSUME NEW c \in Call, NEW from \in {"ok", "error", "denied"}, Done(c, from)
      PROVE  SpentIsAsked'
  BY <1>2 DEF Done, Goto, Reset, Overtake
<1>3. ASSUME NEW c \in Call, TryRefresh(c) PROVE SpentIsAsked'
  BY <1>3 DEF TryRefresh, Ask, Goto
<1>4. ASSUME NEW c \in Call, Refreshed(c) PROVE SpentIsAsked'
  BY <1>4 DEF Refreshed, Goto
<1>5. ASSUME NEW c \in Call, SignOut(c) PROVE SpentIsAsked'
  BY <1>5 DEF SignOut, Goto, Reset, Overtake
<1>6. ASSUME NEW c \in Call, Serve(c) PROVE SpentIsAsked'
  BY <1>6 DEF Serve, Goto
<1>7. ASSUME NEW c \in Call, ServeDenied(c) PROVE SpentIsAsked'
  BY <1>7 DEF ServeDenied, Goto
<1>8. ASSUME NEW c \in Call, ReadUsed(c) PROVE SpentIsAsked'
  BY <1>8 DEF ReadUsed, Goto
<1>9. ASSUME NEW c \in Call, ReadLive(c) PROVE SpentIsAsked'
  BY <1>9 DEF ReadLive, Goto
<1>10. ASSUME NEW c \in Call, Rotate(c) PROVE SpentIsAsked'
  BY <1>10 DEF Rotate, Goto, Issue
<1>11. ASSUME NEW c \in Call, RotateRefused(c) PROVE SpentIsAsked'
  BY <1>11 DEF RotateRefused, Goto
<1>12. ASSUME NEW c \in Call, Break(c) PROVE SpentIsAsked'
  BY <1>12 DEF Break
<1>13. ASSUME NEW s \in Session, SubmitLogin(s) PROVE SpentIsAsked'
  BY <1>13 DEF SubmitLogin
<1>14. ASSUME NEW s \in Session, OpenSession(s) PROVE SpentIsAsked'
  BY <1>14 DEF OpenSession, Issue
<1>15. ASSUME NEW s \in Session, Enter(s) PROVE SpentIsAsked'
  BY <1>15 DEF Enter, Overtake
<1>16. ASSUME NEW t \in Token, ExpireAccess(t) PROVE SpentIsAsked'
  BY <1>16 DEF ExpireAccess
<1>17. ASSUME KillSessions PROVE SpentIsAsked'
  BY <1>17 DEF KillSessions, Reset, Overtake
<1>18. CASE UNCHANGED vars
  BY <1>18 DEF vars
<1>. QED
  BY <1>1, <1>2, <1>3, <1>4, <1>5, <1>6, <1>7, <1>8, <1>9, <1>10, <1>11,
     <1>12, <1>13, <1>14, <1>15, <1>16, <1>17, <1>18
     DEF Next, Step, ReceiveOk, ReceiveError, ReceiveDenied, Quiescent

\* Every step keeps tokens asked with twice marked as doubled.
LEMMA AskedStep ==
  TypeOK /\ Shape /\ SpentIsAsked /\ AskedOnce /\ [Next]_vars => AskedOnce'
<1> SUFFICES ASSUME TypeOK, Shape, SpentIsAsked, AskedOnce, [Next]_vars
             PROVE  AskedOnce'
  OBVIOUS
<1> USE BrowserAssumption
        DEF TypeOK, Refreshing, page, server, logins, Shape,
            SpentIsAsked, AskedOnce
<1>1. ASSUME NEW c \in Call, Send(c) PROVE AskedOnce'
  BY <1>1 DEF Send, Goto
<1>2. ASSUME NEW c \in Call, NEW from \in {"ok", "error", "denied"}, Done(c, from)
      PROVE  AskedOnce'
  BY <1>2 DEF Done, Goto, Reset, Overtake
<1>3. ASSUME NEW c \in Call, TryRefresh(c) PROVE AskedOnce'
  BY <1>3 DEF TryRefresh, Ask, Goto
<1>4. ASSUME NEW c \in Call, Refreshed(c) PROVE AskedOnce'
  BY <1>4 DEF Refreshed, Goto
<1>5. ASSUME NEW c \in Call, SignOut(c) PROVE AskedOnce'
  BY <1>5 DEF SignOut, Goto, Reset, Overtake
<1>6. ASSUME NEW c \in Call, Serve(c) PROVE AskedOnce'
  BY <1>6 DEF Serve, Goto
<1>7. ASSUME NEW c \in Call, ServeDenied(c) PROVE AskedOnce'
  BY <1>7 DEF ServeDenied, Goto
<1>8. ASSUME NEW c \in Call, ReadUsed(c) PROVE AskedOnce'
  BY <1>8 DEF ReadUsed, Goto
<1>9. ASSUME NEW c \in Call, ReadLive(c) PROVE AskedOnce'
  BY <1>9 DEF ReadLive, Goto
<1>10. ASSUME NEW c \in Call, Rotate(c) PROVE AskedOnce'
  <2>1. PICK a \in Token, s \in Session : a = asked[c] /\ s = of[a]
    BY <1>10 DEF Rotate, Goto, Issue
  <2>2. PICK t \in Token :
          /\ of[t] = None
          /\ of' = [of EXCEPT ![t] = s]
          /\ rtk' = [rtk EXCEPT ![a] = "used", ![t] = "live"]
          /\ got' = [got EXCEPT ![c] = t]
    BY <1>10, <2>1 DEF Rotate, Goto, Issue
  <2>3. /\ pc[c] = "rotating" /\ pc' = [pc EXCEPT ![c] = "granted"]
        /\ UNCHANGED <<access, refresh, user, stale, late, alive, login, first, asked,
                       doubled, failed>>
    BY <1>10 DEF Rotate, Goto, Issue
  <2>4. /\ t # a /\ rtk[t] = "absent"
        /\ rtk'[t] = "live" /\ rtk'[a] = "used"
        /\ \A x \in Token \ {a, t} : rtk'[x] = rtk[x]
        /\ of'[t] = s
        /\ \A x \in Token \ {t} : of'[x] = of[x]
    BY <2>1, <2>2, BrowserAssumption
  <2>. QED
    BY <2>1, <2>2, <2>3, <2>4
<1>11. ASSUME NEW c \in Call, RotateRefused(c) PROVE AskedOnce'
  BY <1>11 DEF RotateRefused, Goto
<1>12. ASSUME NEW c \in Call, Break(c) PROVE AskedOnce'
  BY <1>12 DEF Break
<1>13. ASSUME NEW s \in Session, SubmitLogin(s) PROVE AskedOnce'
  BY <1>13 DEF SubmitLogin
<1>14. ASSUME NEW s \in Session, OpenSession(s) PROVE AskedOnce'
  <2>1. PICK t \in Token :
          /\ of[t] = None
          /\ of' = [of EXCEPT ![t] = s]
          /\ rtk' = [rtk EXCEPT ![t] = "live"]
          /\ first' = [first EXCEPT ![s] = t]
    BY <1>14 DEF OpenSession, Issue
  <2>2. /\ login[s] = "asked" /\ login' = [login EXCEPT ![s] = "opened"]
        /\ alive' = alive \cup {s}
        /\ UNCHANGED <<access, refresh, user, stale, late, pc, got, asked, doubled,
                       failed>>
    BY <1>14 DEF OpenSession, Issue
  <2>3. /\ \A x \in Token \ {t} : of'[x] = of[x]
        /\ of'[t] = s /\ rtk[t] = "absent"
    BY <2>1
  <2>. QED
    BY <2>1, <2>2, <2>3
<1>15. ASSUME NEW s \in Session, Enter(s) PROVE AskedOnce'
  BY <1>15 DEF Enter, Overtake
<1>16. ASSUME NEW t \in Token, ExpireAccess(t) PROVE AskedOnce'
  BY <1>16 DEF ExpireAccess
<1>17. ASSUME KillSessions PROVE AskedOnce'
  BY <1>17 DEF KillSessions, Reset, Overtake
<1>18. CASE UNCHANGED vars
  BY <1>18 DEF vars
<1>. QED
  BY <1>1, <1>2, <1>3, <1>4, <1>5, <1>6, <1>7, <1>8, <1>9, <1>10, <1>11,
     <1>12, <1>13, <1>14, <1>15, <1>16, <1>17, <1>18
     DEF Next, Step, ReceiveOk, ReceiveError, ReceiveDenied, Quiescent

\* A refusal is given for a cause, and the cause stays.
LEMMA CauseStep ==
  TypeOK /\ Shape /\ AskedOnce /\ RefusedForCause /\ [Next]_vars => RefusedForCause'
<1> SUFFICES ASSUME TypeOK, Shape, AskedOnce, RefusedForCause, [Next]_vars
             PROVE  RefusedForCause'
  OBVIOUS
<1> USE BrowserAssumption
        DEF TypeOK, Refreshing, page, server, logins, Shape,
            AskedOnce, RefusedForCause, HasCause
<1>1. ASSUME NEW c \in Call, Send(c) PROVE RefusedForCause'
  BY <1>1 DEF Send, Goto
<1>2. ASSUME NEW c \in Call, NEW from \in {"ok", "error", "denied"}, Done(c, from)
      PROVE  RefusedForCause'
  BY <1>2 DEF Done, Goto, Reset, Overtake
<1>3. ASSUME NEW c \in Call, TryRefresh(c) PROVE RefusedForCause'
  BY <1>3 DEF TryRefresh, Ask, Goto
<1>4. ASSUME NEW c \in Call, Refreshed(c) PROVE RefusedForCause'
  BY <1>4 DEF Refreshed, Goto
<1>5. ASSUME NEW c \in Call, SignOut(c) PROVE RefusedForCause'
  BY <1>5 DEF SignOut, Goto, Reset, Overtake
<1>6. ASSUME NEW c \in Call, Serve(c) PROVE RefusedForCause'
  BY <1>6 DEF Serve, Goto
<1>7. ASSUME NEW c \in Call, ServeDenied(c) PROVE RefusedForCause'
  BY <1>7 DEF ServeDenied, Goto
<1>8. ASSUME NEW c \in Call, ReadUsed(c) PROVE RefusedForCause'
  BY <1>8 DEF ReadUsed, Goto
<1>9. ASSUME NEW c \in Call, ReadLive(c) PROVE RefusedForCause'
  BY <1>9 DEF ReadLive, Goto
<1>10. ASSUME NEW c \in Call, Rotate(c) PROVE RefusedForCause'
  <2>1. PICK a \in Token, s \in Session : a = asked[c] /\ s = of[a]
    BY <1>10 DEF Rotate, Goto, Issue
  <2>2. PICK t \in Token :
          /\ of[t] = None
          /\ of' = [of EXCEPT ![t] = s]
          /\ rtk' = [rtk EXCEPT ![a] = "used", ![t] = "live"]
          /\ got' = [got EXCEPT ![c] = t]
    BY <1>10, <2>1 DEF Rotate, Goto, Issue
  <2>3. /\ pc[c] = "rotating" /\ pc' = [pc EXCEPT ![c] = "granted"]
        /\ UNCHANGED <<access, refresh, user, stale, late, alive, login, first, asked,
                       doubled, failed>>
    BY <1>10 DEF Rotate, Goto, Issue
  <2>4. /\ t # a /\ rtk[t] = "absent"
        /\ rtk'[t] = "live" /\ rtk'[a] = "used"
        /\ \A x \in Token \ {a, t} : rtk'[x] = rtk[x]
        /\ of'[t] = s
        /\ \A x \in Token \ {t} : of'[x] = of[x]
    BY <2>1, <2>2, BrowserAssumption
  <2>. QED
    BY <2>1, <2>2, <2>3, <2>4
<1>11. ASSUME NEW c \in Call, RotateRefused(c) PROVE RefusedForCause'
  BY <1>11 DEF RotateRefused, Goto
<1>12. ASSUME NEW c \in Call, Break(c) PROVE RefusedForCause'
  BY <1>12 DEF Break
<1>13. ASSUME NEW s \in Session, SubmitLogin(s) PROVE RefusedForCause'
  BY <1>13 DEF SubmitLogin
<1>14. ASSUME NEW s \in Session, OpenSession(s) PROVE RefusedForCause'
  <2>1. PICK t \in Token :
          /\ of[t] = None
          /\ of' = [of EXCEPT ![t] = s]
          /\ rtk' = [rtk EXCEPT ![t] = "live"]
          /\ first' = [first EXCEPT ![s] = t]
    BY <1>14 DEF OpenSession, Issue
  <2>2. /\ login[s] = "asked" /\ login' = [login EXCEPT ![s] = "opened"]
        /\ alive' = alive \cup {s}
        /\ UNCHANGED <<access, refresh, user, stale, late, pc, got, asked, doubled,
                       failed>>
    BY <1>14 DEF OpenSession, Issue
  <2>3. /\ \A x \in Token \ {t} : of'[x] = of[x]
        /\ of'[t] = s /\ rtk[t] = "absent"
    BY <2>1
  <2>4. ASSUME NEW c \in Call, pc[c] = "refused"
        PROVE  HasCause(c)'
    <3>1. asked[c] \in Token /\ of[asked[c]] # None /\ of[asked[c]] # s
      BY <2>2, <2>4
    <3>2. of'[asked[c]] = of[asked[c]]
      BY <2>1, <2>3, <3>1
    <3>. QED
      BY <2>2, <2>4, <3>1, <3>2
  <2>. QED
    BY <2>2, <2>4
<1>15. ASSUME NEW s \in Session, Enter(s) PROVE RefusedForCause'
  BY <1>15 DEF Enter, Overtake
<1>16. ASSUME NEW t \in Token, ExpireAccess(t) PROVE RefusedForCause'
  BY <1>16 DEF ExpireAccess
<1>17. ASSUME KillSessions PROVE RefusedForCause'
  BY <1>17 DEF KillSessions, Reset, Overtake
<1>18. CASE UNCHANGED vars
  BY <1>18 DEF vars
<1>. QED
  BY <1>1, <1>2, <1>3, <1>4, <1>5, <1>6, <1>7, <1>8, <1>9, <1>10, <1>11,
     <1>12, <1>13, <1>14, <1>15, <1>16, <1>17, <1>18
     DEF Next, Step, ReceiveOk, ReceiveError, ReceiveDenied, Quiescent

CauseInv == Supplies /\ SpentIsAsked /\ AskedOnce /\ RefusedForCause

\* The causes hold throughout.
LEMMA CauseAlways == Spec => []CauseInv
<1>1. Init => CauseInv
  BY DEF Init, CauseInv, Supplies, SpentIsAsked, AskedOnce, RefusedForCause, Refreshing
<1>2. TypeOK /\ Shape /\ CauseInv /\ [Next]_vars => CauseInv'
  BY SuppliesStep, SpentStep, AskedStep, CauseStep DEF CauseInv
<1>. QED
  BY <1>1, <1>2, TypedAlways, PTL DEF Spec

\* The program signs its user out only where the session was ended, the refresh
\* failed on its way, or two calls had sent one refresh token at once.
THEOREM SignOutHasCause == Spec => SignedOutForCause
<1>1. CauseInv =>
        \A c \in Call : pc[c] = "refused" /\ pc'[c] = "done" =>
          \/ c \in failed
          \/ of[asked[c]] \notin alive
          \/ asked[c] \in doubled
  BY DEF CauseInv, RefusedForCause, HasCause
<1>. QED
  BY <1>1, CauseAlways, PTL DEF SignedOutForCause
=============================================================================
