------------------------------ MODULE ClientProofs ------------------------------
(***************************************************************************)
(* The browser's session for any number of tabs, calls and tokens: types,  *)
(* what one session may leave to the next on the same page, and where the  *)
(* tokens of a session can be.                                             *)
(***************************************************************************)
EXTENDS BrowserSession, TLAPS

-------------------------------------------------------------------------------
\* What the server does to the rows of tokens

ServerStep ==
  \/ UNCHANGED familyVars
  \/ \E t \in Tokens : \/ Issue(t) \/ DetectReuse(t) \/ Retire(t) \/ Expire(t)
                       \/ \E new \in Tokens : Rotate(t, new)

\* Tokens, once issued, stay so and keep their family.
TokensStay == Issued \subseteq Issued' /\ \A t \in Issued : family'[t] = family[t]

LEMMA ServerSteps ==
  ASSUME FamilyTypeOK, ServerStep
  PROVE  FamilyTypeOK' /\ TokensStay
  <1> USE NoTokenAssumption
  <1> USE DEF FamilyTypeOK, Issued, TokensStay
  <1>1. CASE UNCHANGED familyVars
    BY <1>1 DEF familyVars
  <1>2. ASSUME NEW t \in Tokens, Issue(t) PROVE FamilyTypeOK' /\ TokensStay
    BY <1>2 DEF Issue
  <1>3. ASSUME NEW t \in Tokens, NEW new \in Tokens, Rotate(t, new)
        PROVE  FamilyTypeOK' /\ TokensStay
    BY <1>3 DEF Rotate, Live
  <1>4. ASSUME NEW t \in Tokens, DetectReuse(t) PROVE FamilyTypeOK' /\ TokensStay
    BY <1>4 DEF DetectReuse, FamilyOf
  <1>5. ASSUME NEW t \in Tokens, Retire(t) PROVE FamilyTypeOK' /\ TokensStay
    BY <1>5 DEF Retire
  <1>6. ASSUME NEW t \in Tokens, Expire(t) PROVE FamilyTypeOK' /\ TokensStay
    BY <1>6 DEF Expire
  <1>7. QED
    BY <1>1, <1>2, <1>3, <1>4, <1>5, <1>6 DEF ServerStep

\* The token a sign-in or a rotation takes is a new one, and issued by it.
LEMMA NewTokens ==
  /\ \A new : Issue(new) => new \in Tokens /\ new \notin Issued
  /\ \A new : FamilyTypeOK /\ Issue(new) => new \in Issued'
  /\ \A t, new : FamilyTypeOK /\ Rotate(t, new) => new \in Issued' /\ t \in Issued
  <1> USE NoTokenAssumption
  <1>1. \A new : Issue(new) => new \in Tokens /\ new \notin Issued
    BY DEF Issue
  <1>2. \A new : FamilyTypeOK /\ Issue(new) => new \in Issued'
    BY DEF Issue, Issued, FamilyTypeOK
  <1>3. \A t, new : FamilyTypeOK /\ Rotate(t, new) => new \in Issued' /\ t \in Issued
    BY DEF Rotate, Issued, Live, FamilyTypeOK
  <1>4. QED
    BY <1>1, <1>2, <1>3

LEMMA RefusedStep ==
  ASSUME NEW t, FamilyTypeOK, Refused(t)
  PROVE  ServerStep
  BY DEF Refused, ServerStep, DetectReuse, FamilyTypeOK, Issued

LEMMA RotateStep ==
  ASSUME NEW t, NEW new, FamilyTypeOK, Rotate(t, new)
  PROVE  ServerStep
  BY DEF Rotate, ServerStep, Live, FamilyTypeOK, Issued

-------------------------------------------------------------------------------
\* Types

LEMMA InitTypeOK == Init => TypeOK
  BY NoTokenAssumption
  DEF Init, TypeOK, FamilyInit, FamilyTypeOK, Issued, NoRefresh, CallStates, AllCalls

\* Of every step: what the server does, and how far the other variables depend on it.
LEMMA ClientTypes ==
  ASSUME TypeOK, FamilyTypeOK', TokensStay,
         UNCHANGED <<held, access, stored, refresh, call, payload, orphans, disturbed>>
  PROVE  TypeOK'
  BY DEF TypeOK, TokensStay

LEMMA ServerOf ==
  ASSUME TypeOK, [Next]_vars
  PROVE  ServerStep
  <1> USE DEF TypeOK
  <1>1. ASSUME NEW t \in Tabs, SignIn(t) PROVE ServerStep
    BY <1>1, NewTokens DEF SignIn, ServerStep
  <1>2. ASSUME NEW t \in Tabs, NEW c \in AllCalls, Serve(t, c) PROVE ServerStep
    BY <1>2 DEF Serve, Retire, ServerStep, Issued, familyVars
  <1>3. ASSUME NEW t \in Tabs, ServeRefresh(t) PROVE ServerStep
    BY <1>3, RefusedStep, RotateStep DEF ServeRefresh
  <1>4. CASE ServeOrphan
    BY <1>4, RefusedStep, RotateStep DEF ServeOrphan
  <1>5. CASE TokenExpires
    BY <1>5 DEF TokenExpires, ServerStep, Live, Issued
  <1>6. ASSUME NEW t \in Tabs, \/ AccessExpires(t) \/ RefreshDone(t) \/ LogoutDone(t)
                               \/ RefreshFails(t) \/ Load(t)
        PROVE  UNCHANGED familyVars
    BY <1>6 DEF AccessExpires, RefreshDone, LogoutDone, RefreshFails, Load
  <1>7. ASSUME NEW t \in Tabs, NEW c \in AllCalls,
               Send(t, c) \/ Unauthorized(t, c) \/ CallFails(t, c)
        PROVE  UNCHANGED familyVars
    BY <1>7 DEF Send, Unauthorized, CallFails
  <1>8. CASE UNCHANGED vars
    BY <1>8 DEF vars, ServerStep, familyVars
  <1>9. QED
    BY <1>1, <1>2, <1>3, <1>4, <1>5, <1>6, <1>7, <1>8 DEF Next, Answered, ServerStep

LEMMA NextTypeOK == TypeOK /\ [Next]_vars => TypeOK'
  <1> SUFFICES ASSUME TypeOK, [Next]_vars PROVE TypeOK'
    OBVIOUS
  <1>a. FamilyTypeOK' /\ TokensStay
    BY ServerOf, ServerSteps DEF TypeOK
  <1>b. NoToken \notin Issued /\ NoToken \notin Issued'
    BY NoTokenAssumption DEF Issued
  <1>c. Logout \in AllCalls
    BY DEF AllCalls
  <1>1. ASSUME NEW t \in Tabs, SignIn(t) PROVE TypeOK'
    BY <1>1, <1>a, <1>b, NewTokens DEF TypeOK, TokensStay, SignIn, SetTokens
  <1>2. ASSUME NEW t \in Tabs, AccessExpires(t) PROVE TypeOK'
    BY <1>2, <1>a DEF TypeOK, TokensStay, AccessExpires
  <1>3. ASSUME NEW t \in Tabs, NEW c \in AllCalls, Send(t, c) PROVE TypeOK'
    BY <1>3, <1>a, <1>b, <1>c DEF TypeOK, TokensStay, Send, Move, KeepStore, CallStates
  <1>4. ASSUME NEW t \in Tabs, NEW c \in AllCalls, Serve(t, c) PROVE TypeOK'
    BY <1>4, <1>a, <1>b, <1>c
    DEF TypeOK, TokensStay, Serve, Move, GivenUp, KeepStore, CallStates, FamilyTypeOK
  <1>f. ASSUME NEW t \in Tabs, NEW c \in AllCalls, CallFails(t, c) PROVE TypeOK'
    BY <1>f, <1>a, <1>b, <1>c
    DEF TypeOK, TokensStay, CallFails, Move, GivenUp, KeepStore, CallStates
  <1>5. ASSUME NEW t \in Tabs, NEW c \in AllCalls, Unauthorized(t, c) PROVE TypeOK'
    <2>1. PICK s \in CallStates : Move(t, c, s)
      BY <1>5 DEF Unauthorized, GivenUp, CallStates
    <2>2. /\ call' \in [Tabs -> [AllCalls -> CallStates]]
          /\ \A u \in Tabs : call'[u][Logout] # "idle" => call[u][Logout] # "idle"
      BY <1>5, <2>1, <1>c DEF TypeOK, Unauthorized, Move
    <2>3. /\ refresh' \in [Tabs -> [phase : {"none", "asked", "rotated", "refused"},
                                   token : Issued \cup {NoToken}]]
          /\ \A u \in Tabs : refresh'[u].phase \in {"asked", "rotated"}
                              <=> refresh'[u].token # NoToken
      <3>1. CASE refresh' = [refresh EXCEPT ![t] = [phase |-> "asked", token |-> held[t]]]
                 /\ held[t] # NoToken
        BY <3>1 DEF TypeOK
      <3>2. CASE UNCHANGED refresh
        BY <3>2 DEF TypeOK
      <3>3. QED
        BY <1>5, <3>1, <3>2 DEF Unauthorized
    <2>4. QED
      BY <1>5, <2>2, <2>3, <1>a DEF TypeOK, TokensStay, Unauthorized, KeepStore
  <1>6. ASSUME NEW t \in Tabs, ServeRefresh(t) PROVE TypeOK'
    <2>1. /\ refresh' \in [Tabs -> [phase : {"none", "asked", "rotated", "refused"},
                                   token : Issued' \cup {NoToken}]]
          /\ \A u \in Tabs : refresh'[u].phase \in {"asked", "rotated"}
                              <=> refresh'[u].token # NoToken
      <3>1. CASE /\ Rotate(refresh[t].token, NewToken)
                 /\ refresh' = [refresh EXCEPT ![t] = [phase |-> "rotated", token |-> NewToken]]
        <4>1. NewToken \in Issued'
          BY <3>1, NewTokens DEF TypeOK
        <4>2. QED
          BY <3>1, <4>1, <1>a, <1>b DEF TypeOK, TokensStay
      <3>2. CASE refresh' = [refresh EXCEPT ![t] = [phase |-> "refused", token |-> NoToken]]
        BY <3>2, <1>a DEF TypeOK, TokensStay
      <3>3. QED
        BY <1>6, <3>1, <3>2 DEF ServeRefresh
    <2>2. QED
      BY <1>6, <2>1, <1>a DEF TypeOK, TokensStay, ServeRefresh, KeepStore
  <1>7. ASSUME NEW t \in Tabs, NEW ok \in BOOLEAN, Resume(t, ok)
        PROVE  /\ call' \in [Tabs -> [AllCalls -> CallStates]]
               /\ \A u \in Tabs : call'[u][Logout] # "idle" => call[u][Logout] # "idle"
    BY <1>7, <1>c DEF TypeOK, Resume, GivenUp, CallStates
  <1>8. ASSUME NEW t \in Tabs, RefreshDone(t) PROVE TypeOK'
    <2>1. PICK ok \in BOOLEAN : Resume(t, ok)
      BY <1>8 DEF RefreshDone
    <2>2. refresh' = [refresh EXCEPT ![t] = NoRefresh]
          /\ UNCHANGED <<payload, orphans, disturbed>>
      BY <1>8 DEF RefreshDone
    <2>3. CASE refresh[t].phase = "rotated" /\ SetTokens(t, refresh[t].token)
      BY <2>3, <1>7, <2>1, <2>2, <1>a, <1>b DEF TypeOK, TokensStay, SetTokens, NoRefresh
    <2>4. CASE ClearAuth(t)
      BY <2>4, <1>7, <2>1, <2>2, <1>a, <1>b DEF TypeOK, TokensStay, ClearAuth, NoRefresh
    <2>5. QED
      BY <1>8, <2>3, <2>4 DEF RefreshDone
  <1>9. ASSUME NEW t \in Tabs, RefreshFails(t) PROVE TypeOK'
    BY <1>9, <1>7, <1>a, <1>b
    DEF TypeOK, TokensStay, RefreshFails, ClearAuth, NoRefresh, Pending
  <1>10. ASSUME NEW t \in Tabs, LogoutDone(t) PROVE TypeOK'
    BY <1>10, <1>a, <1>b, <1>c DEF TypeOK, TokensStay, LogoutDone, ClearAuth, Move, CallStates
  <1>11. ASSUME NEW t \in Tabs, Load(t) PROVE TypeOK'
    BY <1>11, <1>a, <1>b, <1>c DEF TypeOK, TokensStay, Load, NoRefresh, CallStates, FamilyTypeOK
  <1>12. CASE ServeOrphan
    BY <1>12, <1>a DEF TypeOK, TokensStay, ServeOrphan
  <1>13. CASE TokenExpires
    BY <1>13, <1>a, ClientTypes DEF TokenExpires, clientVars
  <1>14. CASE UNCHANGED vars
    BY <1>14, <1>a, ClientTypes DEF vars
  <1>15. QED
    BY <1>1, <1>2, <1>3, <1>4, <1>5, <1>6, <1>8, <1>9, <1>10, <1>11, <1>12, <1>13, <1>14,
       <1>f
    DEF Next, Answered

\* Store, calls and refreshes are well typed, and the tab holds an access token
\* exactly when it holds a refresh token, in every reachable state.
THEOREM TypeCorrect == Spec => []TypeOK
  BY InitTypeOK, NextTypeOK, PTL DEF Spec

-------------------------------------------------------------------------------
\* A tab never shows a retired token

\* Tab t holds token x, or its refresh has sent or got it.
Has(t, x) == held[t] = x \/ refresh[t].token = x

\* What is true of a token whose family no reload and no logout has touched: it is in
\* one place, one tab or a refresh whose page has given up, and it is not retired
\* yet, unless a rotation of it is about to replace it.
Untouched(x) ==
  /\ \A s, t \in Tabs : Has(s, x) /\ Has(t, x) => s = t
  /\ x \in orphans => x \notin revoked /\ \A t \in Tabs : ~Has(t, x)
  /\ \A t \in Tabs :
       /\ refresh[t].token = x => x \notin revoked
       /\ held[t] = x => x \notin revoked \/ refresh[t].phase = "rotated"

TokenInv ==
  /\ TypeOK
  /\ \A x \in Issued : family[x] \notin disturbed => Untouched(x)
  /\ NoForcedLogout

LEMMA InitTokenInv == Init => TokenInv
  BY InitTypeOK DEF Init, TokenInv, FamilyInit, Issued, NoForcedLogout

\* It is enough to look at the tokens of untouched families one by one.
LEMMA EachToken ==
  ASSUME TokenInv, TypeOK', TokensStay, disturbed \subseteq disturbed',
         reported' \subseteq disturbed',
         \A x \in Issued' \ Issued : Untouched(x)',
         \A x \in Issued : family[x] \notin disturbed' /\ Untouched(x) => Untouched(x)'
  PROVE  TokenInv'
  BY DEF TokenInv, TokensStay, NoForcedLogout

\* The usual step retires nothing, or only tokens of touched families.
LEMMA EachTokenKept ==
  ASSUME TokenInv, TypeOK', TokensStay, UNCHANGED family, disturbed \subseteq disturbed',
         reported' \subseteq disturbed',
         \A x \in Issued : family[x] \notin disturbed' /\ Untouched(x) =>
           /\ x \in revoked' => x \in revoked
           /\ x \in orphans' => x \notin revoked /\ \A t \in Tabs : ~Has(t, x)'
           /\ \A t \in Tabs :
                /\ Has(t, x)' => Has(t, x)
                /\ refresh'[t].token = x => x \notin revoked
                /\ held'[t] = x => x \notin revoked \/ refresh'[t].phase = "rotated"
  PROVE  TokenInv'
  <1>1. Issued' = Issued
    BY DEF Issued
  <1>2. ASSUME NEW x \in Issued, family[x] \notin disturbed', Untouched(x)
        PROVE  Untouched(x)'
    BY <1>2 DEF Untouched
  <1>3. QED
    BY <1>1, <1>2, EachToken

LEMMA ServedRefresh ==
  ASSUME TokenInv, NEW t \in Tabs, ServeRefresh(t), TypeOK', TokensStay
  PROVE  TokenInv'
  <1> DEFINE u == refresh[t].token
  <1>1. /\ u \in Issued /\ refresh[t].phase = "asked"
        /\ UNCHANGED <<held, orphans, disturbed>>
    BY DEF ServeRefresh, KeepStore, TokenInv, TypeOK
  <1>2. CASE Rotate(u, NewToken)
             /\ refresh' = [refresh EXCEPT ![t] = [phase |-> "rotated", token |-> NewToken]]
    <2>0. PICK new : new = NewToken
      OBVIOUS
    <2>1. /\ Issued' = Issued \cup {new} /\ new \notin Issued
          /\ revoked' = revoked \cup {u} /\ UNCHANGED reported
      BY <1>2, <1>1, <2>0, NoTokenAssumption DEF Rotate, Live, Issued, TokenInv, TypeOK, FamilyTypeOK
    <2>2. /\ refresh'[t] = [phase |-> "rotated", token |-> new]
          /\ \A s \in Tabs \ {t} : refresh'[s] = refresh[s]
      BY <1>2, <2>0 DEF TokenInv, TypeOK
    <2>3. \A s \in Tabs : new # NoToken /\ held[s] # new
                          /\ refresh[s].token # new
      BY <2>0, <2>1, <1>2, NoTokenAssumption DEF TokenInv, TypeOK, Issued, Rotate
    <2>4. Untouched(new)'
      <3>1. new \notin revoked' /\ new \notin orphans'
        BY <1>1, <2>1 DEF TokenInv, TypeOK, FamilyTypeOK
      <3>2. QED
        BY <1>1, <2>2, <2>3, <3>1 DEF Untouched, Has
    <2>5. ASSUME NEW x \in Issued, family[x] \notin disturbed', Untouched(x)
          PROVE  Untouched(x)'
      <3>1. \A s \in Tabs : Has(s, x)' => Has(s, x)
        BY <1>1, <2>1, <2>2, <2>5 DEF Has
      <3>2. CASE x = u
        <4>1. Has(t, x) /\ x \notin orphans
          BY <3>2, <2>5 DEF Has, Untouched
        <4>2. \A s \in Tabs \ {t} : held[s] # x /\ refresh[s].token # x
          BY <4>1, <2>5 DEF Has, Untouched
        <4>3. QED
          BY <1>1, <2>1, <2>2, <2>5, <3>1, <3>2, <4>1, <4>2 DEF Untouched, Has
      <3>3. CASE x # u
        BY <1>1, <2>1, <2>2, <2>5, <3>1, <3>3 DEF Untouched
      <3>4. QED
        BY <3>2, <3>3
    <2>6. QED
      BY <1>1, <2>1, <2>4, <2>5, EachToken DEF TokenInv, NoForcedLogout
  <1>3. CASE Refused(u)
             /\ refresh' = [refresh EXCEPT ![t] = [phase |-> "refused", token |-> NoToken]]
    <2>1. UNCHANGED family /\ reported' \subseteq disturbed'
          /\ \A x \in Issued : family[x] \notin disturbed' => (x \in revoked' => x \in revoked)
      <3>1. CASE UNCHANGED familyVars
        BY <3>1, <1>1 DEF familyVars, TokenInv, NoForcedLogout
      <3>2. CASE DetectReuse(u)
        <4>1. family[u] \in disturbed
          BY <1>1, <3>2 DEF DetectReuse, TokenInv, Untouched
        <4>2. QED
          BY <3>2, <4>1, <1>1 DEF DetectReuse, FamilyOf, TokenInv, NoForcedLogout
      <3>3. QED
        BY <1>3, <3>1, <3>2 DEF Refused
    <2>2. \A x \in Issued : x # NoToken
      BY NoTokenAssumption DEF Issued
    <2>3. \A s \in Tabs : refresh'[s] = IF s = t THEN [phase |-> "refused", token |-> NoToken]
                                        ELSE refresh[s]
      BY <1>3 DEF TokenInv, TypeOK
    <2>4. ASSUME NEW x \in Issued, Untouched(x), NEW s \in Tabs
          PROVE  /\ Has(s, x)' => Has(s, x)
                 /\ refresh'[s].token = x => x \notin revoked
                 /\ held'[s] = x => x \notin revoked \/ refresh'[s].phase = "rotated"
      BY <1>1, <2>2, <2>3, <2>4 DEF Has, Untouched
    <2>5. \A x \in Issued : Untouched(x) /\ x \in orphans' =>
            x \notin revoked /\ \A s \in Tabs : ~Has(s, x)'
      BY <1>1, <2>4 DEF Untouched
    <2>6. QED
      BY <1>1, <2>1, <2>4, <2>5, EachTokenKept
  <1>4. QED
    BY <1>2, <1>3 DEF ServeRefresh

LEMMA ServedOrphan ==
  ASSUME TokenInv, ServeOrphan, TypeOK', TokensStay
  PROVE  TokenInv'
  <1>1. PICK u \in orphans : /\ Refused(u) \/ Rotate(u, NewToken)
                             /\ orphans' = orphans \ {u}
    BY DEF ServeOrphan
  <1>2. u \in Issued /\ UNCHANGED <<held, refresh, disturbed>>
    BY DEF ServeOrphan, TokenInv, TypeOK
  <1>3. \A s \in Tabs, x \in Tokens : Has(s, x)' <=> Has(s, x)
    BY <1>2 DEF Has
  <1>4. CASE Rotate(u, NewToken)
    <2>0. PICK new : new = NewToken
      OBVIOUS
    <2>1. /\ Issued' = Issued \cup {new} /\ new \notin Issued
          /\ revoked' = revoked \cup {u} /\ UNCHANGED reported
      BY <1>4, <1>2, <2>0, NoTokenAssumption DEF Rotate, Live, Issued, TokenInv, TypeOK, FamilyTypeOK
    <2>2. \A s \in Tabs : held'[s] # new /\ refresh'[s].token # new
      BY <2>0, <2>1, <1>2, <1>4, NoTokenAssumption DEF TokenInv, TypeOK, Issued, Rotate
    <2>3. Untouched(new)'
      BY <1>1, <2>1, <2>2 DEF Untouched, Has, TokenInv, TypeOK
    <2>4. ASSUME NEW x \in Issued, family[x] \notin disturbed', Untouched(x)
          PROVE  Untouched(x)'
      <3>1. CASE x = u
        <4>1. \A s \in Tabs : held[s] # x /\ refresh[s].token # x
          BY <2>4, <3>1 DEF Untouched, Has
        <4>2. QED
          BY <1>1, <1>2, <3>1, <4>1 DEF Untouched, Has
      <3>2. CASE x # u
        BY <1>1, <1>2, <2>1, <2>4, <3>2 DEF Untouched, Has
      <3>3. QED
        BY <3>1, <3>2
    <2>5. QED
      BY <1>2, <2>1, <2>3, <2>4, EachToken DEF TokenInv, NoForcedLogout
  <1>5. CASE Refused(u)
    <2>1. UNCHANGED family /\ reported' \subseteq disturbed'
          /\ \A x \in Issued : family[x] \notin disturbed' => (x \in revoked' => x \in revoked)
      <3>1. CASE UNCHANGED familyVars
        BY <3>1, <1>2 DEF familyVars, TokenInv, NoForcedLogout
      <3>2. CASE DetectReuse(u)
        <4>1. family[u] \in disturbed
          BY <1>2, <3>2 DEF DetectReuse, TokenInv, Untouched
        <4>2. QED
          BY <3>2, <4>1, <1>2 DEF DetectReuse, FamilyOf, TokenInv, NoForcedLogout
      <3>3. QED
        BY <1>5, <3>1, <3>2 DEF Refused
    <2>2. QED
      BY <1>1, <1>2, <2>1, EachTokenKept DEF Untouched, Has
  <1>6. QED
    BY <1>1, <1>4, <1>5

LEMMA NextTokenInv == TokenInv /\ [Next]_vars => TokenInv'
  <1> SUFFICES ASSUME TokenInv, [Next]_vars PROVE TokenInv'
    OBVIOUS
  <1>a. TypeOK' /\ TokensStay
    BY ServerOf, ServerSteps, NextTypeOK DEF TypeOK, TokenInv
  <1>b. \A x \in Issued : x # NoToken
    BY NoTokenAssumption DEF Issued
  <1>c. reported \subseteq disturbed
    BY DEF TokenInv, NoForcedLogout
  \* Nothing is retired and no token comes to a place where it was not.
  <1>q. CASE /\ UNCHANGED <<family, revoked, reported, orphans>> /\ disturbed \subseteq disturbed'
             /\ \A t \in Tabs : /\ held'[t] \in {held[t], NoToken}
                                /\ refresh'[t] = refresh[t]
    BY <1>q, <1>a, <1>b, <1>c, EachTokenKept DEF Untouched, Has
  <1>1. ASSUME NEW t \in Tabs, SignIn(t) PROVE TokenInv'
    <2>0. PICK new : new = NewToken
      OBVIOUS
    <2>1. /\ Issued' = Issued \cup {new} /\ new \notin Issued
          /\ UNCHANGED <<revoked, reported, refresh, orphans, disturbed>>
          /\ held[t] = NoToken /\ held' = [held EXCEPT ![t] = new]
      BY <1>1, <2>0, NoTokenAssumption DEF SignIn, SetTokens, Issue, Issued, TokenInv, TypeOK, FamilyTypeOK
    <2>2. \A s \in Tabs : held[s] # new /\ refresh[s].token # new
      BY <2>0, <2>1, <1>1, NoTokenAssumption DEF TokenInv, TypeOK, Issued, SignIn, Issue
    <2>3. /\ held'[t] = new /\ \A s \in Tabs \ {t} : held'[s] = held[s]
          /\ new \notin orphans /\ new \notin revoked
      BY <2>1 DEF TokenInv, TypeOK, FamilyTypeOK
    <2>4. Untouched(new)'
      BY <2>1, <2>2, <2>3 DEF Untouched, Has
    <2>5. ASSUME NEW x \in Issued, Untouched(x) PROVE Untouched(x)'
      <3>1. \A s \in Tabs : (held'[s] = x => held[s] = x) /\ (Has(s, x)' => Has(s, x))
        BY <2>1, <2>3 DEF Has
      <3>2. QED
        BY <2>1, <2>5, <3>1 DEF Untouched
    <2>6. QED
      BY <1>a, <1>c, <2>1, <2>4, <2>5, EachToken
  <1>2. ASSUME NEW t \in Tabs, AccessExpires(t) PROVE TokenInv'
    BY <1>2, <1>q DEF AccessExpires, familyVars
  <1>3. ASSUME NEW t \in Tabs, NEW c \in AllCalls, Send(t, c) \/ CallFails(t, c)
        PROVE  TokenInv'
    BY <1>3, <1>q DEF Send, CallFails, KeepStore, familyVars
  <1>4. ASSUME NEW t \in Tabs, NEW c \in AllCalls, Serve(t, c) PROVE TokenInv'
    <2>1. CASE c = Logout
      <3>1. /\ payload[t] \in Issued /\ UNCHANGED <<family, reported, held, refresh, orphans>>
            /\ revoked' = revoked \cup {payload[t]}
            /\ disturbed' = disturbed \cup {family[payload[t]]}
        BY <1>4, <2>1 DEF Serve, Retire, KeepStore
      <3>2. \A x \in Issued : family[x] \notin disturbed' => (x \in revoked' => x \in revoked)
        BY <3>1
      <3>3. QED
        BY <1>a, <1>c, <3>1, <3>2, EachTokenKept DEF Untouched, Has
    <2>2. CASE c # Logout
      BY <1>4, <2>2, <1>q DEF Serve, KeepStore, familyVars
    <2>3. QED
      BY <2>1, <2>2
  <1>5. ASSUME NEW t \in Tabs, NEW c \in AllCalls, Unauthorized(t, c) PROVE TokenInv'
    <2>1. CASE UNCHANGED refresh
      BY <1>5, <2>1, <1>q DEF Unauthorized, KeepStore, familyVars
    <2>2. CASE /\ ~Pending(t) /\ held[t] # NoToken
               /\ refresh' = [refresh EXCEPT ![t] = [phase |-> "asked", token |-> held[t]]]
      <3>1. UNCHANGED <<family, revoked, reported, orphans, disturbed, held>>
        BY <1>5 DEF Unauthorized, KeepStore, familyVars
      <3>2. /\ refresh'[t] = [phase |-> "asked", token |-> held[t]]
            /\ \A s \in Tabs \ {t} : refresh'[s] = refresh[s]
            /\ refresh[t].phase = "none"
        BY <2>2 DEF TokenInv, TypeOK, Pending
      <3>3. ASSUME NEW x \in Issued, Untouched(x), NEW s \in Tabs
            PROVE  /\ Has(s, x)' => Has(s, x)
                   /\ refresh'[s].token = x => x \notin revoked
                   /\ held'[s] = x => x \notin revoked \/ refresh'[s].phase = "rotated"
        BY <3>1, <3>2, <3>3 DEF Has, Untouched
      <3>4. QED
        BY <1>a, <1>c, <3>1, <3>3, EachTokenKept DEF Untouched
    <2>3. QED
      BY <1>5, <2>1, <2>2 DEF Unauthorized
  <1>6. ASSUME NEW t \in Tabs, ServeRefresh(t) PROVE TokenInv'
    BY <1>6, <1>a, ServedRefresh
  <1>7. ASSUME NEW t \in Tabs, RefreshDone(t) PROVE TokenInv'
    <2>1. /\ UNCHANGED <<family, revoked, reported, orphans, disturbed>>
          /\ refresh'[t] = NoRefresh /\ \A s \in Tabs \ {t} : refresh'[s] = refresh[s]
      BY <1>7 DEF RefreshDone, familyVars, TokenInv, TypeOK
    <2>2. /\ held'[t] \in {refresh[t].token, NoToken}
          /\ \A s \in Tabs \ {t} : held'[s] = held[s]
      BY <1>7 DEF RefreshDone, SetTokens, ClearAuth, TokenInv, TypeOK
    <2>3. ASSUME NEW x \in Issued, Untouched(x), NEW s \in Tabs
          PROVE  /\ Has(s, x)' => Has(s, x)
                 /\ refresh'[s].token = x => x \notin revoked
                 /\ held'[s] = x => x \notin revoked \/ refresh'[s].phase = "rotated"
      BY <1>b, <2>1, <2>2, <2>3 DEF Has, Untouched, NoRefresh
    <2>4. QED
      BY <1>a, <1>c, <2>1, <2>3, EachTokenKept DEF Untouched
  <1>8. ASSUME NEW t \in Tabs, RefreshFails(t) PROVE TokenInv'
    <2>1. /\ UNCHANGED <<family, revoked, reported, disturbed>>
          /\ refresh'[t] = NoRefresh /\ \A s \in Tabs \ {t} : refresh'[s] = refresh[s]
          /\ held'[t] = NoToken /\ \A s \in Tabs \ {t} : held'[s] = held[s]
          /\ orphans' \subseteq orphans \cup {refresh[t].token}
      BY <1>8 DEF RefreshFails, ClearAuth, familyVars, TokenInv, TypeOK
    <2>2. ASSUME NEW x \in Issued, Untouched(x), NEW s \in Tabs
          PROVE  /\ Has(s, x)' => Has(s, x)
                 /\ refresh'[s].token = x => x \notin revoked
                 /\ held'[s] = x => x \notin revoked \/ refresh'[s].phase = "rotated"
      BY <1>b, <2>1, <2>2 DEF Has, Untouched, NoRefresh
    <2>3. ASSUME NEW x \in Issued, Untouched(x), x \in orphans'
          PROVE  x \notin revoked /\ \A s \in Tabs : ~Has(s, x)'
      <3>1. CASE x \in orphans
        BY <2>2, <2>3, <3>1 DEF Untouched
      <3>2. CASE x = refresh[t].token
        BY <1>b, <2>1, <2>3, <3>2 DEF Untouched, Has, NoRefresh
      <3>3. QED
        BY <2>1, <2>3, <3>1, <3>2
    <2>4. QED
      BY <1>a, <1>c, <2>1, <2>2, <2>3, EachTokenKept DEF Untouched
  <1>9. ASSUME NEW t \in Tabs, LogoutDone(t) PROVE TokenInv'
    BY <1>9, <1>q DEF LogoutDone, ClearAuth, familyVars, TokenInv, TypeOK
  <1>10. ASSUME NEW t \in Tabs, Load(t) PROVE TokenInv'
    <2>1. /\ UNCHANGED <<family, revoked, reported>>
          /\ refresh'[t] = NoRefresh /\ \A s \in Tabs \ {t} : refresh'[s] = refresh[s]
          /\ held'[t] = stored /\ \A s \in Tabs \ {t} : held'[s] = held[s]
          /\ orphans' \subseteq orphans \cup {refresh[t].token}
          /\ disturbed' = disturbed \cup
               {family[y] : y \in {stored, held[t], refresh[t].token} \ {NoToken}}
      BY <1>10 DEF Load, familyVars, TokenInv, TypeOK
    <2>2. ASSUME NEW x \in Issued, family[x] \notin disturbed'
          PROVE  x \notin {stored, held[t], refresh[t].token}
      BY <1>b, <2>1, <2>2
    <2>3. ASSUME NEW x \in Issued, family[x] \notin disturbed', Untouched(x), NEW s \in Tabs
          PROVE  /\ Has(s, x)' => Has(s, x)
                 /\ refresh'[s].token = x => x \notin revoked
                 /\ held'[s] = x => x \notin revoked \/ refresh'[s].phase = "rotated"
      BY <1>b, <2>1, <2>2, <2>3 DEF Has, Untouched, NoRefresh
    <2>4. \A x \in Issued : family[x] \notin disturbed' /\ Untouched(x) /\ x \in orphans' =>
            x \notin revoked /\ \A s \in Tabs : ~Has(s, x)'
      BY <2>1, <2>2, <2>3 DEF Untouched
    <2>5. reported' \subseteq disturbed' /\ disturbed \subseteq disturbed'
      BY <1>c, <2>1
    <2>6. QED
      BY <1>a, <2>1, <2>3, <2>4, <2>5, EachTokenKept
  <1>11. CASE ServeOrphan
    BY <1>11, <1>a, ServedOrphan
  <1>12. CASE TokenExpires
    BY <1>12, <1>q DEF TokenExpires, Expire, clientVars
  <1>13. CASE UNCHANGED vars
    BY <1>13, <1>q DEF vars
  <1>14. QED
    BY <1>1, <1>2, <1>3, <1>4, <1>5, <1>6, <1>7, <1>8, <1>9, <1>10, <1>11, <1>12, <1>13
    DEF Next, Answered

\* However many tabs and calls there are and whatever answers are lost, reuse detection
\* never closes a family that no reload and no logout has touched (inFlightRefresh).
THEOREM NeverForcedOut == Spec => []NoForcedLogout
  <1>1. TokenInv => NoForcedLogout
    BY DEF TokenInv
  <1>2. QED
    BY <1>1, InitTokenInv, NextTokenInv, PTL DEF Spec

\* A tab with no refresh under way holds a token that can be rotated, if no reload and
\* no logout has touched its family (setTokens of the shared refresh).
THEOREM AlwaysHoldsLive == Spec => []HoldsLiveToken
  <1>1. TokenInv => HoldsLiveToken
    BY DEF TokenInv, HoldsLiveToken, Untouched, Pending, TypeOK, Live
  <1>2. QED
    BY <1>1, InitTokenInv, NextTokenInv, PTL DEF Spec

-------------------------------------------------------------------------------
\* What a logout ends

\* The tokens of x's family that can be rotated, and: none but x.
Lives(x) == FamilyOf(x) \cap Live
Sole(x)  == Lives(x) \subseteq {x}

\* The logout call of tab t is in one of the states and names the token the tab holds.
LogoutAt(t, states) == call[t][Logout] \in states /\ payload[t] = held[t]
Answerable == {"fresh", "again", "served"}

\* The tab may hold a token that a rotation has replaced without its knowing: the
\* answer is on its way, or got lost with the page.  Then its access token is stale, so
\* its logout meets a 401 and is not taken by the server under that token.
OutdatedIsStale(t) ==
  held[t] \in orphans \/ (~Sole(held[t]) /\ refresh[t].phase # "rotated") =>
    access[t] = "stale" /\ ~LogoutAt(t, Answerable)

LogoutEnds(t) ==
  LogoutAt(t, {"served"}) /\ refresh[t].phase # "rotated" => Lives(held[t]) = {}

\* The token an answer brings is known to nobody else.
AnswerIsNew(t) ==
  refresh[t].phase = "rotated" =>
    /\ refresh[t].token \notin orphans \cup {held[t], payload[t]}
    /\ Sole(refresh[t].token)

LogoutInv ==
  /\ TypeOK
  /\ OneLiveTokenPerFamily
  /\ \A t \in Tabs :
       /\ stored = held[t]
       /\ AnswerIsNew(t)
       /\ held[t] # NoToken => OutdatedIsStale(t) /\ LogoutEnds(t)

LEMMA InitLogoutInv == Init => LogoutInv
  BY InitTypeOK
  DEF Init, LogoutInv, FamilyInit, Issued, Live, OneLiveTokenPerFamily, AnswerIsNew, NoRefresh

\* What a step of the server does to the tokens of a family that can be rotated.
LEMMA LivesQuiet ==
  ASSUME TypeOK, UNCHANGED family, revoked \subseteq revoked', NEW x
  PROVE  Lives(x)' \subseteq Lives(x)
  BY DEF Lives, FamilyOf, Live, Issued

LEMMA LivesIssue ==
  ASSUME TypeOK, NEW new, Issue(new), NEW x \in Issued
  PROVE  Lives(x)' \subseteq Lives(x)
  BY NoTokenAssumption DEF Issue, Lives, FamilyOf, Live, Issued, TypeOK, FamilyTypeOK

LEMMA LivesRotate ==
  ASSUME TypeOK, NEW u, NEW new, Rotate(u, new), NEW x \in Issued
  PROVE  Lives(x)' \subseteq Lives(x) \/ u \in Lives(x)
  BY NoTokenAssumption DEF Rotate, Lives, FamilyOf, Live, Issued, TypeOK, FamilyTypeOK

LEMMA OneLiveStep ==
  ASSUME TypeOK, OneLiveTokenPerFamily, ServerStep
  PROVE  OneLiveTokenPerFamily'
  <1> USE NoTokenAssumption DEF TypeOK, FamilyTypeOK, OneLiveTokenPerFamily, Live, Issued
  <1>1. CASE UNCHANGED familyVars
    BY <1>1 DEF familyVars
  <1>2. ASSUME NEW t \in Tokens, Issue(t) PROVE OneLiveTokenPerFamily'
    BY <1>2 DEF Issue
  <1>3. ASSUME NEW t \in Tokens, NEW new \in Tokens, Rotate(t, new)
        PROVE  OneLiveTokenPerFamily'
    BY <1>3 DEF Rotate
  <1>4. ASSUME NEW t \in Tokens, DetectReuse(t) \/ Retire(t) \/ Expire(t)
        PROVE  OneLiveTokenPerFamily'
    BY <1>4 DEF DetectReuse, Retire, Expire
  <1>5. QED
    BY <1>1, <1>2, <1>3, <1>4 DEF ServerStep

\* The usual step: the store stays, no answer comes, nothing more can be rotated and no
\* logout gets further than it was.
LEMMA LogoutQuiet ==
  ASSUME LogoutInv, TypeOK', OneLiveTokenPerFamily', UNCHANGED <<held, stored>>,
         \A x \in Issued : Lives(x)' \subseteq Lives(x),
         orphans' \subseteq orphans,
         \A t \in Tabs :
           /\ \/ refresh'[t] = refresh[t]
              \/ refresh[t].phase # "rotated" /\ refresh'[t].phase # "rotated"
           /\ access'[t] = access[t]
              \/ (access'[t] = "stale" /\ call'[t] = call[t] /\ payload'[t] = payload[t])
           /\ refresh[t].phase = "rotated" => payload'[t] # refresh[t].token
           /\ held[t] # NoToken =>
                /\ LogoutAt(t, Answerable)' => LogoutAt(t, Answerable) \/ access[t] = "valid"
                /\ LogoutAt(t, {"served"})' /\ refresh[t].phase # "rotated" =>
                     LogoutAt(t, {"served"}) \/ Lives(held[t])' = {}
  PROVE  LogoutInv'
  <1>1. ASSUME NEW t \in Tabs, refresh[t].phase = "rotated"
        PROVE  refresh[t].token \in Issued
    BY <1>1 DEF LogoutInv, TypeOK
  <1>2. ASSUME NEW t \in Tabs PROVE AnswerIsNew(t)'
    BY <1>1 DEF LogoutInv, AnswerIsNew, Sole
  <1>3. ASSUME NEW t \in Tabs, held[t] # NoToken PROVE OutdatedIsStale(t)'
    <2>1. held[t] \in Issued /\ OutdatedIsStale(t)
      BY <1>3 DEF LogoutInv, TypeOK
    <2>2. Sole(held[t]) => Sole(held[t])'
      BY <2>1 DEF Sole
    <2>3. QED
      BY <1>3, <2>1, <2>2 DEF OutdatedIsStale
  <1>4. ASSUME NEW t \in Tabs, held[t] # NoToken PROVE LogoutEnds(t)'
    <2>1. held[t] \in Issued /\ LogoutEnds(t)
      BY <1>4 DEF LogoutInv, TypeOK
    <2>2. QED
      BY <1>4, <2>1 DEF LogoutEnds
  <1>5. QED
    BY <1>2, <1>3, <1>4 DEF LogoutInv

\* Of a tab without a session there is nothing to say but that no answer is known.
LEMMA LogoutCleared ==
  ASSUME LogoutInv, TypeOK', OneLiveTokenPerFamily', NEW t \in Tabs, Tabs = {t},
         held'[t] = NoToken, stored' = NoToken, UNCHANGED familyVars,
         \/ refresh'[t] = NoRefresh
         \/ UNCHANGED <<refresh, orphans>> /\ payload'[t] = NoToken
  PROVE  LogoutInv'
  <1>1. AnswerIsNew(t)'
    <2>1. CASE refresh'[t] = NoRefresh
      BY <2>1 DEF AnswerIsNew, NoRefresh
    <2>2. CASE UNCHANGED <<refresh, orphans>> /\ payload'[t] = NoToken
      BY <2>2, LivesQuiet
      DEF LogoutInv, TypeOK, AnswerIsNew, Sole, familyVars
    <2>3. QED
      BY <2>1, <2>2
  <1>2. QED
    BY <1>1 DEF LogoutInv

LEMMA NextLogoutInv ==
  ASSUME \A s, t \in Tabs : s = t
  PROVE  LogoutInv /\ [Next]_vars => LogoutInv'
  <1> SUFFICES ASSUME LogoutInv, [Next]_vars PROVE LogoutInv'
    OBVIOUS
  <1>a. TypeOK' /\ TokensStay /\ TypeOK
    BY ServerOf, ServerSteps, NextTypeOK DEF TypeOK, LogoutInv
  <1>b. OneLiveTokenPerFamily'
    BY ServerOf, OneLiveStep, <1>a DEF LogoutInv
  <1>c. \A x \in Issued : x # NoToken
    BY NoTokenAssumption DEF Issued
  <1>s. \A t \in Tabs : Tabs = {t}
    OBVIOUS
  \* Nothing moves but calls that are no logout.
  <1>q. ASSUME UNCHANGED <<family, held, stored, refresh, access, payload>>,
               revoked \subseteq revoked', orphans' \subseteq orphans,
               \A t \in Tabs : call'[t][Logout] = call[t][Logout]
        PROVE  LogoutInv'
    <2>1. \A x \in Issued : Lives(x)' \subseteq Lives(x)
      BY <1>q, <1>a, LivesQuiet
    <2>2. \A t \in Tabs : refresh[t].phase = "rotated" => payload'[t] # refresh[t].token
      BY <1>q DEF LogoutInv, AnswerIsNew
    <2>3. QED
      BY <1>q, <1>a, <1>b, <2>1, <2>2, LogoutQuiet DEF LogoutAt
  <1>1. ASSUME NEW t \in Tabs, SignIn(t) PROVE LogoutInv'
    <2>0. PICK new : new = NewToken
      OBVIOUS
    <2>1. /\ Issue(new) /\ new \in Tokens \ Issued /\ new # NoToken
          /\ held'[t] = new /\ stored' = new
          /\ UNCHANGED <<refresh, call, payload, orphans>>
      BY <1>1, <1>a, <2>0, NoTokenAssumption DEF SignIn, SetTokens, Issue, TypeOK
    <2>2. new \notin orphans \cup {payload[t], refresh[t].token}
      BY <1>a, <2>1 DEF TypeOK
    <2>3. new \in Live'
      BY <1>a, <2>1 DEF Issue, Live, Issued, TypeOK, FamilyTypeOK
    <2>4. Sole(new)'
      BY <1>b, <2>3 DEF OneLiveTokenPerFamily, Sole, Lives, FamilyOf
    <2>5. OutdatedIsStale(t)' /\ LogoutEnds(t)'
      BY <2>1, <2>2, <2>4 DEF OutdatedIsStale, LogoutEnds, LogoutAt
    <2>6. AnswerIsNew(t)'
      <3>1. CASE refresh[t].phase = "rotated"
        <4>1. refresh[t].token \in Issued
          BY <1>a, <3>1 DEF TypeOK
        <4>2. Lives(refresh[t].token)' \subseteq Lives(refresh[t].token)
          BY <1>a, <2>1, <4>1, LivesIssue
        <4>3. QED
          BY <2>1, <2>2, <3>1, <4>2 DEF LogoutInv, AnswerIsNew, Sole
      <3>2. QED
        BY <2>1, <3>1 DEF AnswerIsNew
    <2>7. QED
      BY <1>a, <1>b, <1>s, <2>1, <2>5, <2>6 DEF LogoutInv
  <1>2. ASSUME NEW t \in Tabs, AccessExpires(t) PROVE LogoutInv'
    <2>1. /\ UNCHANGED <<familyVars, held, stored, refresh, call, payload, orphans>>
          /\ access'[t] = "stale"
      BY <1>2, <1>a DEF AccessExpires, TypeOK
    <2>2. \A x \in Issued : Lives(x)' \subseteq Lives(x)
      BY <2>1, <1>a, LivesQuiet DEF familyVars
    <2>3. refresh[t].phase = "rotated" => payload'[t] # refresh[t].token
      BY <2>1 DEF LogoutInv, AnswerIsNew
    <2>4. QED
      BY <1>a, <1>b, <1>s, <2>1, <2>2, <2>3, LogoutQuiet DEF LogoutAt
  <1>3. ASSUME NEW t \in Tabs, NEW c \in AllCalls, Send(t, c) PROVE LogoutInv'
    <2>1. CASE c = Logout
      <3>1. /\ UNCHANGED <<familyVars, held, stored, access, refresh, orphans>>
            /\ payload'[t] = held[t]
            /\ call'[t][Logout] = IF access[t] = "valid" THEN "fresh" ELSE "stale"
        BY <1>3, <1>a, <2>1 DEF Send, Move, KeepStore, TypeOK
      <3>2. refresh[t].phase = "rotated" => payload'[t] # refresh[t].token
        BY <3>1 DEF LogoutInv, AnswerIsNew
      <3>3. \A x \in Issued : Lives(x)' \subseteq Lives(x)
        BY <1>a, <3>1, LivesQuiet DEF familyVars
      <3>4. /\ LogoutAt(t, Answerable)' => access[t] = "valid"
            /\ ~LogoutAt(t, {"served"})'
        BY <3>1 DEF LogoutAt, Answerable
      <3>5. QED
        BY <1>a, <1>b, <1>s, <3>1, <3>2, <3>3, <3>4, LogoutQuiet
    <2>2. CASE c # Logout
      BY <1>3, <1>a, <2>2, <1>q DEF Send, Move, KeepStore, TypeOK, familyVars
    <2>3. QED
      BY <2>1, <2>2
  <1>4. ASSUME NEW t \in Tabs, NEW c \in AllCalls, Serve(t, c) PROVE LogoutInv'
    <2>1. CASE c = Logout
      <3>1. /\ UNCHANGED <<family, held, stored, access, refresh, orphans, payload>>
            /\ payload[t] \in Issued /\ revoked' = revoked \cup {payload[t]}
            /\ call[t][Logout] \in {"fresh", "again"}
        BY <1>4, <1>a, <2>1 DEF Serve, Retire, KeepStore
      <3>2. \A x \in Issued : Lives(x)' \subseteq Lives(x)
        BY <1>a, <3>1, LivesQuiet
      <3>3. ASSUME payload[t] = held[t], refresh[t].phase # "rotated"
            PROVE  Lives(held[t])' = {}
        <4>1. Sole(held[t])
          BY <1>c, <3>1, <3>3 DEF LogoutInv, OutdatedIsStale, LogoutAt, Answerable
        <4>2. held[t] \notin Live'
          BY <3>1, <3>3 DEF Live
        <4>3. Lives(held[t])' \subseteq Live'
          BY <3>1 DEF Lives
        <4>4. QED
          BY <3>1, <3>2, <3>3, <4>1, <4>2, <4>3 DEF Sole
      <3>4. /\ LogoutAt(t, Answerable)' => LogoutAt(t, Answerable)
            /\ LogoutAt(t, {"served"})' => payload[t] = held[t]
        BY <3>1 DEF LogoutAt, Answerable
      <3>5. QED
        BY <1>a, <1>b, <1>s, <3>1, <3>2, <3>3, <3>4, LogoutQuiet DEF LogoutInv, AnswerIsNew
    <2>2. CASE c # Logout
      BY <1>4, <1>a, <2>2, <1>q DEF Serve, Move, KeepStore, TypeOK, familyVars
    <2>3. QED
      BY <2>1, <2>2
  <1>f. ASSUME NEW t \in Tabs, NEW c \in AllCalls, CallFails(t, c) PROVE LogoutInv'
    <2>1. CASE c = Logout
      <3>1. /\ UNCHANGED <<familyVars, held, stored, access, refresh, orphans, payload>>
            /\ call'[t][Logout] = "failed"
        BY <1>f, <1>a, <2>1 DEF CallFails, Move, GivenUp, KeepStore, TypeOK
      <3>2. \A x \in Issued : Lives(x)' \subseteq Lives(x)
        BY <1>a, <3>1, LivesQuiet DEF familyVars
      <3>3. ~LogoutAt(t, Answerable)' /\ ~LogoutAt(t, {"served"})'
        BY <3>1 DEF LogoutAt, Answerable
      <3>4. QED
        BY <1>a, <1>b, <1>s, <3>1, <3>2, <3>3, LogoutQuiet DEF LogoutInv, AnswerIsNew
    <2>2. CASE c # Logout
      BY <1>f, <1>a, <2>2, <1>q DEF CallFails, Move, KeepStore, TypeOK, familyVars
    <2>3. QED
      BY <2>1, <2>2
  <1>5. ASSUME NEW t \in Tabs, NEW c \in AllCalls, Unauthorized(t, c) PROVE LogoutInv'
    <2>1. /\ UNCHANGED <<familyVars, held, stored, access, orphans, payload>>
          /\ call[t][c] = "stale"
          /\ \/ Move(t, c, "waiting")
             \/ Move(t, c, GivenUp(c)) /\ held[t] = NoToken
      BY <1>5 DEF Unauthorized, KeepStore
    <2>2. \/ refresh'[t] = refresh[t]
          \/ refresh[t].phase # "rotated" /\ refresh'[t].phase # "rotated"
      BY <1>5, <1>a DEF Unauthorized, Pending, TypeOK
    <2>3. held[t] # NoToken =>
            /\ LogoutAt(t, Answerable)' => LogoutAt(t, Answerable)
            /\ LogoutAt(t, {"served"})' => LogoutAt(t, {"served"})
      BY <1>a, <2>1 DEF Move, TypeOK, LogoutAt, Answerable, AllCalls
    <2>4. \A x \in Issued : Lives(x)' \subseteq Lives(x)
      BY <1>a, <2>1, LivesQuiet DEF familyVars
    <2>5. QED
      BY <1>a, <1>b, <1>s, <2>1, <2>2, <2>3, <2>4, LogoutQuiet DEF LogoutInv, AnswerIsNew
  <1>6. ASSUME NEW t \in Tabs, ServeRefresh(t) PROVE LogoutInv'
    <2>1. /\ UNCHANGED <<held, stored, access, call, payload, orphans>>
          /\ refresh[t].phase = "asked"
      BY <1>6 DEF ServeRefresh, KeepStore
    <2>2. CASE Rotate(refresh[t].token, NewToken)
               /\ refresh' = [refresh EXCEPT ![t] = [phase |-> "rotated", token |-> NewToken]]
      <3>0. PICK new : new = NewToken
        OBVIOUS
      <3>1. /\ refresh'[t] = [phase |-> "rotated", token |-> new]
            /\ new \in Tokens \ Issued /\ new # NoToken
        BY <1>a, <2>2, <3>0, NoTokenAssumption DEF TypeOK, Rotate
      <3>2. new \in Live'
        BY <1>a, <2>2, <3>0, NoTokenAssumption
        DEF Rotate, Live, Issued, TypeOK, FamilyTypeOK
      <3>3. Sole(new)'
        BY <1>b, <3>2 DEF OneLiveTokenPerFamily, Sole, Lives, FamilyOf
      <3>4. new \notin orphans \cup {held[t], payload[t]}
        BY <1>a, <3>1 DEF TypeOK
      <3>5. AnswerIsNew(t)'
        BY <2>1, <3>1, <3>3, <3>4 DEF AnswerIsNew
      <3>6. held[t] # NoToken => OutdatedIsStale(t)' /\ LogoutEnds(t)'
        BY <2>1, <3>1 DEF LogoutInv, OutdatedIsStale, LogoutEnds, LogoutAt
      <3>7. QED
        BY <1>a, <1>b, <1>s, <2>1, <3>5, <3>6 DEF LogoutInv
    <2>3. CASE Refused(refresh[t].token)
               /\ refresh' = [refresh EXCEPT ![t] = [phase |-> "refused", token |-> NoToken]]
      <3>1. UNCHANGED family /\ revoked \subseteq revoked'
        BY <2>3 DEF Refused, DetectReuse, familyVars
      <3>2. \A x \in Issued : Lives(x)' \subseteq Lives(x)
        BY <1>a, <3>1, LivesQuiet
      <3>3. refresh'[t].phase = "refused"
        BY <1>a, <2>3 DEF TypeOK
      <3>4. QED
        BY <1>a, <1>b, <1>s, <2>1, <3>2, <3>3, LogoutQuiet DEF LogoutAt
    <2>4. QED
      BY <1>6, <2>2, <2>3 DEF ServeRefresh
  <1>7. ASSUME NEW t \in Tabs, RefreshDone(t) PROVE LogoutInv'
    <2>1. /\ UNCHANGED <<familyVars, payload, orphans>> /\ refresh'[t] = NoRefresh
      BY <1>7, <1>a DEF RefreshDone, TypeOK
    <2>2. CASE refresh[t].phase = "rotated"
      <3>1. held'[t] = refresh[t].token /\ stored' = refresh[t].token
        BY <1>7, <1>a, <2>2 DEF RefreshDone, SetTokens, TypeOK
      <3>2. /\ refresh[t].token \notin orphans \cup {payload[t]}
            /\ Sole(refresh[t].token)
        BY <2>2 DEF LogoutInv, AnswerIsNew
      <3>3. OutdatedIsStale(t)' /\ LogoutEnds(t)' /\ AnswerIsNew(t)'
        <4>1. Sole(refresh[t].token) => Sole(held[t])'
          BY <1>a, <2>1, <3>1 DEF Sole, Lives, FamilyOf, Live, Issued, familyVars
        <4>2. QED
          BY <2>1, <3>1, <3>2, <4>1
          DEF OutdatedIsStale, LogoutEnds, AnswerIsNew, LogoutAt, NoRefresh
      <3>4. QED
        BY <1>a, <1>b, <1>s, <3>1, <3>3 DEF LogoutInv
    <2>3. CASE refresh[t].phase # "rotated"
      <3>1. held'[t] = NoToken /\ stored' = NoToken
        BY <1>7, <1>a, <2>3 DEF RefreshDone, ClearAuth, TypeOK
      <3>2. QED
        BY <1>a, <1>b, <1>s, <2>1, <3>1, LogoutCleared
    <2>4. QED
      BY <2>2, <2>3
  <1>8. ASSUME NEW t \in Tabs, RefreshFails(t) PROVE LogoutInv'
    <2>1. /\ UNCHANGED familyVars /\ refresh'[t] = NoRefresh
          /\ held'[t] = NoToken /\ stored' = NoToken
      BY <1>8, <1>a DEF RefreshFails, ClearAuth, TypeOK
    <2>2. QED
      BY <1>a, <1>b, <1>s, <2>1, LogoutCleared
  <1>9. ASSUME NEW t \in Tabs, LogoutDone(t) PROVE LogoutInv'
    <2>1. /\ UNCHANGED <<familyVars, refresh, orphans>> /\ payload'[t] = NoToken
          /\ held'[t] = NoToken /\ stored' = NoToken
      BY <1>9, <1>a DEF LogoutDone, ClearAuth, TypeOK
    <2>2. QED
      BY <1>a, <1>b, <1>s, <2>1, LogoutCleared
  <1>10. ASSUME NEW t \in Tabs, Load(t) PROVE LogoutInv'
    <2>1. /\ refresh'[t] = NoRefresh /\ UNCHANGED stored
          /\ held'[t] = stored /\ (stored # NoToken => access'[t] = "stale")
          /\ call'[t][Logout] = "idle"
      BY <1>10, <1>a DEF Load, TypeOK, AllCalls
    <2>2. AnswerIsNew(t)' /\ (held'[t] # NoToken => OutdatedIsStale(t)' /\ LogoutEnds(t)')
      BY <2>1 DEF AnswerIsNew, NoRefresh, OutdatedIsStale, LogoutEnds, LogoutAt, Answerable
    <2>3. QED
      BY <1>a, <1>b, <1>s, <2>1, <2>2 DEF LogoutInv
  <1>11. CASE ServeOrphan
    <2>1. PICK u \in orphans : /\ Refused(u) \/ Rotate(u, NewToken)
                               /\ orphans' = orphans \ {u}
      BY <1>11 DEF ServeOrphan
    <2>2. /\ UNCHANGED <<held, access, stored, refresh, call, payload>>
          /\ orphans' \subseteq orphans
      BY <1>11, <2>1 DEF ServeOrphan
    <2>3. CASE Refused(u)
      <3>1. UNCHANGED family /\ revoked \subseteq revoked'
        BY <2>3 DEF Refused, DetectReuse, familyVars
      <3>2. QED
        BY <2>2, <3>1, <1>q
    <2>4. CASE Rotate(u, NewToken)
      <3>1. ASSUME NEW x \in Issued PROVE Lives(x)' \subseteq Lives(x) \/ u \in Lives(x)
        BY <1>a, <2>4, LivesRotate
      <3>2. ASSUME NEW t \in Tabs PROVE AnswerIsNew(t)'
        <4>1. CASE refresh[t].phase = "rotated"
          <5>1. refresh[t].token \in Issued /\ AnswerIsNew(t)
            BY <1>a, <4>1 DEF TypeOK, LogoutInv
          <5>2. u \notin Lives(refresh[t].token)
            BY <2>1, <4>1, <5>1 DEF AnswerIsNew, Sole
          <5>3. Lives(refresh[t].token)' \subseteq Lives(refresh[t].token)
            BY <2>2, <3>1, <5>1, <5>2
          <5>4. QED
            BY <2>2, <4>1, <5>1, <5>3 DEF AnswerIsNew, Sole
        <4>2. QED
          BY <2>2, <4>1 DEF AnswerIsNew
      <3>3. ASSUME NEW t \in Tabs, held[t] # NoToken
            PROVE  OutdatedIsStale(t)' /\ LogoutEnds(t)'
        <4>1. held[t] \in Issued /\ OutdatedIsStale(t) /\ LogoutEnds(t)
          BY <1>a, <3>3 DEF TypeOK, LogoutInv
        <4>2. (LogoutAt(t, Answerable)' <=> LogoutAt(t, Answerable))
              /\ (LogoutAt(t, {"served"})' <=> LogoutAt(t, {"served"}))
          BY <2>2 DEF LogoutAt
        <4>3. CASE u \in Lives(held[t])
          <5>1. held[t] \in orphans \/ ~Sole(held[t])
            BY <2>1, <4>3 DEF Sole
          <5>2. QED
            BY <2>2, <4>1, <4>2, <4>3, <5>1 DEF OutdatedIsStale, LogoutEnds
        <4>4. CASE Lives(held[t])' \subseteq Lives(held[t])
          BY <2>2, <4>1, <4>2, <4>4 DEF OutdatedIsStale, LogoutEnds, Sole
        <4>5. QED
          BY <2>2, <3>1, <4>1, <4>3, <4>4
      <3>4. QED
        BY <1>a, <1>b, <2>2, <3>2, <3>3 DEF LogoutInv
    <2>5. QED
      BY <2>1, <2>3, <2>4
  <1>12. CASE TokenExpires
    BY <1>12, <1>q DEF TokenExpires, Expire, clientVars
  <1>13. CASE UNCHANGED vars
    BY <1>13, <1>q DEF vars
  <1>14. QED
    BY <1>1, <1>2, <1>3, <1>4, <1>5, <1>6, <1>7, <1>8, <1>9, <1>10, <1>11, <1>12, <1>13, <1>f
    DEF Next, Answered

\* In a browser with one tab, a logout that the server took and that names the token the
\* tab holds leaves no token of the session that could be rotated, expired or not,
\* whatever refresh requests earlier pages have left behind (useLogout, auth.service.ts
\* logout).  A second tab may have rotated the family under this one.
THEOREM LogoutEndsIt ==
  ASSUME \A s, t \in Tabs : s = t
  PROVE  Spec => []LogoutEndsSession
  <1>1. LogoutInv => LogoutEndsSession
    BY DEF LogoutInv, LogoutEndsSession, LogoutEnds, LogoutAt, Lives, Pending, TypeOK
  <1>2. QED
    BY <1>1, InitLogoutInv, NextLogoutInv, PTL DEF Spec

-------------------------------------------------------------------------------
\* What a session leaves behind

Sessions == Tokens \cup {NoToken}

KeptTypes ==
  /\ cached \in [Tabs -> SUBSET Tokens]
  /\ asker \in [Tabs -> [Calls -> Sessions]]
  /\ socket \in [Tabs -> Sessions]
  /\ undone \in [Tabs -> SUBSET Tokens]

\* Tab t has something of session s: data, a connection, or a call that will bring data.
Keeps(t, s) == s \in cached[t] \/ socket[t] = s \/ \E c \in Calls : asker[t][c] = s

\* The strengthening: calls under way count as well, and a tab without a session only
\* keeps what was left undone.
Accounted(t) ==
  \A s \in Tokens :
    Keeps(t, s) => s \in undone[t] \/ (held[t] # NoToken /\ s = SessionOf(t))

KeptInv == TypeOK /\ KeptTypes /\ \A t \in Tabs : Accounted(t)

LEMMA InitKept == SessionInit => KeptInv
  BY InitTypeOK, NoTokenAssumption
  DEF SessionInit, Init, KeptInv, KeptTypes, Sessions, Accounted, Keeps

LEMMA SessionStep ==
  ASSUME [SessionNext]_sessionVars
  PROVE  [Next]_vars
  BY DEF SessionNext, sessionVars, vars, Next, Answered, SendQuery, ServeQuery, FailQuery,
         UnauthorizedQuery, RefreshSession, LoseSession, Leave, LoadPage, Connect,
         ConnectionLost

\* A tab that gets at most something of the session it holds is still accounted for.
LEMMA StillAccounted ==
  ASSUME KeptInv, TokensStay, NEW u \in Tabs, undone[u] \subseteq undone'[u],
         held'[u] = held[u] \/ held[u] = NoToken,
         \A s \in Tokens : Keeps(u, s)' =>
           Keeps(u, s) \/ (held[u] # NoToken /\ s = SessionOf(u))
  PROVE  Accounted(u)'
  <1>1. held[u] # NoToken => held'[u] = held[u] /\ SessionOf(u)' = SessionOf(u)
    BY DEF KeptInv, TypeOK, TokensStay, SessionOf
  <1>2. SUFFICES ASSUME NEW s \in Tokens, Keeps(u, s)'
                 PROVE  s \in undone'[u] \/ (held'[u] # NoToken /\ s = SessionOf(u)')
    BY DEF Accounted
  <1>3. Keeps(u, s) \/ (held[u] # NoToken /\ s = SessionOf(u))
    BY <1>2
  <1>4. s \in undone[u] \/ (held[u] # NoToken /\ s = SessionOf(u))
    BY <1>3 DEF KeptInv, Accounted
  <1>5. QED
    BY <1>1, <1>4

\* A tab whose variables stay keeps its account.
LEMMA Elsewhere ==
  ASSUME KeptInv, TokensStay, NEW u \in Tabs, Accounted(u),
         held'[u] = held[u], cached'[u] = cached[u], socket'[u] = socket[u],
         asker'[u] = asker[u], undone'[u] = undone[u]
  PROVE  Accounted(u)'
  BY StillAccounted DEF Keeps

LEMMA NextKept == KeptInv /\ [SessionNext]_sessionVars => KeptInv'
  <1> SUFFICES ASSUME KeptInv, [SessionNext]_sessionVars PROVE KeptInv'
    OBVIOUS
  <1> USE DEF Sessions
  <1>a. TypeOK' /\ TokensStay
    BY SessionStep, NextTypeOK, ServerOf, ServerSteps DEF KeptInv, TypeOK
  <1>b. NoToken \notin Tokens
    BY NoTokenAssumption
  <1>c. \A t \in Tabs : held[t] # NoToken => held[t] \in Issued /\ SessionOf(t) \in Tokens
    BY DEF KeptInv, TypeOK, FamilyTypeOK, SessionOf, Issued
  <1>q. CASE UNCHANGED keptVars /\ \A t \in Tabs : held'[t] = held[t] \/ held[t] = NoToken
    <2>1. KeptTypes'
      BY <1>q DEF KeptInv, KeptTypes, keptVars
    <2>2. ASSUME NEW u \in Tabs PROVE Accounted(u)'
      BY <1>q, <1>a, StillAccounted DEF Keeps, keptVars
    <2>3. QED
      BY <1>a, <2>1, <2>2 DEF KeptInv
  <1>1. ASSUME NEW t \in Tabs, SignIn(t) \/ AccessExpires(t) \/ ServeRefresh(t),
               UNCHANGED keptVars
        PROVE  KeptInv'
    BY <1>1, <1>q DEF SignIn, SetTokens, AccessExpires, ServeRefresh, KeepStore, KeptInv, TypeOK
  <1>2. CASE (ServeOrphan \/ TokenExpires) /\ UNCHANGED keptVars
    BY <1>2, <1>q DEF ServeOrphan, TokenExpires, clientVars
  <1>3. CASE UNCHANGED sessionVars
    BY <1>3, <1>q DEF sessionVars, vars, keptVars
  <1>4. ASSUME NEW t \in Tabs, NEW c \in AllCalls, SendQuery(t, c) PROVE KeptInv'
    <2>1. held[t] # NoToken /\ UNCHANGED held
      BY <1>4 DEF SendQuery, Send, KeepStore, KeptInv, TypeOK
    <2>2. KeptTypes'
      BY <1>4, <1>c, <2>1 DEF SendQuery, KeptInv, KeptTypes
    <2>3. Accounted(t)'
      BY <1>4, <1>a, <1>c, <2>1
      DEF SendQuery, KeptInv, KeptTypes, TypeOK, TokensStay, Accounted, Keeps, SessionOf
    <2>4. ASSUME NEW u \in Tabs, u # t PROVE Accounted(u)'
      BY <1>4, <1>a, <2>1, <2>4, Elsewhere DEF SendQuery, KeptInv, KeptTypes
    <2>5. QED
      BY <1>a, <2>2, <2>3, <2>4 DEF KeptInv
  <1>5. ASSUME NEW t \in Tabs, NEW c \in AllCalls, ServeQuery(t, c) PROVE KeptInv'
    <2>1. UNCHANGED held
      BY <1>5 DEF ServeQuery, Serve, KeepStore
    <2>2. KeptTypes'
      <3>1. CASE c = Logout
        BY <1>5, <3>1 DEF ServeQuery, KeptInv, KeptTypes
      <3>2. CASE c \in Calls
        <4>1. asker[t][c] \in Sessions /\ c # Logout
          BY <3>2, CallsAssumption DEF KeptInv, KeptTypes
        <4>2. cached' = [cached EXCEPT ![t] = @ \cup ({asker[t][c]} \ {NoToken})]
          BY <1>5, <4>1 DEF ServeQuery
        <4>3. cached' \in [Tabs -> SUBSET Tokens]
          BY <4>1, <4>2 DEF KeptInv, KeptTypes
        <4>4. asker' = [asker EXCEPT ![t][c] = NoToken]
          BY <1>5, <4>1 DEF ServeQuery
        <4>5. asker' \in [Tabs -> [Calls -> Sessions]]
          BY <3>2, <4>4 DEF KeptInv, KeptTypes
        <4>6. QED
          BY <1>5, <4>3, <4>5 DEF ServeQuery, KeptInv, KeptTypes
      <3>3. QED
        BY <3>1, <3>2 DEF AllCalls
    <2>3. Accounted(t)'
      <3>1. \A s \in Tokens : Keeps(t, s)' => Keeps(t, s)
        BY <1>5, <1>b, CallsAssumption DEF ServeQuery, KeptInv, KeptTypes, Keeps, AllCalls
      <3>2. QED
        BY <1>5, <1>a, <2>1, <3>1, StillAccounted DEF ServeQuery
    <2>4. ASSUME NEW u \in Tabs, u # t PROVE Accounted(u)'
      BY <1>5, <1>a, <2>1, <2>4, Elsewhere DEF ServeQuery, KeptInv, KeptTypes
    <2>5. QED
      BY <1>a, <2>2, <2>3, <2>4 DEF KeptInv
  \* Calls that waited are repeated for the session that is given, or dropped.
  <1>r. ASSUME NEW t \in Tabs, NEW s \in Sessions, Repeated(t, s)
        PROVE  /\ asker' \in [Tabs -> [Calls -> Sessions]]
               /\ \A c \in Calls : asker'[t][c] \in {s, NoToken, asker[t][c]}
               /\ \A u \in Tabs : u # t => asker'[u] = asker[u]
    BY <1>r DEF Repeated, KeptInv, KeptTypes
  \* A session that ends is what is left undone, unless the next one is the same.
  <1>e. ASSUME NEW t \in Tabs, NEW s \in Sessions, EndsUnless(t, s)
        PROVE  /\ undone' \in [Tabs -> SUBSET Tokens]
               /\ undone[t] \subseteq undone'[t]
               /\ held[t] # NoToken => SessionOf(t) \in undone'[t] \cup {s}
               /\ \A u \in Tabs : u # t => undone'[u] = undone[u]
    BY <1>e, <1>c DEF EndsUnless, KeptInv, KeptTypes
  <1>6. ASSUME NEW t \in Tabs, NEW c \in AllCalls, UnauthorizedQuery(t, c) PROVE KeptInv'
    <2>1. UNCHANGED <<held, cached, socket, undone>> /\ Repeated(t, NoToken)
      BY <1>6 DEF UnauthorizedQuery, Unauthorized, KeepStore
    <2>2. KeptTypes'
      BY <2>1, <1>r DEF KeptInv, KeptTypes
    <2>3. Accounted(t)'
      <3>1. \A c1 \in Calls : asker'[t][c1] \in {NoToken, asker[t][c1]}
        BY <2>1, <1>r
      <3>2. \A s \in Tokens : Keeps(t, s)' => Keeps(t, s)
        BY <2>1, <3>1, <1>b DEF Keeps
      <3>3. QED
        BY <2>1, <1>a, <3>2, StillAccounted
    <2>4. ASSUME NEW u \in Tabs, u # t PROVE Accounted(u)'
      BY <2>1, <1>r, <1>a, <2>4, Elsewhere DEF KeptInv
    <2>5. QED
      BY <1>a, <2>2, <2>3, <2>4 DEF KeptInv
  <1>f. ASSUME NEW t \in Tabs, NEW c \in AllCalls, FailQuery(t, c) PROVE KeptInv'
    <2>1. UNCHANGED <<held, cached, socket, undone>>
      BY <1>f DEF FailQuery, CallFails, KeepStore
    <2>2. /\ asker' \in [Tabs -> [Calls -> Sessions]]
          /\ \A c1 \in Calls : asker'[t][c1] \in {NoToken, asker[t][c1]}
          /\ \A u \in Tabs : u # t => asker'[u] = asker[u]
      BY <1>f DEF FailQuery, KeptInv, KeptTypes, AllCalls
    <2>3. KeptTypes'
      BY <2>1, <2>2 DEF KeptInv, KeptTypes
    <2>4. Accounted(t)'
      <3>1. \A s \in Tokens : Keeps(t, s)' => Keeps(t, s)
        BY <2>1, <2>2, <1>b DEF Keeps
      <3>2. QED
        BY <2>1, <1>a, <3>1, StillAccounted
    <2>5. ASSUME NEW u \in Tabs, u # t PROVE Accounted(u)'
      BY <2>1, <2>2, <1>a, <2>5, Elsewhere DEF KeptInv
    <2>6. QED
      BY <1>a, <2>3, <2>4, <2>5 DEF KeptInv
  \* The tokens of session s, or none, take the place of those held.
  <1>h. ASSUME NEW t \in Tabs, NEW s \in Sessions, Repeated(t, s), EndsUnless(t, s),
               UNCHANGED <<cached, socket>>,
               \A u \in Tabs : u # t => held'[u] = held[u],
               IF s = NoToken THEN held'[t] = NoToken
               ELSE held'[t] # NoToken /\ family'[held'[t]] = s
        PROVE  KeptInv'
    <2>1. KeptTypes'
      BY <1>h, <1>r, <1>e DEF KeptInv, KeptTypes
    <2>2. Accounted(t)'
      <3>1. SUFFICES ASSUME NEW x \in Tokens, Keeps(t, x)'
                     PROVE  x \in undone'[t] \/ (held'[t] # NoToken /\ x = SessionOf(t)')
        BY DEF Accounted
      <3>2. Keeps(t, x) \/ x = s
        BY <1>h, <1>r, <3>1, <1>b DEF Keeps
      <3>3. x = s => (held'[t] # NoToken /\ x = SessionOf(t)')
        BY <1>h, <1>b DEF SessionOf
      <3>4. Keeps(t, x) => x \in undone'[t] \cup {s}
        BY <1>h, <1>e DEF KeptInv, Accounted
      <3>5. QED
        BY <3>2, <3>3, <3>4
    <2>3. ASSUME NEW u \in Tabs, u # t PROVE Accounted(u)'
      BY <1>h, <1>r, <1>e, <1>a, <2>3, Elsewhere DEF KeptInv
    <2>4. QED
      BY <1>a, <2>1, <2>2, <2>3 DEF KeptInv
  <1>7. ASSUME NEW t \in Tabs, RefreshSession(t) PROVE KeptInv'
    <2>1. CASE refresh[t].phase = "rotated"
      <3>1. /\ refresh[t].token \in Issued /\ family[refresh[t].token] \in Tokens
            /\ refresh[t].token # NoToken
        BY <2>1, <1>b DEF KeptInv, TypeOK, FamilyTypeOK, Issued
      <3>2. held' = [held EXCEPT ![t] = refresh[t].token] /\ UNCHANGED family
        BY <1>7, <2>1 DEF RefreshSession, RefreshDone, SetTokens, familyVars
      <3>3. family'[held'[t]] = family[refresh[t].token]
        BY <3>2 DEF KeptInv, TypeOK
      <3>4. QED
        BY <1>7, <2>1, <3>1, <3>2, <3>3, <1>b, <1>h DEF RefreshSession, KeptInv, TypeOK
    <2>2. CASE refresh[t].phase # "rotated"
      BY <1>7, <2>2, <1>h DEF RefreshSession, RefreshDone, ClearAuth, KeptInv, TypeOK
    <2>3. QED
      BY <2>1, <2>2
  <1>8. ASSUME NEW t \in Tabs, LoseSession(t) PROVE KeptInv'
    BY <1>8, <1>h DEF LoseSession, RefreshFails, ClearAuth, KeptInv, TypeOK
  <1>9. ASSUME NEW t \in Tabs, Leave(t) \/ LoadPage(t) PROVE KeptInv'
    <2>1. Emptied(t)
      BY <1>9 DEF Leave, LoadPage
    <2>2. \A u \in Tabs : u # t => held'[u] = held[u]
      BY <1>9 DEF Leave, LoadPage, LogoutDone, Load, ClearAuth, KeptInv, TypeOK
    <2>3. KeptTypes'
      BY <2>1 DEF Emptied, KeptInv, KeptTypes
    <2>4. Accounted(t)'
      BY <2>1, <1>b DEF Emptied, KeptInv, KeptTypes, Accounted, Keeps
    <2>5. ASSUME NEW u \in Tabs, u # t PROVE Accounted(u)'
      BY <2>1, <2>2, <1>a, <2>5, Elsewhere DEF Emptied, KeptInv, KeptTypes
    <2>6. QED
      BY <1>a, <2>3, <2>4, <2>5 DEF KeptInv
  <1>10. ASSUME NEW t \in Tabs, Connect(t) \/ ConnectionLost(t) PROVE KeptInv'
    <2>1. /\ UNCHANGED <<held, family, cached, asker, undone>>
          /\ \E s \in Sessions :
               /\ socket' = [socket EXCEPT ![t] = s]
               /\ s = NoToken \/ (held[t] # NoToken /\ s = SessionOf(t))
      <3>1. CASE Connect(t)
        <4>1. held[t] # NoToken
          BY <3>1 DEF Connect, KeptInv, TypeOK
        <4>2. QED
          BY <3>1, <4>1, <1>c DEF Connect, vars
      <3>2. CASE ConnectionLost(t)
        BY <3>2 DEF ConnectionLost, vars
      <3>3. QED
        BY <1>10, <3>1, <3>2
    <2>2. KeptTypes'
      BY <2>1 DEF KeptInv, KeptTypes
    <2>3. Accounted(t)'
      <3>1. \A s \in Tokens : Keeps(t, s)' =>
              Keeps(t, s) \/ (held[t] # NoToken /\ s = SessionOf(t))
        BY <2>1, <1>b DEF KeptInv, KeptTypes, Keeps
      <3>2. QED
        BY <2>1, <1>a, <3>1, StillAccounted
    <2>4. ASSUME NEW u \in Tabs, u # t PROVE Accounted(u)'
      BY <2>1, <1>a, <2>4, Elsewhere DEF KeptInv, KeptTypes
    <2>5. QED
      BY <1>a, <2>2, <2>3, <2>4 DEF KeptInv
  <1>11. QED
    BY <1>1, <1>2, <1>3, <1>4, <1>5, <1>6, <1>7, <1>8, <1>9, <1>10, <1>f
    DEF SessionNext

\* Whatever calls are answered late and however many tabs there are, whoever signs in
\* after a logout gets nothing of the session before (useLogout, api-client.ts).
THEOREM LogoutLeavesNothing == SessionSpec => []SignOutLeavesNothing
  <1>1. ASSUME KeptInv PROVE SignOutLeavesNothing
    BY <1>1 DEF KeptInv, KeptTypes, Sessions, Accounted, Keeps, SignOutLeavesNothing
  <1>2. QED
    BY InitKept, NextKept, <1>1, PTL DEF SessionSpec
===============================================================================
