------------------------------ MODULE AuthProofs ------------------------------
(***************************************************************************)
(* Refresh tokens, for every number of tokens and requests: what           *)
(* TokenFamilies promises, what the statements keep whatever races, and    *)
(* that requests served one after the other per family keep the promises.  *)
(***************************************************************************)
EXTENDS RefreshTokens, FiniteSetTheorems, TLAPS

-------------------------------------------------------------------------------
\* TokenFamilies

\* Families hang together: a family is named by an issued token, which is of it,
\* has at most one live token, and none once it is reported.
FamilyInv ==
  /\ FamilyTypeOK
  /\ \A t \in Issued : family[family[t]] = family[t]
  /\ OneLiveTokenPerFamily
  /\ ReportedFamilyStaysClosed
  /\ \A f \in reported : family[f] = f

LEMMA FamilyInvInit == FamilyInit => FamilyInv
  BY NoTokenAssumption
  DEF FamilyInit, FamilyInv, FamilyTypeOK, Issued, Live, OneLiveTokenPerFamily,
      ReportedFamilyStaysClosed

LEMMA FamilyInvStep == FamilyInv /\ [FamilyNext]_familyVars => FamilyInv'
<1> SUFFICES ASSUME FamilyInv, [FamilyNext]_familyVars PROVE FamilyInv'
  OBVIOUS
<1> USE NoTokenAssumption
<1> USE DEF FamilyInv, FamilyTypeOK, Issued, Live, OneLiveTokenPerFamily,
            ReportedFamilyStaysClosed
<1>1. ASSUME NEW t \in Tokens, Issue(t) PROVE FamilyInv'
  BY <1>1 DEF Issue
<1>2. ASSUME NEW t \in Tokens, NEW new \in Tokens, Rotate(t, new) PROVE FamilyInv'
  BY <1>2 DEF Rotate
<1>3. ASSUME NEW t \in Tokens, DetectReuse(t) PROVE FamilyInv'
  BY <1>3 DEF DetectReuse, FamilyOf
<1>4. ASSUME NEW t \in Tokens, Retire(t) PROVE FamilyInv'
  BY <1>4 DEF Retire
<1>5. ASSUME NEW t \in Tokens, Expire(t) PROVE FamilyInv'
  BY <1>5 DEF Expire
<1>6. CASE UNCHANGED familyVars
  BY <1>6 DEF familyVars
<1>7. QED
  BY <1>1, <1>2, <1>3, <1>4, <1>5, <1>6 DEF FamilyNext

\* The one-step operations of AuthService keep at most one live token per family
\* and never reopen a reported family (auth.service.ts, refresh).
THEOREM FamiliesKeepTheirPromises ==
  FamilySpec => [](OneLiveTokenPerFamily /\ ReportedFamilyStaysClosed)
<1>1. FamilyInv => OneLiveTokenPerFamily /\ ReportedFamilyStaysClosed
  BY DEF FamilyInv
<1>2. QED
  BY FamilyInvInit, FamilyInvStep, <1>1, PTL DEF FamilySpec

-------------------------------------------------------------------------------
\* RefreshTokens: types

LEMMA TypeInit == Init => TypeOK
  BY NoTokenAssumption, NoReqAssumption
  DEF Init, FamilyInit, TypeOK, FamilyTypeOK, Issued, InTx, Waiting, Effective, Failures

LEMMA TypeStep == TypeOK /\ [Next]_vars => TypeOK'
<1> SUFFICES ASSUME TypeOK, [Next]_vars PROVE TypeOK'
  OBVIOUS
<1> USE NoTokenAssumption, NoReqAssumption
<1> USE DEF TypeOK, FamilyTypeOK, Issued, InTx, Waiting, Effective, Failures, familyVars
<1>1. ASSUME NEW r \in Reqs, Arrive(r) PROVE TypeOK'
  <2>1. CASE Login(r)
    BY <2>1 DEF Login, Issue, Commit
  <2>2. ASSUME NEW e \in Emails, RegisterFind(r, e) PROVE TypeOK'
    BY <2>2 DEF RegisterFind, Reply, Goto
  <2>3. ASSUME NEW t \in Tokens, RefreshFind(r, t) PROVE TypeOK'
    BY <2>3 DEF RefreshFind, Reply, Goto
  <2>4. ASSUME NEW t \in Tokens, Logout(r, t) PROVE TypeOK'
    BY <2>4 DEF Logout, Retire, Commit
  <2>5. QED
    BY <1>1, <2>1, <2>2, <2>3, <2>4 DEF Arrive
<1>2. ASSUME NEW r \in Reqs, Serve(r) PROVE TypeOK'
  <2>1. CASE RegisterCreate(r)
    <3>1. given[r] \in Emails /\ r \notin {lock[t] : t \in Tokens}
      BY <2>1 DEF RegisterCreate
    <3>2. accounts' \subseteq Emails
      BY <2>1, <3>1 DEF RegisterCreate
    <3>3. /\ pc' \in [Reqs -> Waiting \cup {"idle", "answer", "done"}]
          /\ answer' \in [Reqs -> Effective \cup Failures \cup {"none", "lost"}]
          /\ pc'[r] \in {"register.issue", "done"} /\ outcome' = outcome
          /\ answer'[r] = "none" <=> pc'[r] # "done"
          /\ \A q \in Reqs \ {r} : pc'[q] = pc[q] /\ answer'[q] = answer[q]
      BY <2>1 DEF RegisterCreate, Reply, Goto
    <3>4. UNCHANGED <<familyVars, lock, given, targets>>
      BY <2>1 DEF RegisterCreate
    <3>5. pc[r] = "register.create" /\ outcome[r] = "none"
      BY <2>1 DEF RegisterCreate
    <3>6. \A q \in Reqs : /\ answer'[q] = "none" <=> pc'[q] # "done"
                          /\ outcome'[q] # "none" => pc'[q] \in {"answer", "done"}
                          /\ outcome'[q] = "none" => pc'[q] # "answer"
      BY <3>3, <3>5
    <3>7. QED
      BY <3>1, <3>2, <3>3, <3>4, <3>5, <3>6
  <2>2. CASE RegisterIssue(r)
    BY <2>2 DEF RegisterIssue, Issue, Commit
  <2>3. CASE RotateUpdate(r)
    BY <2>3 DEF RotateUpdate, Take, Goto
  <2>4. CASE RotateCommit(r)
    <3>1. PICK new \in Tokens \ Issued :
            family' = [family EXCEPT ![new] = family[given[r]]]
      BY <2>4 DEF RotateCommit
    <3>2. given[r] \in Issued /\ family[given[r]] \in Issued
      BY <2>4 DEF RotateCommit
    <3>3. Issued' = Issued \cup {new}
      BY <3>1, <3>2
    <3>4. FamilyTypeOK'
      BY <2>4, <3>1, <3>2, <3>3 DEF RotateCommit
    <3>5. /\ lock' \in [Tokens -> Reqs \cup {NoReq}]
          /\ \A t \in Tokens : lock'[t] # NoReq =>
               pc'[lock'[t]] \in {"rotate.commit", "reuse.commit"}
      BY <2>4 DEF RotateCommit, Release, Commit
    <3> HIDE DEF Issued
    <3>6. QED
      BY <2>4, <3>3, <3>4, <3>5 DEF RotateCommit, Commit
  <2>5. CASE ReuseUpdate(r)
    <3> DEFINE rows == FamilyOf(given[r]) \ revoked
    <3>1. rows \subseteq Issued /\ pc[r] = "reuse.update" /\ pc'[r] # "done"
      BY <2>5 DEF ReuseUpdate, FamilyOf, Goto
    <3>2. /\ targets' = [targets EXCEPT ![r] = rows]
          /\ pc' \in [Reqs -> Waiting \cup {"idle", "answer", "done"}]
          /\ \A q \in Reqs \ {r} : pc'[q] = pc[q]
          /\ pc'[r] \in InTx
          /\ UNCHANGED <<familyVars, accounts, given, outcome, answer>>
      BY <2>5 DEF ReuseUpdate, Goto
    <3>3. /\ lock' \in [Tokens -> Reqs \cup {NoReq}]
          /\ \A t \in Tokens : lock'[t] # NoReq =>
               pc'[lock'[t]] \in {"rotate.commit", "reuse.commit"}
      BY <2>5, <3>1 DEF ReuseUpdate, Take, Goto, Free
    <3>4. QED
      BY <3>1, <3>2, <3>3
  <2>6. CASE ReuseUpdateDone(r)
    BY <2>6 DEF ReuseUpdateDone, Take, Goto
  <2>7. CASE ReuseCommit(r)
    <3> HIDE DEF Issued
    <3>1. /\ given[r] \in Issued /\ family[given[r]] \in Issued
          /\ targets[r] \subseteq Issued
      BY <2>7 DEF ReuseCommit
    <3>5. Issued' = Issued
      BY <2>7 DEF ReuseCommit, Issued
    <3>2. FamilyTypeOK'
      BY <2>7, <3>1, <3>5 DEF ReuseCommit
    <3>3. /\ lock' \in [Tokens -> Reqs \cup {NoReq}]
          /\ \A t \in Tokens : lock'[t] # NoReq =>
               pc'[lock'[t]] \in {"rotate.commit", "reuse.commit"}
      BY <2>7 DEF ReuseCommit, Release, Commit
    <3>4. QED
      BY <2>7, <3>1, <3>2, <3>3, <3>5 DEF ReuseCommit, Commit
  <2>8. CASE Answer(r)
    BY <2>8 DEF Answer, Reply
  <2>9. QED
    BY <1>2, <2>1, <2>2, <2>3, <2>4, <2>5, <2>6, <2>7, <2>8 DEF Serve
<1>3. ASSUME NEW r \in Reqs, Abort(r) \/ LoseAnswer(r) PROVE TypeOK'
  BY <1>3 DEF Abort, LoseAnswer, Release, Reply
<1>4. CASE TokenExpires
  BY <1>4 DEF TokenExpires, Expire
<1>5. CASE Crash
  BY <1>5 DEF Crash
<1>6. CASE UNCHANGED vars
  BY <1>6 DEF vars
<1>7. QED
  BY <1>1, <1>2, <1>3, <1>4, <1>5, <1>6 DEF Next

\* Rows, locks, inputs and answers have the values the code gives them, and only
\* a request between its UPDATE and its commit holds a row.
THEOREM TypeCorrect == Spec => []TypeOK
  BY TypeInit, TypeStep, PTL DEF Spec

-------------------------------------------------------------------------------
\* What no step undoes

LEMMA OnlyGrows ==
  TypeOK /\ [Next]_vars =>
    /\ revoked \subseteq revoked' /\ reported \subseteq reported'
    /\ Issued \subseteq Issued' /\ \A t \in Issued : family'[t] = family[t]
<1> SUFFICES ASSUME TypeOK, [Next]_vars
             PROVE  /\ revoked \subseteq revoked' /\ reported \subseteq reported'
                    /\ Issued \subseteq Issued'
                    /\ \A t \in Issued : family'[t] = family[t]
  OBVIOUS
<1> USE DEF TypeOK, FamilyTypeOK, familyVars
<1>1. CASE UNCHANGED familyVars
  BY <1>1 DEF Issued
<1>2. ASSUME NEW new \in Tokens, Issue(new)
      PROVE  /\ UNCHANGED <<revoked, reported>> /\ Issued \subseteq Issued'
             /\ \A t \in Issued : family'[t] = family[t]
  BY <1>2, NoTokenAssumption DEF Issue, Issued
<1>3. ASSUME NEW r \in Reqs, RotateCommit(r)
      PROVE  /\ revoked \subseteq revoked' /\ UNCHANGED reported
             /\ Issued \subseteq Issued'
             /\ \A t \in Issued : family'[t] = family[t]
  <2>1. given[r] \in Issued
    BY <1>3 DEF RotateCommit, InTx
  <2>2. PICK new \in Tokens \ Issued :
          family' = [family EXCEPT ![new] = family[given[r]]]
    BY <1>3 DEF RotateCommit
  <2>3. QED
    BY <1>3, <2>1, <2>2, NoTokenAssumption DEF RotateCommit, Issued
<1>4. ASSUME NEW r \in Reqs, ReuseCommit(r)
      PROVE  /\ revoked \subseteq revoked' /\ reported \subseteq reported'
             /\ UNCHANGED family
  BY <1>4 DEF ReuseCommit
<1>5. ASSUME NEW r \in Reqs, NEW t \in Tokens, Logout(r, t)
      PROVE  revoked \subseteq revoked' /\ UNCHANGED <<family, reported>>
  BY <1>5 DEF Logout, Retire
<1>6. CASE TokenExpires
  BY <1>6 DEF TokenExpires, Expire, Issued
<1>7. QED
  BY <1>1, <1>2, <1>3, <1>4, <1>5, <1>6
  DEF Next, Arrive, Serve, vars, Issued, Login, RegisterFind, RefreshFind,
      RegisterCreate, RegisterIssue, RotateUpdate, ReuseUpdate, ReuseUpdateDone,
      Answer, Abort, LoseAnswer, Crash

\* A client that comes to be told of something committed is told what was.
LEMMA AnswerStep ==
  ASSUME TypeOK, [Next]_vars, NEW q \in Reqs
  PROVE  /\ answer'[q] \in Effective => \/ outcome'[q] = answer'[q]
                                        \/ UNCHANGED <<answer[q], outcome[q]>>
         /\ answer'[q] \in Failures => \/ outcome'[q] = "none"
                                       \/ UNCHANGED <<answer[q], outcome[q]>>
<1> USE DEF TypeOK, Effective, Failures, Waiting, InTx
<1> DEFINE Same == UNCHANGED <<answer[q], outcome[q]>>
           Still == answer'[q] = "none"
           Refused == outcome'[q] = "none" /\ answer'[q] \notin Effective
           Told == outcome'[q] = answer'[q] /\ answer'[q] \in Effective
<1>1. ASSUME NEW r \in Reqs, Arrive(r) PROVE Same \/ Still \/ Refused
  <2>1. CASE Login(r) \/ \E t \in Tokens : Logout(r, t)
    BY <2>1 DEF Login, Logout, Commit
  <2>2. CASE \E e \in Emails : RegisterFind(r, e)
    BY <2>2 DEF RegisterFind, Reply, Goto
  <2>3. CASE \E t \in Tokens : RefreshFind(r, t)
    BY <2>3 DEF RefreshFind, Reply, Goto
  <2>4. QED
    BY <1>1, <2>1, <2>2, <2>3 DEF Arrive
<1>2. ASSUME NEW r \in Reqs, Serve(r) PROVE Same \/ Still \/ Refused \/ Told
  <2>1. CASE RegisterCreate(r)
    BY <2>1 DEF RegisterCreate, Reply, Goto
  <2>2. CASE Answer(r)
    BY <2>2 DEF Answer, Reply
  <2>3. CASE \/ RegisterIssue(r) \/ RotateUpdate(r) \/ RotateCommit(r)
             \/ ReuseUpdate(r) \/ ReuseUpdateDone(r) \/ ReuseCommit(r)
    BY <2>3 DEF RegisterIssue, RotateUpdate, RotateCommit, ReuseUpdate, ReuseUpdateDone,
         ReuseCommit, Commit, Goto
  <2>4. QED
    BY <1>2, <2>1, <2>2, <2>3 DEF Serve
<1>3. ASSUME NEW r \in Reqs, Abort(r) \/ LoseAnswer(r)
      PROVE  \/ UNCHANGED <<answer[q], outcome[q]>>
             \/ outcome'[q] = "none" /\ answer'[q] = "error"
             \/ answer'[q] = "lost"
  BY <1>3 DEF Abort, LoseAnswer, Reply
<1>4. ASSUME Crash
      PROVE  \/ UNCHANGED <<answer[q], outcome[q]>>
             \/ outcome'[q] = "none" /\ answer'[q] = "error"
             \/ answer'[q] = "lost"
  BY <1>4 DEF Crash
<1>5. TokenExpires \/ UNCHANGED vars => UNCHANGED <<answer, outcome>>
  BY DEF TokenExpires, vars
<1>6. QED
  BY <1>1, <1>2, <1>3, <1>4, <1>5 DEF Next

\* A request on the reuse path came with a revoked token.
ReuseInv ==
  /\ TypeOK
  /\ ReuseIsCarriedOut
  /\ \A r \in Reqs : answer[r] = "reuse" => outcome[r] = "reuse"
  /\ \A r \in Reqs : pc[r] \in {"reuse.update", "reuse.wait", "reuse.commit"} =>
       given[r] \in revoked

LEMMA ReuseInvInit == Init => ReuseInv
  BY TypeInit DEF Init, ReuseInv, ReuseIsCarriedOut

LEMMA ReuseInvStep == ReuseInv /\ [Next]_vars => ReuseInv'
<1> SUFFICES ASSUME ReuseInv, [Next]_vars PROVE ReuseInv'
  OBVIOUS
<1>1. TypeOK /\ TypeOK'
  BY TypeStep DEF ReuseInv
<1>2. /\ revoked \subseteq revoked' /\ reported \subseteq reported'
      /\ \A t \in Issued : family'[t] = family[t]
  BY <1>1, OnlyGrows
\* A request that was answered, or that the step does not touch, keeps its facts.
<1>3. ASSUME NEW q \in Reqs, outcome'[q] = "reuse" => outcome[q] = "reuse",
             given'[q] = given[q], targets'[q] = targets[q]
      PROVE  outcome'[q] = "reuse" =>
               /\ targets'[q] \subseteq revoked'
               /\ family'[given'[q]] \in reported'
               /\ given'[q] \in revoked'
  <2>1. outcome[q] = "reuse" => given[q] \in Issued
    BY <1>1 DEF ReuseInv, ReuseIsCarriedOut, TypeOK, FamilyTypeOK
  <2>2. QED
    BY <1>2, <1>3, <2>1 DEF ReuseInv, ReuseIsCarriedOut
<1> DEFINE Onward(q) == pc'[q] \in {"reuse.update", "reuse.wait", "reuse.commit"} =>
                          given'[q] \in revoked'
<1>4. ASSUME NEW q \in Reqs, given'[q] = given[q],
             pc'[q] \in {"reuse.update", "reuse.wait", "reuse.commit"} =>
               pc[q] \in {"reuse.update", "reuse.wait", "reuse.commit"}
      PROVE  Onward(q)
  BY <1>2, <1>4 DEF ReuseInv
<1> DEFINE Kept(q) == /\ outcome'[q] = "reuse" => outcome[q] = "reuse"
                      /\ given'[q] = given[q] /\ targets'[q] = targets[q]
                      /\ pc'[q] \in {"reuse.update", "reuse.wait", "reuse.commit"} =>
                           pc[q] \in {"reuse.update", "reuse.wait", "reuse.commit"}
<1> DEFINE Carried(q) == outcome'[q] = "reuse" =>
                           /\ targets'[q] \subseteq revoked'
                           /\ family'[given'[q]] \in reported'
                           /\ given'[q] \in revoked'
<1>5. ASSUME NEW q \in Reqs, Kept(q) PROVE Carried(q) /\ Onward(q)
  BY <1>3, <1>4, <1>5
<1> USE DEF TypeOK
<1>6. ASSUME NEW r \in Reqs, Arrive(r), NEW q \in Reqs PROVE Carried(q) /\ Onward(q)
  <2>1. CASE Login(r)
    BY <2>1, <1>1, <1>5 DEF Login, Commit
  <2>2. ASSUME NEW e \in Emails, RegisterFind(r, e) PROVE Carried(q) /\ Onward(q)
    <3>1. q # r => Kept(q)
      BY <2>2, <1>1 DEF RegisterFind, Reply, Goto
    <3>2. outcome'[r] # "reuse" /\ pc'[r] \in {"done", "register.create"}
      BY <2>2, <1>1 DEF RegisterFind, Reply, Goto
    <3>3. QED
      BY <3>1, <3>2, <1>5
  <2>3. ASSUME NEW t \in Tokens, RefreshFind(r, t) PROVE Carried(q) /\ Onward(q)
    <3>1. q # r => Kept(q)
      BY <2>3, <1>1 DEF RefreshFind, Reply, Goto
    <3>2. outcome'[r] # "reuse" /\ (pc'[r] = "reuse.update" => given'[r] \in revoked')
          /\ pc'[r] \in {"reuse.update", "rotate.update", "done"}
      BY <2>3, <1>1, <1>2 DEF RefreshFind, Reply, Goto
    <3>3. QED
      BY <3>1, <3>2, <1>5
  <2>4. ASSUME NEW t \in Tokens, Logout(r, t) PROVE Carried(q) /\ Onward(q)
    <3>1. q # r => Kept(q)
      BY <2>4, <1>1 DEF Logout, Commit
    <3>2. outcome'[r] = "loggedOut" /\ pc'[r] = "answer"
      BY <2>4, <1>1 DEF Logout, Commit
    <3>3. QED
      BY <3>1, <3>2, <1>5
  <2>5. QED
    BY <1>6, <2>1, <2>2, <2>3, <2>4 DEF Arrive
<1>7. ASSUME NEW r \in Reqs, Serve(r), NEW q \in Reqs PROVE Carried(q) /\ Onward(q)
  <2>1. CASE RegisterCreate(r)
    BY <2>1, <1>1, <1>5 DEF RegisterCreate, Reply, Goto
  <2>2. CASE RegisterIssue(r)
    BY <2>2, <1>1, <1>5 DEF RegisterIssue, Commit
  <2>3. CASE RotateUpdate(r)
    BY <2>3, <1>1, <1>5 DEF RotateUpdate, Goto
  <2>4. CASE RotateCommit(r)
    BY <2>4, <1>1, <1>5 DEF RotateCommit, Commit
  <2>5. CASE ReuseUpdate(r)
    <3>1. q # r => Kept(q)
      BY <2>5, <1>1 DEF ReuseUpdate, Goto
    <3>2. outcome'[r] = "none" /\ given'[r] = given[r] /\ pc[r] = "reuse.update"
      BY <2>5, <1>1 DEF ReuseUpdate, Goto
    <3>3. Onward(r)
      BY <3>2, <1>4
    <3>4. QED
      BY <3>1, <3>2, <3>3, <1>5
  <2>6. CASE ReuseUpdateDone(r)
    BY <2>6, <1>1, <1>5 DEF ReuseUpdateDone, Goto
  <2>7. CASE ReuseCommit(r)
    <3>1. q # r => Kept(q)
      BY <2>7, <1>1 DEF ReuseCommit, Commit
    <3>2. Carried(r)
      BY <2>7, <1>1, <1>2 DEF ReuseCommit, ReuseInv
    <3>3. pc'[r] = "answer"
      BY <2>7, <1>1 DEF ReuseCommit, Commit
    <3>4. QED
      BY <3>1, <3>2, <3>3, <1>5
  <2>8. CASE Answer(r)
    BY <2>8, <1>1, <1>5 DEF Answer, Reply
  <2>9. QED
    BY <1>7, <2>1, <2>2, <2>3, <2>4, <2>5, <2>6, <2>7, <2>8 DEF Serve
<1>8. ASSUME NEW q \in Reqs, (\E r \in Reqs : Abort(r) \/ LoseAnswer(r)) \/ TokenExpires \/ Crash
                             \/ UNCHANGED vars
      PROVE  Carried(q) /\ Onward(q)
  <2>1. Kept(q)
    BY <1>1, <1>8 DEF Abort, LoseAnswer, TokenExpires, Crash, Reply, vars
  <2>2. QED
    BY <2>1, <1>5
<1>9. ASSUME NEW q \in Reqs, answer'[q] = "reuse" PROVE outcome'[q] = "reuse"
  BY <1>1, <1>9, AnswerStep DEF ReuseInv, Effective
<1>10. QED
  BY <1>1, <1>6, <1>7, <1>8, <1>9 DEF Next, ReuseInv, ReuseIsCarriedOut

\* A reuse answer is never undone, whatever races with it (auth.service.ts,
\* refresh).
THEOREM ReuseAlwaysCarriedOut == Spec => []ReuseIsCarriedOut
<1>1. ReuseInv => ReuseIsCarriedOut
  BY DEF ReuseInv
<1>2. QED
  BY ReuseInvInit, ReuseInvStep, <1>1, PTL DEF Spec

-------------------------------------------------------------------------------
\* Tokens, commits and answers account for each other

Served    == {r \in Reqs : outcome[r] \in {"signedIn", "rotated"}}

\* An e-mail's registration has succeeded, but for the token.
Registered(r) ==
  given[r] \in Emails /\ (pc[r] = "register.issue" \/ outcome[r] = "signedIn")

\* A step that retires, issues and commits nothing.
NothingServed == UNCHANGED <<family, revoked, outcome>>

LEMMA OutcomeStays ==
  ASSUME TypeOK, [Next]_vars, NEW q \in Reqs, outcome[q] # "none"
  PROVE  outcome'[q] = outcome[q] /\ given'[q] = given[q] /\ targets'[q] = targets[q]
<1> USE DEF TypeOK
<1>1. pc[q] \in {"answer", "done"}
  OBVIOUS
<1>2. ASSUME NEW r \in Reqs, Arrive(r)
      PROVE  outcome'[q] = outcome[q] /\ given'[q] = given[q] /\ targets'[q] = targets[q]
  BY <1>1, <1>2 DEF Arrive, Login, RegisterFind, RefreshFind, Logout, Commit, Reply, Goto
<1>3. ASSUME NEW r \in Reqs, Serve(r)
      PROVE  outcome'[q] = outcome[q] /\ given'[q] = given[q] /\ targets'[q] = targets[q]
  BY <1>1, <1>3 DEF Serve, RegisterCreate, RegisterIssue, RotateUpdate, RotateCommit,
       ReuseUpdate, ReuseUpdateDone, ReuseCommit, Answer, Commit, Reply, Goto
<1>4. QED
  BY <1>1, <1>2, <1>3 DEF Next, Abort, LoseAnswer, Crash, TokenExpires, vars, Reply, Waiting, InTx

LEMMA StepKinds ==
  ASSUME TypeOK, [Next]_vars
  PROVE  \/ NothingServed
         \/ \E r \in Reqs : Login(r) \/ RegisterIssue(r) \/ RotateCommit(r) \/ ReuseCommit(r)
         \/ \E r \in Reqs, t \in Tokens : Logout(r, t)
<1> USE DEF TypeOK, NothingServed, familyVars
<1>1. ASSUME NEW r \in Reqs, NEW e \in Emails, RegisterFind(r, e) PROVE NothingServed
  BY <1>1 DEF RegisterFind, Reply, Goto
<1>2. ASSUME NEW r \in Reqs, NEW t \in Tokens, RefreshFind(r, t) PROVE NothingServed
  BY <1>2 DEF RefreshFind, Reply, Goto
<1>3. ASSUME NEW r \in Reqs, RegisterCreate(r) PROVE NothingServed
  BY <1>3 DEF RegisterCreate, Reply, Goto
<1>4. ASSUME NEW r \in Reqs, RotateUpdate(r) \/ ReuseUpdate(r) \/ ReuseUpdateDone(r)
      PROVE  NothingServed
  BY <1>4 DEF RotateUpdate, ReuseUpdate, ReuseUpdateDone, Goto
<1>5. ASSUME NEW r \in Reqs, Abort(r) \/ LoseAnswer(r) \/ Answer(r) PROVE NothingServed
  BY <1>5 DEF Abort, LoseAnswer, Answer, Reply
<1>6. Crash => NothingServed
  BY DEF Crash, Waiting, InTx
<1>7. TokenExpires \/ UNCHANGED vars => NothingServed
  BY DEF TokenExpires, Expire, vars
<1> HIDE DEF NothingServed
<1>8. QED
  BY <1>1, <1>2, <1>3, <1>4, <1>5, <1>6, <1>7 DEF Next, Arrive, Serve

\* What is retired, and by whom.
RetiredInv ==
  /\ \A r \in Reqs : outcome[r] \in {"rotated", "loggedOut"} => given[r] \in revoked
  /\ \A t \in revoked : \E r \in Reqs :
       \/ outcome[r] \in {"rotated", "loggedOut"} /\ given[r] = t
       \/ outcome[r] = "reuse" /\ t \in targets[r]

LEMMA RetiredStep ==
  ASSUME TypeOK, RetiredInv, [Next]_vars
  PROVE  RetiredInv'
<1> USE DEF TypeOK, FamilyTypeOK
<1>1. \A q \in Reqs : outcome[q] # "none" =>
        outcome'[q] = outcome[q] /\ given'[q] = given[q] /\ targets'[q] = targets[q]
  BY OutcomeStays
\* It is enough to look at the request that commits and what it retires.
<1>2. ASSUME revoked \subseteq revoked',
             \A q \in Reqs : outcome[q] = "none" /\ outcome'[q] \in {"rotated", "loggedOut"} =>
               given'[q] \in revoked',
             \A t \in revoked' \ revoked : \E r \in Reqs :
               \/ outcome'[r] \in {"rotated", "loggedOut"} /\ given'[r] = t
               \/ outcome'[r] = "reuse" /\ t \in targets'[r]
      PROVE  RetiredInv'
  <2>1. \A q \in Reqs : outcome'[q] \in {"rotated", "loggedOut"} => given'[q] \in revoked'
    BY <1>1, <1>2 DEF RetiredInv
  <2>2. ASSUME NEW t \in revoked
        PROVE  \E r \in Reqs : \/ outcome'[r] \in {"rotated", "loggedOut"} /\ given'[r] = t
                               \/ outcome'[r] = "reuse" /\ t \in targets'[r]
    BY <1>1, <2>2 DEF RetiredInv
  <2>3. QED
    BY <1>2, <2>1, <2>2 DEF RetiredInv
<1>3. CASE NothingServed
  BY <1>1, <1>2, <1>3 DEF NothingServed
<1>4. ASSUME NEW r \in Reqs, Login(r) \/ RegisterIssue(r) PROVE RetiredInv'
  <2>1. /\ UNCHANGED revoked /\ outcome'[r] = "signedIn"
        /\ \A q \in Reqs \ {r} : outcome'[q] = outcome[q]
    BY <1>4 DEF Login, RegisterIssue, Issue, Commit
  <2>2. QED
    BY <1>2, <2>1
<1>5. ASSUME NEW r \in Reqs, RotateCommit(r) PROVE RetiredInv'
  <2>1. /\ revoked' = revoked \cup {given[r]} /\ outcome'[r] = "rotated" /\ given' = given
        /\ \A q \in Reqs \ {r} : outcome'[q] = outcome[q]
    BY <1>5 DEF RotateCommit, Commit
  <2>2. QED
    BY <1>2, <2>1
<1>6. ASSUME NEW r \in Reqs, ReuseCommit(r) PROVE RetiredInv'
  <2>1. /\ revoked' = revoked \cup targets[r] /\ outcome'[r] = "reuse" /\ targets' = targets
        /\ \A q \in Reqs \ {r} : outcome'[q] = outcome[q]
    BY <1>6 DEF ReuseCommit, Commit
  <2>2. QED
    BY <1>2, <2>1
<1>7. ASSUME NEW r \in Reqs, NEW t \in Tokens, Logout(r, t) PROVE RetiredInv'
  <2>1. /\ revoked' = revoked \cup {t} /\ outcome'[r] = "loggedOut" /\ given'[r] = t
        /\ \A q \in Reqs \ {r} : outcome'[q] = outcome[q]
    BY <1>7 DEF Logout, Retire, Commit
  <2>2. QED
    BY <1>2, <2>1
<1>8. QED
  BY <1>3, <1>4, <1>5, <1>6, <1>7, StepKinds

\* As many tokens as commits that issue one.
IssuedInv ==
  /\ IsFiniteSet(Issued) /\ IsFiniteSet(Served)
  /\ Cardinality(Issued) = Cardinality(Served)

LEMMA IssuedStep ==
  ASSUME TypeOK, IssuedInv, [Next]_vars
  PROVE  IssuedInv'
<1> USE DEF TypeOK, FamilyTypeOK
<1>1. ASSUME Issued' = Issued, Served' = Served PROVE IssuedInv'
  BY <1>1 DEF IssuedInv
<1>2. ASSUME NEW new, new \notin Issued, Issued' = Issued \cup {new},
             NEW r, r \notin Served, Served' = Served \cup {r}
      PROVE  IssuedInv'
  <2>1. /\ IsFiniteSet(Issued \cup {new}) /\ IsFiniteSet(Served \cup {r})
        /\ Cardinality(Issued \cup {new}) = Cardinality(Issued) + 1
        /\ Cardinality(Served \cup {r}) = Cardinality(Served) + 1
    BY <1>2, FS_AddElement DEF IssuedInv
  <2>2. QED
    BY <1>2, <2>1 DEF IssuedInv
<1>3. CASE NothingServed
  BY <1>1, <1>3 DEF NothingServed, Issued, Served
<1>4. ASSUME NEW r \in Reqs, Login(r) \/ RegisterIssue(r) \/ RotateCommit(r) PROVE IssuedInv'
  <2>1. PICK new \in Tokens \ Issued :
          \E f \in Issued \cup {new} : family' = [family EXCEPT ![new] = f]
    <3>1. ASSUME RotateCommit(r) PROVE family[given[r]] \in Issued
      BY <3>1 DEF RotateCommit, InTx
    <3>2. QED
      BY <1>4, <3>1 DEF Login, RegisterIssue, RotateCommit, Issue
  <2>2. Issued' = Issued \cup {new}
    BY <2>1, NoTokenAssumption DEF Issued
  <2>3. /\ outcome[r] = "none" /\ outcome'[r] \in {"signedIn", "rotated"}
        /\ \A q \in Reqs \ {r} : outcome'[q] = outcome[q]
    BY <1>4 DEF Login, RegisterIssue, RotateCommit, Commit
  <2>4. r \notin Served /\ Served' = Served \cup {r}
    BY <2>3 DEF Served
  <2>5. QED
    BY <1>2, <2>1, <2>2, <2>4
<1>5. ASSUME NEW r \in Reqs,
             ReuseCommit(r) \/ \E t \in Tokens : Logout(r, t)
      PROVE  IssuedInv'
  <2>1. /\ UNCHANGED family /\ outcome[r] = "none" /\ outcome'[r] \in {"reuse", "loggedOut"}
        /\ \A q \in Reqs \ {r} : outcome'[q] = outcome[q]
    BY <1>5 DEF ReuseCommit, Logout, Retire, Commit
  <2>2. QED
    BY <1>1, <2>1 DEF Issued, Served
<1>6. QED
  BY <1>3, <1>4, <1>5, StepKinds

\* One registration per e-mail, and the e-mail is then taken.
RegisteredInv ==
  /\ \A r \in Reqs : pc[r] = "idle" => given[r] \notin Emails
  /\ \A r \in Reqs : Registered(r) => given[r] \in accounts
  /\ \A r, q \in Reqs : Registered(r) /\ Registered(q) /\ given[r] = given[q] => r = q

LEMMA RegisteredStep ==
  ASSUME TypeOK, RegisteredInv, [Next]_vars
  PROVE  RegisteredInv'
<1> USE DEF TypeOK
\* A step by which nobody else comes to be registered.
<1>1. ASSUME accounts \subseteq accounts',
             \A q \in Reqs : pc'[q] = "idle" => pc[q] = "idle" /\ given'[q] = given[q],
             \A q \in Reqs : Registered(q)' => Registered(q) /\ given'[q] = given[q]
      PROVE  RegisteredInv'
  BY <1>1 DEF RegisteredInv
<1>2. ASSUME NEW r \in Reqs, NEW e \in Emails, RegisterFind(r, e) PROVE RegisteredInv'
  <2>1. /\ UNCHANGED accounts /\ pc[r] = "idle" /\ outcome[r] = "none"
        /\ pc'[r] \in {"register.create", "done"} /\ outcome'[r] = "none"
        /\ \A q \in Reqs \ {r} : pc'[q] = pc[q] /\ given'[q] = given[q] /\ outcome'[q] = outcome[q]
    BY <1>2 DEF RegisterFind, Reply, Goto
  <2>2. QED
    BY <1>1, <2>1 DEF Registered
<1>3. ASSUME NEW r \in Reqs, NEW t \in Tokens, RefreshFind(r, t) \/ Logout(r, t)
      PROVE  RegisteredInv'
  <2>1. /\ UNCHANGED accounts
        /\ pc'[r] \notin {"idle", "register.issue"} /\ outcome'[r] # "signedIn"
        /\ \A q \in Reqs \ {r} : pc'[q] = pc[q] /\ given'[q] = given[q] /\ outcome'[q] = outcome[q]
    BY <1>3 DEF RefreshFind, Logout, Commit, Reply, Goto
  <2>2. QED
    BY <1>1, <2>1 DEF Registered
<1>4. ASSUME NEW r \in Reqs, Login(r) PROVE RegisteredInv'
  <2>1. /\ UNCHANGED <<accounts, given>> /\ pc[r] = "idle" /\ pc'[r] = "answer"
        /\ \A q \in Reqs \ {r} : pc'[q] = pc[q] /\ outcome'[q] = outcome[q]
    BY <1>4 DEF Login, Commit
  <2>2. given[r] \notin Emails
    BY <2>1 DEF RegisteredInv
  <2>3. QED
    BY <1>1, <2>1, <2>2 DEF Registered
<1>5. ASSUME NEW r \in Reqs, RegisterCreate(r) PROVE RegisteredInv'
  <2>1. /\ UNCHANGED given /\ accounts' = accounts \cup {given[r]}
        /\ outcome[r] = "none" /\ outcome'[r] # "signedIn" /\ pc'[r] # "idle"
        /\ pc'[r] = "register.issue" => given[r] \notin accounts
        /\ \A q \in Reqs \ {r} : pc'[q] = pc[q] /\ outcome'[q] = outcome[q]
    BY <1>5 DEF RegisterCreate, Reply, Goto
  <2>2. \A q \in Reqs \ {r} : Registered(q)' <=> Registered(q)
    BY <2>1 DEF Registered
  <2>3. Registered(r)' => given[r] \notin accounts
    BY <2>1 DEF Registered
  <2>4. QED
    BY <2>1, <2>2, <2>3 DEF RegisteredInv
<1>6. ASSUME NEW r \in Reqs, RegisterIssue(r) PROVE RegisteredInv'
  <2>1. /\ UNCHANGED <<accounts, given>> /\ pc[r] = "register.issue" /\ pc'[r] = "answer"
        /\ \A q \in Reqs \ {r} : pc'[q] = pc[q] /\ outcome'[q] = outcome[q]
    BY <1>6 DEF RegisterIssue, Commit
  <2>2. QED
    BY <1>1, <2>1 DEF Registered
<1>7. ASSUME NEW r \in Reqs, \/ RotateUpdate(r) \/ RotateCommit(r) \/ ReuseUpdate(r)
                             \/ ReuseUpdateDone(r) \/ ReuseCommit(r) \/ Abort(r)
                             \/ Answer(r) \/ LoseAnswer(r)
      PROVE  RegisteredInv'
  <2>1. /\ UNCHANGED <<accounts, given>>
        /\ outcome'[r] = "signedIn" => outcome[r] = "signedIn"
        /\ pc'[r] \notin {"idle", "register.issue"}
        /\ \A q \in Reqs \ {r} : pc'[q] = pc[q] /\ outcome'[q] = outcome[q]
    BY <1>7 DEF RotateUpdate, RotateCommit, ReuseUpdate, ReuseUpdateDone, ReuseCommit,
         Abort, LoseAnswer, Answer, Commit, Reply, Goto, Waiting, InTx
  <2>2. QED
    BY <1>1, <2>1 DEF Registered
<1>8. CASE Crash
  <2>1. UNCHANGED <<accounts, given>>
    BY <1>8 DEF Crash
  <2>2. \A q \in Reqs : (pc'[q] = pc[q] \/ pc'[q] = "done") /\ outcome'[q] = outcome[q]
    BY <1>8 DEF Crash
  <2>3. QED
    BY <1>1, <2>1, <2>2 DEF Registered
<1>9. CASE TokenExpires \/ UNCHANGED vars
  BY <1>1, <1>9 DEF TokenExpires, vars, Registered
<1>10. QED
  BY <1>2, <1>3, <1>4, <1>5, <1>6, <1>7, <1>8, <1>9 DEF Next, Arrive, Serve

\* A client is told what was committed, and of a failure only when nothing was.
ToldInv ==
  \A r \in Reqs : /\ answer[r] \in Effective => outcome[r] = answer[r]
                  /\ answer[r] \in Failures => outcome[r] = "none"

LEMMA ToldStep ==
  ASSUME TypeOK, ToldInv, [Next]_vars
  PROVE  ToldInv'
<1>1. ASSUME NEW q \in Reqs
      PROVE  /\ answer'[q] \in Effective => outcome'[q] = answer'[q]
             /\ answer'[q] \in Failures => outcome'[q] = "none"
  BY AnswerStep DEF ToldInv
<1>2. QED
  BY <1>1 DEF ToldInv

\* Whatever races, rolls back, dies or is lost: what is retired was retired by a
\* request that committed it, every commit that issues a token has one of its own,
\* a client is told what was committed, and an e-mail is registered once (register,
\* refresh and logout of auth.service.ts).
THEOREM TokensAlwaysAccountedFor == Spec => []TokensAccountedFor
<1> DEFINE Account == TypeOK /\ RetiredInv /\ IssuedInv /\ RegisteredInv /\ ToldInv
<1>1. Init => Account
  <2> SUFFICES ASSUME Init PROVE RetiredInv /\ IssuedInv /\ RegisteredInv /\ ToldInv
    BY TypeInit
  <2>1. Issued = {} /\ Served = {}
    BY DEF Init, FamilyInit, Issued, Served
  <2>2. IssuedInv
    BY <2>1, FS_EmptySet DEF IssuedInv
  <2>3. QED
    BY <2>2, EmailsAssumption DEF Init, FamilyInit, RetiredInv, RegisteredInv, Registered, ToldInv,
         Effective, Failures
<1>2. Account /\ [Next]_vars => Account'
  BY TypeStep, RetiredStep, IssuedStep, RegisteredStep, ToldStep
<1>3. Account => TokensAccountedFor
  BY DEF RetiredInv, IssuedInv, RegisteredInv, Registered, ToldInv, Served,
         TokensAccountedFor
<1> HIDE DEF Account
<1>4. Spec => []Account
  BY <1>1, <1>2, PTL DEF Spec
<1>5. QED
  BY <1>3, <1>4, PTL

-------------------------------------------------------------------------------
\* Requests on one family one after the other

\* What refresh read is still so when it writes.
StillSo(r) ==
  /\ pc[r] \in {"rotate.update", "rotate.commit"} => given[r] \in Live \ expired
  /\ pc[r] \in {"reuse.update", "reuse.wait", "reuse.commit"} => given[r] \in revoked
  /\ pc[r] \in {"reuse.wait", "reuse.commit"} =>
       targets[r] = FamilyOf(given[r]) \ revoked

SerialInv == TypeOK /\ ~Overlap /\ \A r \in Reqs : StillSo(r)

LEMMA SerialInvInit == Init => SerialInv
  BY TypeInit DEF Init, SerialInv, StillSo, Overlap, OnFamily, InTx

\* A step leaves a waiting request its facts if it leaves the request and the
\* rows of its family alone.
LEMMA Untouched ==
  ASSUME TypeOK, NEW q \in Reqs, StillSo(q), pc'[q] = pc[q], given'[q] = given[q],
         targets'[q] = targets[q], pc[q] \in InTx, Issued \subseteq Issued',
         \A t \in Issued : family'[t] = family[t],
         \A t \in Issued' : family'[t] = family[given[q]] =>
           t \in Issued /\ (t \in revoked' <=> t \in revoked),
         given[q] \in expired' => given[q] \in expired
  PROVE  StillSo(q)'
<1>1. given[q] \in Issued /\ given[q] \in Issued'
  BY DEF TypeOK
<1>2. FamilyOf(given[q])' = FamilyOf(given[q])
  BY <1>1 DEF FamilyOf
<1>3. FamilyOf(given[q])' \ revoked' = FamilyOf(given[q]) \ revoked
  BY <1>1, <1>2 DEF FamilyOf
<1>4. given[q] \in revoked' <=> given[q] \in revoked
  BY <1>1
<1>5. given'[q] = given[q]
  OBVIOUS
<1>6. QED
  BY <1>1, <1>2, <1>3, <1>4, <1>5 DEF StillSo, Live, FamilyOf

\* A step of one request touches only rows of its own family.
LEMMA SerialStep ==
  SerialInv /\ [SerialNext]_vars => SerialInv' /\ [FamilyNext]_familyVars
<1> SUFFICES ASSUME SerialInv, [SerialNext]_vars
             PROVE  SerialInv' /\ [FamilyNext]_familyVars
  OBVIOUS
<1>1. TypeOK /\ TypeOK' /\ ~Overlap /\ \A r \in Reqs : StillSo(r)
  BY TypeStep DEF SerialInv, SerialNext
<1>2. /\ revoked \subseteq revoked' /\ reported \subseteq reported'
      /\ Issued \subseteq Issued' /\ \A t \in Issued : family'[t] = family[t]
  BY <1>1, OnlyGrows DEF SerialNext
<1>3. CASE UNCHANGED vars
  <2>1. UNCHANGED <<familyVars, pc, given, targets>>
    BY <1>3 DEF vars, familyVars
  <2>2. ~Overlap' /\ \A r \in Reqs : StillSo(r)'
    BY <1>1, <2>1 DEF Overlap, OnFamily, StillSo, Live, Issued, FamilyOf, familyVars
  <2>3. QED
    BY <1>1, <2>1, <2>2 DEF SerialInv
<1>4. CASE SerialNext
  <2>1. Next /\ ~Overlap' /\ ~Interferes
    BY <1>4 DEF SerialNext
  <2>2. ASSUME NEW q \in Reqs, pc'[q] = pc[q], given'[q] = given[q],
               targets'[q] = targets[q], UNCHANGED familyVars
        PROVE  StillSo(q)'
    BY <1>1, <2>2 DEF familyVars, StillSo, Live, Issued, FamilyOf
  <2>3. ASSUME NEW q \in Reqs, NEW new \in Tokens, Issue(new),
               pc'[q] = pc[q], given'[q] = given[q], targets'[q] = targets[q]
        PROVE  StillSo(q)'
    <3>1. CASE pc[q] \notin InTx
      BY <2>3, <3>1, <1>1 DEF StillSo, InTx
    <3>2. CASE pc[q] \in InTx
      <4>1. \A t \in Issued' : family'[t] = family[given[q]] =>
              t \in Issued /\ (t \in revoked' <=> t \in revoked)
        <5>1. given[q] \in Issued /\ family[given[q]] \in Issued /\ family[given[q]] # new
          BY <3>2, <1>1, <2>3 DEF TypeOK, FamilyTypeOK, Issue
        <5>2. QED
          BY <5>1, <2>3, <1>1 DEF Issue, Issued, TypeOK, FamilyTypeOK
      <4>2. QED
        BY <4>1, <3>2, <2>3, <1>1, <1>2, Untouched DEF Issue
    <3>3. QED
      BY <3>1, <3>2
  <2>4. ASSUME NEW r \in Reqs, Arrive(r)
        PROVE  (\A q \in Reqs : StillSo(q)') /\ [FamilyNext]_familyVars
    <3>1. CASE Login(r)
      <4>1. PICK new \in Tokens : Issue(new)
        BY <3>1 DEF Login
      <4>2. ASSUME NEW q \in Reqs, q # r PROVE StillSo(q)'
        BY <4>1, <4>2, <3>1, <1>1, <2>3 DEF Login, Commit, TypeOK
      <4>3. StillSo(r)'
        BY <3>1, <1>1 DEF Login, Commit, TypeOK, StillSo
      <4>4. QED
        BY <4>1, <4>2, <4>3 DEF FamilyNext
    <3>2. ASSUME NEW e \in Emails, RegisterFind(r, e)
          PROVE  (\A q \in Reqs : StillSo(q)') /\ UNCHANGED familyVars
      <4>1. ASSUME NEW q \in Reqs, q # r PROVE StillSo(q)'
        BY <4>1, <3>2, <1>1, <2>2 DEF RegisterFind, Reply, Goto, TypeOK
      <4>2. StillSo(r)'
        BY <3>2, <1>1 DEF RegisterFind, Reply, Goto, TypeOK, StillSo
      <4>3. QED
        BY <4>1, <4>2, <3>2 DEF RegisterFind
    <3>3. ASSUME NEW t \in Tokens, RefreshFind(r, t)
          PROVE  (\A q \in Reqs : StillSo(q)') /\ UNCHANGED familyVars
      <4>1. ASSUME NEW q \in Reqs, q # r PROVE StillSo(q)'
        BY <4>1, <3>3, <1>1, <2>2 DEF RefreshFind, Reply, Goto, TypeOK
      <4>2. /\ given'[r] = t /\ UNCHANGED familyVars /\ t \in Issued
            /\ \/ pc'[r] = "done"
               \/ pc'[r] = "reuse.update" /\ t \in revoked
               \/ pc'[r] = "rotate.update" /\ t \in Live \ expired
        BY <3>3, <1>1 DEF RefreshFind, Reply, Goto, TypeOK, Live
      <4>3. StillSo(r)'
        BY <4>2 DEF StillSo, familyVars, Live, Issued
      <4>4. QED
        BY <4>1, <4>2, <4>3
    <3>4. ASSUME NEW t \in Tokens, Logout(r, t)
          PROVE  (\A q \in Reqs : StillSo(q)') /\ FamilyNext
      <4>1. /\ Retire(t) /\ FamilyNext /\ t \in Issued /\ UNCHANGED <<family, expired>>
            /\ outcome[r] = "none" /\ outcome'[r] = "loggedOut" /\ given'[r] = t
            /\ pc'[r] = "answer"
        BY <3>4, <1>1 DEF Logout, Retire, Commit, TypeOK, FamilyNext
      <4>2. ASSUME NEW q \in Reqs, q # r PROVE StillSo(q)'
        <5>1. /\ pc'[q] = pc[q] /\ given'[q] = given[q] /\ targets'[q] = targets[q]
              /\ revoked' = revoked \cup {t}
          BY <3>4, <4>2, <1>1 DEF Logout, Commit, Retire, TypeOK
        <5>2. CASE pc[q] \in InTx
          <6>1. family[given[q]] # family[t]
            BY <2>1, <4>1, <5>2 DEF Interferes, OnFamily
          <6>2. QED
            BY <6>1, <4>1, <5>1, <5>2, <1>1, <1>2, Untouched DEF Issued
        <5>3. CASE pc[q] \notin InTx
          BY <5>1, <5>3 DEF StillSo, InTx
        <5>4. QED
          BY <5>2, <5>3
      <4>3. StillSo(r)'
        BY <4>1 DEF StillSo
      <4>4. QED
        BY <4>1, <4>2, <4>3
    <3>5. QED
      BY <2>4, <3>1, <3>2, <3>3, <3>4 DEF Arrive
  <2>5. ASSUME NEW r \in Reqs, Serve(r)
        PROVE  (\A q \in Reqs : StillSo(q)') /\ [FamilyNext]_familyVars
    <3>1. ASSUME NEW q \in Reqs, q # r
          PROVE  pc'[q] = pc[q] /\ given'[q] = given[q] /\ targets'[q] = targets[q]
      BY <2>5, <3>1, <1>1
      DEF Serve, RegisterCreate, RegisterIssue, RotateUpdate, RotateCommit, ReuseUpdate,
          ReuseUpdateDone, ReuseCommit, Answer, Commit, Reply, Goto, TypeOK
    <3>2. CASE RegisterCreate(r)
      <4>1. pc'[r] \in {"done", "register.issue"} /\ UNCHANGED familyVars
        BY <3>2, <1>1 DEF RegisterCreate, Reply, Goto, TypeOK
      <4>2. QED
        BY <4>1, <3>1, <2>2 DEF StillSo
    <3>3. CASE RegisterIssue(r)
      <4>1. PICK new \in Tokens : Issue(new)
        BY <3>3 DEF RegisterIssue
      <4>2. pc'[r] = "answer"
        BY <3>3, <1>1 DEF RegisterIssue, Commit, TypeOK
      <4>3. QED
        BY <4>1, <4>2, <3>1, <2>3 DEF StillSo, FamilyNext
    <3>4. CASE RotateUpdate(r)
      <4>1. /\ pc[r] = "rotate.update" /\ pc'[r] = "rotate.commit" /\ given'[r] = given[r]
            /\ UNCHANGED familyVars
        BY <3>4, <1>1 DEF RotateUpdate, Goto, TypeOK
      <4>2. StillSo(r)'
        BY <4>1, <1>1 DEF StillSo, familyVars, Live, Issued
      <4>3. QED
        BY <4>1, <4>2, <3>1, <2>2
    <3>5. CASE RotateCommit(r)
      <4>1. given[r] \in Live \ expired /\ pc[r] \in InTx
        BY <3>5, <1>1 DEF RotateCommit, StillSo, InTx
      <4>2. PICK new \in Tokens \ Issued :
              family' = [family EXCEPT ![new] = family[given[r]]]
        BY <3>5 DEF RotateCommit
      <4>3. Rotate(given[r], new)
        BY <3>5, <4>1, <4>2 DEF RotateCommit, Rotate
      <4>4. ASSUME NEW q \in Reqs, q # r PROVE StillSo(q)'
        <5>1. CASE pc[q] \in InTx
          <6>1. given[q] \in Issued /\ family[given[q]] \in Tokens
            BY <5>1, <1>1 DEF TypeOK, FamilyTypeOK, Issued
          <6>2. family[given[q]] # family[given[r]]
            BY <1>1, <4>1, <4>4, <5>1, <6>1 DEF Overlap, OnFamily
          <6>3. \A t \in Issued' : family'[t] = family[given[q]] =>
                  t \in Issued /\ (t \in revoked' <=> t \in revoked)
            BY <6>2, <4>1, <4>3, <1>1 DEF Rotate, Issued, TypeOK, FamilyTypeOK
          <6>4. expired' = expired
            BY <4>3 DEF Rotate
          <6>5. QED
            BY <6>3, <6>4, <5>1, <3>1, <4>4, <1>1, <1>2, Untouched
        <5>2. CASE pc[q] \notin InTx
          BY <3>1, <4>4, <5>2 DEF StillSo, InTx
        <5>3. QED
          BY <5>1, <5>2
      <4>5. pc'[r] = "answer"
        BY <3>5, <1>1 DEF RotateCommit, Commit, TypeOK
      <4>6. given[r] \in Tokens
        BY <4>1 DEF Live, Issued
      <4>7. QED
        BY <4>3, <4>4, <4>5, <4>6 DEF StillSo, FamilyNext
    <3>6. CASE ReuseUpdate(r)
      <4>1. /\ pc[r] = "reuse.update" /\ pc'[r] \in {"reuse.commit", "reuse.wait"}
            /\ given'[r] = given[r] /\ UNCHANGED familyVars
            /\ targets'[r] = FamilyOf(given[r]) \ revoked
        BY <3>6, <1>1 DEF ReuseUpdate, Goto, TypeOK
      <4>2. StillSo(r)'
        BY <4>1, <1>1 DEF StillSo, familyVars, FamilyOf, Issued
      <4>3. QED
        BY <4>1, <4>2, <3>1, <2>2
    <3>7. CASE ReuseUpdateDone(r)
      <4>1. /\ pc[r] = "reuse.wait" /\ pc'[r] = "reuse.commit"
            /\ given'[r] = given[r] /\ UNCHANGED familyVars /\ targets'[r] = targets[r]
        BY <3>7, <1>1 DEF ReuseUpdateDone, Goto, TypeOK
      <4>2. StillSo(r)'
        BY <4>1, <1>1 DEF StillSo, familyVars, FamilyOf, Issued
      <4>3. QED
        BY <4>1, <4>2, <3>1, <2>2
    <3>8. CASE ReuseCommit(r)
      <4>1. /\ given[r] \in revoked /\ given[r] \in Issued /\ pc[r] \in InTx
            /\ targets[r] = FamilyOf(given[r]) \ revoked
        BY <3>8, <1>1 DEF ReuseCommit, StillSo, InTx, TypeOK
      <4>2. DetectReuse(given[r])
        BY <3>8, <4>1 DEF ReuseCommit, DetectReuse
      <4>3. ASSUME NEW q \in Reqs, q # r PROVE StillSo(q)'
        <5>1. CASE pc[q] \in InTx
          <6>1. given[q] \in Issued /\ family[given[q]] \in Tokens
            BY <5>1, <1>1 DEF TypeOK, FamilyTypeOK, Issued
          <6>2. family[given[q]] # family[given[r]]
            BY <1>1, <4>1, <4>3, <5>1, <6>1 DEF Overlap, OnFamily
          <6>3. \A t \in Issued' : family'[t] = family[given[q]] =>
                  t \in Issued /\ (t \in revoked' <=> t \in revoked)
            BY <6>2, <4>2 DEF DetectReuse, Issued, FamilyOf
          <6>4. expired' = expired
            BY <4>2 DEF DetectReuse
          <6>5. QED
            BY <6>3, <6>4, <5>1, <3>1, <4>3, <1>1, <1>2, Untouched
        <5>2. CASE pc[q] \notin InTx
          BY <3>1, <4>3, <5>2 DEF StillSo, InTx
        <5>3. QED
          BY <5>1, <5>2
      <4>4. pc'[r] = "answer"
        BY <3>8, <1>1 DEF ReuseCommit, Commit, TypeOK
      <4>5. given[r] \in Tokens
        BY <4>1 DEF Issued
      <4>6. QED
        BY <4>2, <4>3, <4>4, <4>5 DEF StillSo, FamilyNext
    <3>9. CASE Answer(r)
      <4>1. pc'[r] = "done" /\ UNCHANGED familyVars
        BY <3>9, <1>1 DEF Answer, Reply, TypeOK
      <4>2. QED
        BY <4>1, <3>1, <2>2 DEF StillSo
    <3>10. QED
      BY <2>5, <3>2, <3>3, <3>4, <3>5, <3>6, <3>7, <3>8, <3>9 DEF Serve
  <2>6. ASSUME NEW r \in Reqs, Abort(r) \/ LoseAnswer(r)
        PROVE  (\A q \in Reqs : StillSo(q)') /\ UNCHANGED familyVars
    <3>1. ASSUME NEW q \in Reqs, q # r PROVE StillSo(q)'
      BY <2>6, <3>1, <1>1, <2>2 DEF Abort, LoseAnswer, Reply, TypeOK
    <3>2. StillSo(r)'
      BY <2>6, <1>1 DEF Abort, LoseAnswer, Reply, TypeOK, StillSo
    <3>3. QED
      BY <2>6, <3>1, <3>2 DEF Abort, LoseAnswer
  <2>7. ASSUME TokenExpires PROVE (\A q \in Reqs : StillSo(q)') /\ FamilyNext
    <3>1. PICK t \in Tokens : Expire(t)
      BY <2>7 DEF TokenExpires
    <3>2. UNCHANGED <<pc, given, targets, family, revoked>>
      BY <2>7, <3>1 DEF TokenExpires, Expire
    <3>3. ASSUME NEW q \in Reqs PROVE StillSo(q)'
      <4>1. CASE pc[q] \in InTx
        <5>1. given[q] \in expired' => given[q] \in expired
          BY <2>1, <4>1 DEF Interferes
        <5>2. QED
          BY <5>1, <4>1, <3>2, <1>1, <1>2, Untouched DEF Issued
      <4>2. CASE pc[q] \notin InTx
        BY <3>2, <4>2 DEF StillSo, InTx
      <4>3. QED
        BY <4>1, <4>2
    <3>4. QED
      BY <3>1, <3>3 DEF FamilyNext
  <2>8. ASSUME Crash PROVE (\A q \in Reqs : StillSo(q)') /\ UNCHANGED familyVars
    <3>1. /\ UNCHANGED familyVars
          /\ \A q \in Reqs : pc'[q] \notin InTx
      BY <2>8, <1>1 DEF Crash, Waiting, InTx, TypeOK
    <3>2. QED
      BY <3>1 DEF StillSo, InTx
  <2>9. (\A q \in Reqs : StillSo(q)') /\ [FamilyNext]_familyVars
    <3>1. CASE \E r \in Reqs : Arrive(r) \/ Serve(r) \/ Abort(r) \/ LoseAnswer(r)
      BY <3>1, <2>4, <2>5, <2>6
    <3>2. QED
      BY <2>1, <3>1, <2>7, <2>8 DEF Next
  <2>10. QED
    BY <1>1, <2>1, <2>9 DEF SerialInv
<1>5. QED
  BY <1>3, <1>4

\* If the requests on each family are served one after the other, the statements
\* of AuthService are the one-step operations of TokenFamilies (auth.service.ts).
THEOREM SerialImplementsFamilies == SerialSpec => ImplementsFamilies
<1>1. Init => FamilyInit
  BY DEF Init
<1>2. QED
  BY <1>1, SerialInvInit, SerialStep, PTL DEF SerialSpec, ImplementsFamilies, FamilySpec

\* They then leave at most one usable token per family, and none in a family
\* that was reported.
THEOREM SerialKeepsPromises ==
  SerialSpec => [](OneLiveTokenPerFamily /\ ReportedFamilyStaysClosed)
  BY SerialImplementsFamilies, FamiliesKeepTheirPromises DEF ImplementsFamilies
===============================================================================
