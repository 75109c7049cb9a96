------------------------------- MODULE SuiteTree -------------------------------
(***************************************************************************)
(* The tree of test suites of one organization and the cases in it:        *)
(* backend/src/suites/suites.service.ts with lib/suite-tree-rules.ts and   *)
(* lib/assemble-suite-tree.ts, and backend/src/cases/cases.service.ts.     *)
(*                                                                         *)
(* create and update judge a parent by the edges they load; the write      *)
(* comes in a later statement of the same READ COMMITTED transaction and   *)
(* waits for no other move.  The writes come last, so they and the commit  *)
(* are one step, and the reads before them are steps of their own.         *)
(***************************************************************************)
EXTENDS Naturals, Sequences, FiniteSets

CONSTANTS
  Suites,   \* suites that can be made
  Cases,    \* cases that can be made
  Reqs,     \* HTTP requests
  Top,      \* the parentId null of a top-level suite
  Same      \* a parentId or suiteId that the request does not send

ASSUME TreeAssumption == Top \notin Suites /\ Same \notin Suites /\ Top # Same
\* A database keeps finitely many rows.
ASSUME SuitesAssumption == IsFiniteSet(Suites)

VARIABLES
  suites, parent,   \* test_suites: rows, and parentId (of a deleted row: its last)
  cases, suiteOf,   \* test_cases: rows, and suiteId (of a deleted row: its last)
  audit,            \* audit_logs about suites and cases
  req,              \* per request: what was asked and how far it is
  outdated,         \* history: requests that judged a tree another has changed
  raced,            \* history: a create or move has committed though outdated
  branchMoved       \* history: a suite with children was moved under another

tree == <<suites, parent, cases, suiteOf, audit>>
vars == <<suites, parent, cases, suiteOf, audit, req, outdated, raced, branchMoved>>

MAX_SUITE_DEPTH == 3

Jobs ==
  [op : {"createSuite"}, parent : Suites \cup {Top}]
    \cup [op : {"updateSuite"}, suite : Suites, parent : Suites \cup {Top, Same}]
    \cup [op : {"removeSuite"}, suite : Suites]
    \cup [op : {"createCase"}, suite : Suites]
    \cup [op : {"updateCase"}, case : Cases, suite : Suites \cup {Same}]
    \cup [op : {"removeCase"}, case : Cases]
Writing == {"createSuite", "updateSuite"}

Phases == {"find", "judge", "commit"}
Unsent == [phase |-> "unsent"]
Done   == [phase |-> "done"]
Records == [action : {"SUITE_CREATED", "SUITE_UPDATED", "SUITE_DELETED"}, target : Suites]
             \cup [action : {"CASE_CREATED", "CASE_UPDATED", "CASE_DELETED"}, target : Cases]

Logged(action) == {e.target : e \in {f \in audit : f.action = action}}
MadeSuites == Logged("SUITE_CREATED")
MadeCases  == Logged("CASE_CREATED")

TypeOK ==
  /\ suites \subseteq MadeSuites /\ cases \subseteq MadeCases
  /\ parent \in [Suites -> Suites \cup {Top}]
  /\ suiteOf \in [Cases -> Suites \cup {Top}]
  /\ audit \subseteq Records
  /\ req \in [Reqs -> [phase : Phases, job : Jobs] \cup {Unsent, Done}]
  /\ outdated \subseteq Reqs
  /\ raced \in BOOLEAN /\ branchMoved \in BOOLEAN
  /\ \A s \in suites : parent[s] \in suites \cup {Top}
  /\ \A c \in cases : suiteOf[c] \in suites

-------------------------------------------------------------------------------
\* lib/suite-tree-rules.ts

\* The suites from `start` up to its root, or up to the first one met again.
ancestorChain(edges, start) ==
  LET climb[seen \in SUBSET Suites] ==
        [s \in Suites |->
           IF s \in seen THEN <<>>
           ELSE <<s>> \o IF edges[s] = Top THEN <<>>
                         ELSE climb[seen \cup {s}][edges[s]]]
  IN climb[{}][start]

Chain(edges, s) == {ancestorChain(edges, s)[i] : i \in 1 .. Len(ancestorChain(edges, s))}

\* Fault: one level too many.
exceedsMaxDepthLate(edges, p) == Len(ancestorChain(edges, p)) > MAX_SUITE_DEPTH

exceedsMaxDepth(edges, p) == Len(ancestorChain(edges, p)) >= MAX_SUITE_DEPTH

\* Fault: a suite may become the child of its own descendant.
createsCycleOnlySelf(edges, s, p) == s = p

createsCycle(edges, s, p) == s = p \/ s \in Chain(edges, p)

-------------------------------------------------------------------------------
\* lib/assemble-suite-tree.ts

Children(s) == {k \in suites : parent[k] = s}

\* What the assembled tree shows: the roots and, level by level, their children.
Shown ==
  LET level[n \in Nat] == IF n = 0 THEN Children(Top)
                          ELSE UNION {Children(s) : s \in level[n - 1]}
  IN UNION {level[n] : n \in 0 .. Cardinality(Suites)}

-------------------------------------------------------------------------------
\* Any tree that requests one after the other can have built, and cases in it.
Init ==
  /\ suites \in SUBSET Suites
  /\ parent \in [Suites -> suites \cup {Top}]
  /\ \A s \in Suites \ suites : parent[s] = Top
  /\ \A s \in suites : Len(ancestorChain(parent, s)) <= MAX_SUITE_DEPTH
  /\ Shown = suites
  /\ cases \in SUBSET Cases
  /\ suiteOf \in [Cases -> suites \cup {Top}]
  /\ \A c \in Cases : suiteOf[c] # Top <=> c \in cases
  /\ audit = [action : {"SUITE_CREATED"}, target : suites]
               \cup [action : {"CASE_CREATED"}, target : cases]
  /\ req = [r \in Reqs |-> Unsent]
  /\ outdated = {}
  /\ raced = FALSE /\ branchMoved = FALSE

Log(action, target) == audit' = audit \cup {[action |-> action, target |-> target]}
Finish(r) == req' = [req EXCEPT ![r] = Done]
At(r, phase, op) == req[r].phase = phase /\ req[r].job.op = op

\* The request goes on to its next statement.
Pass(r, phase) == /\ req' = [req EXCEPT ![r].phase = phase]
                  /\ UNCHANGED <<tree, outdated, raced, branchMoved>>
\* It is refused or rolled back (400, 404, 500), and nothing is written.
Refuse(r) == Finish(r) /\ UNCHANGED <<tree, outdated, raced, branchMoved>>

\* Clients name suites and cases they have seen, which may be deleted by now.
Known(job) ==
  /\ "suite" \in DOMAIN job => job.suite \in MadeSuites \cup {Same}
  /\ "parent" \in DOMAIN job => job.parent \in MadeSuites \cup {Top, Same}
  /\ "case" \in DOMAIN job => job.case \in MadeCases

\* The guards (QA_LEAD for all of these) are passed.
Receive(r, job) ==
  /\ req[r] = Unsent /\ Known(job)
  /\ req' = [req EXCEPT ![r] = [phase |-> "find", job |-> job]]
  /\ UNCHANGED <<tree, outdated, raced, branchMoved>>

\* A parent is judged, the tree changes, and a create or move still commits.
Wrote(r, changed) ==
  /\ raced' = (raced \/ r \in outdated)
  /\ outdated' =
       IF ~changed THEN outdated
       ELSE outdated \cup {q \in Reqs \ {r} : /\ req[q].phase \in {"judge", "commit"}
                                              /\ req[q].job.op \in Writing}

-------------------------------------------------------------------------------
\* suites.service.ts

\* assertParentIsUsable, without and with excludeSuiteId.
UsableForNew(p)     == p \in suites /\ ~exceedsMaxDepth(parent, p)
UsableForMove(s, p) == UsableForNew(p) /\ ~createsCycle(parent, s, p)

\* create asks about the parent if it has one.
JudgeNew(r) ==
  /\ At(r, "find", "createSuite")
  /\ LET p == req[r].job.parent
     IN IF p = Top \/ UsableForNew(p) THEN Pass(r, "commit") ELSE Refuse(r)

\* The insert; its foreign key refuses a parent deleted meanwhile.
CreateSuite(r) ==
  /\ At(r, "commit", "createSuite")
  /\ LET p == req[r].job.parent
     IN IF p \notin suites \cup {Top} THEN Refuse(r)
        ELSE \E s \in Suites \ MadeSuites :
               /\ suites' = suites \cup {s}
               /\ parent' = [parent EXCEPT ![s] = p]
               /\ Log("SUITE_CREATED", s)
               /\ Wrote(r, FALSE)
               /\ Finish(r)
               /\ UNCHANGED <<cases, suiteOf, branchMoved>>

\* update loads the row; the parent is judged only if it is to change and not null.
FindSuite(r) ==
  /\ At(r, "find", "updateSuite")
  /\ LET s == req[r].job.suite  p == req[r].job.parent
     IN IF s \notin suites THEN Refuse(r)
        ELSE Pass(r, IF p \in {Same, Top, parent[s]} THEN "commit" ELSE "judge")

JudgeMove(r) ==
  /\ At(r, "judge", "updateSuite")
  /\ IF UsableForMove(req[r].job.suite, req[r].job.parent)
     THEN Pass(r, "commit") ELSE Refuse(r)

\* The update by id, of a row that may be gone, to a parent that may be gone.
UpdateSuite(r) ==
  /\ At(r, "commit", "updateSuite")
  /\ LET s == req[r].job.suite
         p == IF req[r].job.parent = Same THEN parent[s] ELSE req[r].job.parent
     IN IF s \notin suites \/ p \notin suites \cup {Top} THEN Refuse(r)
        ELSE /\ parent' = [parent EXCEPT ![s] = p]
             /\ branchMoved' = (branchMoved \/ (/\ p # parent[s] /\ p # Top
                                                /\ Children(s) # {}))
             /\ Log("SUITE_UPDATED", s)
             /\ Wrote(r, p # parent[s])
             /\ Finish(r)
             /\ UNCHANGED <<suites, cases, suiteOf>>

\* remove: the row is looked up, then deleted.
FindRemoved(r) ==
  /\ At(r, "find", "removeSuite")
  /\ IF req[r].job.suite \in suites THEN Pass(r, "commit") ELSE Refuse(r)

\* The rows the delete of s takes along, level by level (ON DELETE CASCADE).
Cascade(s) == {k \in suites : s \in Chain(parent, k)}

RemoveSuite(r) ==
  /\ At(r, "commit", "removeSuite")
  /\ LET s == req[r].job.suite
     IN IF s \notin suites THEN Refuse(r)
        ELSE /\ suites' = suites \ Cascade(s)
             /\ cases' = {c \in cases : suiteOf[c] \notin Cascade(s)}
             /\ Log("SUITE_DELETED", s)
             /\ Finish(r)
             /\ UNCHANGED <<parent, suiteOf, outdated, raced, branchMoved>>

-------------------------------------------------------------------------------
\* cases.service.ts

\* create and update look up the suite (assertSuiteExists), update and remove the
\* case; update asks about a suite only if it is another one.
FindForCase(r) ==
  /\ req[r].phase = "find"
  /\ req[r].job.op \in {"createCase", "updateCase", "removeCase"}
  /\ LET job == req[r].job
     IN IF "case" \in DOMAIN job /\ job.case \notin cases THEN Refuse(r)
        ELSE IF job.op = "createCase" \/ (/\ job.op = "updateCase"
                                          /\ job.suite \notin {Same, suiteOf[job.case]})
        THEN Pass(r, "judge") ELSE Pass(r, "commit")

JudgeCaseSuite(r) ==
  /\ req[r].phase = "judge" /\ req[r].job.op \in {"createCase", "updateCase"}
  /\ IF req[r].job.suite \in suites THEN Pass(r, "commit") ELSE Refuse(r)

\* The write, whose foreign key refuses a suite deleted meanwhile.
WriteCase(r, c, s, action) ==
  IF s \notin suites THEN Refuse(r)
  ELSE /\ cases' = cases \cup {c}
       /\ suiteOf' = [suiteOf EXCEPT ![c] = s]
       /\ Log(action, c)
       /\ Finish(r)
       /\ UNCHANGED <<suites, parent, outdated, raced, branchMoved>>

CreateCase(r) ==
  /\ At(r, "commit", "createCase")
  /\ \E c \in Cases \ MadeCases : WriteCase(r, c, req[r].job.suite, "CASE_CREATED")

\* Fault: the update is an upsert.
UpdateCaseUpserts(r) ==
  /\ At(r, "commit", "updateCase")
  /\ LET c == req[r].job.case
         s == IF req[r].job.suite = Same THEN suiteOf[c] ELSE req[r].job.suite
     IN WriteCase(r, c, s, "CASE_UPDATED")

UpdateCase(r) ==
  /\ At(r, "commit", "updateCase")
  /\ LET c == req[r].job.case
         s == IF req[r].job.suite = Same THEN suiteOf[c] ELSE req[r].job.suite
     IN IF c \notin cases THEN Refuse(r) ELSE WriteCase(r, c, s, "CASE_UPDATED")

RemoveCase(r) ==
  /\ At(r, "commit", "removeCase")
  /\ LET c == req[r].job.case
     IN IF c \notin cases THEN Refuse(r)
        ELSE /\ cases' = cases \ {c}
             /\ Log("CASE_DELETED", c)
             /\ Finish(r)
             /\ UNCHANGED <<suites, parent, suiteOf, outdated, raced, branchMoved>>

-------------------------------------------------------------------------------
\* The routes of suites.controller.ts and cases.controller.ts that write.
ServeSuite(r) ==
  \/ JudgeNew(r) \/ CreateSuite(r)
  \/ FindSuite(r) \/ JudgeMove(r) \/ UpdateSuite(r)
  \/ FindRemoved(r) \/ RemoveSuite(r)

ServeCase(r) ==
  \/ FindForCase(r) \/ JudgeCaseSuite(r)
  \/ CreateCase(r) \/ UpdateCase(r) \/ RemoveCase(r)

Serve(r) == ServeSuite(r) \/ ServeCase(r)

Next == \E r \in Reqs : (\E job \in Jobs : Receive(r, job)) \/ Serve(r)

Spec == Init /\ [][Next]_vars

-------------------------------------------------------------------------------
\* Properties

\* Every suite can be reached from the top, so the assembled tree shows each of them
\* and nobody's suites vanish from the screen, as long as no create or move commits
\* on a tree that another move has changed since it was judged (update, createsCycle).
EverySuiteIsShown == ~raced => Shown = suites

\* A suite is at most three levels deep: "TestSuite는 최대 3단계 트리"
\* (suite-tree-rules.ts:3).
DepthWithinLimit ==
  \A s \in suites : Len(ancestorChain(parent, s)) <= MAX_SUITE_DEPTH

\* exceedsMaxDepth keeps the tree within three levels as long as what is moved has no
\* children and nothing races.
DepthKeptForLeaves == ~raced /\ ~branchMoved => DepthWithinLimit

\* Nothing disappears unexplained: of a suite or case that is gone, the log has the
\* deletion of itself or of a suite it was in at that time, whatever moves, creates and
\* cascading deletes raced; and nothing comes back.
LossesAreLogged ==
  /\ \A s \in MadeSuites \ suites : Chain(parent, s) \cap Logged("SUITE_DELETED") # {}
  /\ \A c \in MadeCases \ cases :
       \/ c \in Logged("CASE_DELETED")
       \/ Chain(parent, suiteOf[c]) \cap Logged("SUITE_DELETED") # {}
  /\ Logged("SUITE_DELETED") \cap suites = {} /\ Logged("CASE_DELETED") \cap cases = {}
===============================================================================
