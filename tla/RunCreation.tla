------------------------------ MODULE RunCreation ------------------------------
(***************************************************************************)
(* A run is created, or its assignees are replaced, while the members of   *)
(* the organization change: create, updateAssignees and                    *)
(* assertAssigneesAreMembers of backend/src/runs/runs.service.ts.          *)
(*                                                                         *)
(* The cases and the members are read by statements of their own; the      *)
(* writes come last, touch rows nobody else has, and are one step with the *)
(* commit.  Who is a member is Organization's matter; which of the cases   *)
(* asked for exist is SuiteTree's, so here it may be any of them.  What    *)
(* two requests on the assignees of one run do to each other is            *)
(* RunService's.                                                           *)
(***************************************************************************)
EXTENDS Organization

CONSTANTS
  Cases,    \* cases a request can ask for, by itself or with their suite
  Older,    \* a run there has always been
  Newer     \* the run that is to be created

ASSUME RunsAssumption == Older # Newer /\ IsFiniteSet(Users)

VARIABLES
  run,      \* test_runs with test_run_cases and test_run_assignees
  ask,      \* the request: what it wants and how far it is
  checked   \* history: per run, what had been logged when its list was judged

runVars == <<run, ask, checked>>

NoRun == [cases |-> {}, assignees |-> {}]

\* The users of a list, and whether one of them is repeated.
Lists == {l \in [users : SUBSET Users, twice : BOOLEAN] : l.twice => l.users # {}}

Asks == [phase : {"new", "ended"}]
          \cup [phase : {"members", "write"}, of : {Older, Newer},
                cases : SUBSET Cases, list : Lists]

Members == {m.user : m \in membership}
SentByLead == \E m \in membership : m.role \in {"QA_LEAD", "ADMIN"}
Finish == ask' = [phase |-> "ended"]
Refused == Finish /\ UNCHANGED <<run, checked>>

\* assertAssigneesAreMembers is asked only about a list that is not empty.
After(list) == IF list.users = {} THEN "write" ELSE "members"

\* create reads the cases of the suites and the cases asked for; without any,
\* RUN_NO_CASES.
FindCases(found, list) ==
  LET a == [phase |-> After(list), of |-> Newer, cases |-> found, list |-> list]
  IN /\ ask.phase = "new" /\ SentByLead
     /\ IF found = {} THEN Refused ELSE ask' = a /\ UNCHANGED <<run, checked>>

\* updateAssignees finds its run.
FindRun(list) ==
  /\ ask.phase = "new" /\ SentByLead
  /\ ask' = [phase |-> After(list), of |-> Older, cases |-> {}, list |-> list]
  /\ UNCHANGED <<run, checked>>

\* Fault: it is enough that some of them are members.
AreMembersSome(users) == users \cap Members # {}

\* As many memberships as distinct users.
AreMembers(users) == Cardinality(users \cap Members) = Cardinality(users)

\* assertAssigneesAreMembers: 404 otherwise.
CheckMembers ==
  /\ ask.phase = "members"
  /\ IF AreMembers(ask.list.users)
     THEN /\ ask' = [ask EXCEPT !.phase = "write"]
          /\ checked' = [checked EXCEPT ![ask.of] = Len(audit)]
          /\ UNCHANGED run
     ELSE Refused

\* A user named twice passes the check and breaks the primary key of the assignees,
\* which takes the whole transaction back.
KeyBroken == ask.list.twice

\* create inserts the run, a copy of each case and the assignees.  The source of a
\* copy has no foreign key: it may be gone.
CreateRun ==
  /\ ask.phase = "write" /\ ask.of = Newer
  /\ IF KeyBroken THEN Refused
     ELSE /\ run' = [run EXCEPT ![Newer] =
                       [cases |-> ask.cases, assignees |-> ask.list.users]]
          /\ Finish
          /\ UNCHANGED checked

\* updateAssignees deletes all and inserts the list.
ReplaceAssignees ==
  /\ ask.phase = "write" /\ ask.of = Older
  /\ IF KeyBroken THEN Refused
     ELSE /\ run' = [run EXCEPT ![Older].assignees = ask.list.users]
          /\ Finish
          /\ UNCHANGED checked

RunInit ==
  /\ Init
  /\ run = [x \in {Older, Newer} |-> NoRun]
  /\ ask = [phase |-> "new"]
  /\ checked = [x \in {Older, Newer} |-> 0]

RunNext ==
  \/ \E list \in Lists : FindRun(list) \/ \E found \in SUBSET Cases : FindCases(found, list)
  \/ CheckMembers \/ CreateRun \/ ReplaceAssignees

\* Bound: the request of the run is counted with the others.
Sent == Cardinality({r \in Reqs : req[r] # Unsent}) + IF ask.phase = "new" THEN 0 ELSE 1
WithinRequests == Sent <= Cardinality(Reqs)

MembersAndRunsNext ==
  /\ \/ Next /\ UNCHANGED runVars
     \/ RunNext /\ UNCHANGED vars
  /\ WithinRequests'

MembersAndRunsSpec == RunInit /\ [][MembersAndRunsNext]_<<vars, runVars>>

-------------------------------------------------------------------------------

\* Whose membership a row is.
Holder(id) == IF id = Founding THEN Founder ELSE req[id].job.user

RemovedSince(u, n) ==
  \E k \in DOMAIN audit :
    k > n /\ audit[k].action = "MEMBER_REMOVED" /\ Holder(audit[k].target) = u

\* Whoever is on the list of a run is a member, or the log has his removal after the
\* list was judged: no other way leads there, whatever invitations, removals and lists
\* race.  A removal leaves the lists alone, so the same user, invited again, is
\* assigned as before (assertAssigneesAreMembers, MembersService.remove).
AssigneesWereMembers ==
  \A x \in {Older, Newer} : \A u \in run[x].assignees :
    u \in Members \/ RemovedSince(u, checked[x])
===============================================================================
