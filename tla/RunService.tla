------------------------------ MODULE RunService ------------------------------
(***************************************************************************)
(* The write side of one test run: RunsService.recordResult, updateStatus  *)
(* and updateAssignees (backend/src/runs/runs.service.ts), the guards in   *)
(* front of them, their Prisma transactions and the events sent after the  *)
(* commit.                                                                 *)
(*                                                                         *)
(* A transaction runs at READ COMMITTED, PostgreSQL's default, which the   *)
(* code does not change: every statement sees what is committed when it    *)
(* starts, an UPDATE or DELETE holds its row until the transaction ends,   *)
(* and nothing of it is visible before the commit.  So each awaited        *)
(* statement is one action here, a write takes its row lock when it runs,  *)
(* and the values become visible in the ...Commit action.                  *)
(*                                                                         *)
(* A request arrives, is served once and ends; Reqs bounds how many there  *)
(* are.  A request that a guard refuses changes nothing and is left out.   *)
(***************************************************************************)
EXTENDS Integers, Sequences, FiniteSets

CONSTANTS
  Users,      \* members of the run's organization
  Role,       \* Role[u], the membership role OrgContextGuard reads
  Cases,      \* the run's cases (rows of test_run_cases)
  Results,    \* the RunCaseResult values in use, "PENDING" among them
  Reqs,       \* identities of the HTTP requests
  Ops,        \* which handlers receive requests: "record", "status", "assign"
  Faults,     \* what may fail: "abort", "crash", "nameOf"
  RunRow,     \* the lockable row of test_runs
  Nobody      \* no user, no lock holder

Roles == {"VIEWER", "TESTER", "QA_LEAD", "ADMIN"}

ASSUME RoleAssumption == Role \in [Users -> Roles]
ASSUME ResultsAssumption ==
  /\ Results \subseteq {"PENDING", "PASS", "FAIL", "BLOCKED", "SKIPPED"}
  /\ "PENDING" \in Results
ASSUME CasesAssumption == IsFiniteSet(Cases) /\ RunRow \notin Cases
ASSUME NobodyAssumption == Nobody \notin Users /\ Nobody \notin Reqs

VARIABLES
  status, startedAt, completedAt,  \* test_runs: the state, and whether stamped
  counters,                        \* test_runs: the four ...Count columns
  result, recordedBy,              \* test_run_cases
  assignees,                       \* test_run_assignees
  audit,                           \* audit_logs of this run, in commit order
  lock,                            \* holder of each row lock
  pc, job, loc,                    \* per request: next step, input, locals
  emitted                          \* socket.io events sent so far

dbVars  == <<status, startedAt, completedAt, counters, result, recordedBy,
             assignees, audit>>
vars    == <<status, startedAt, completedAt, counters, result, recordedBy,
             assignees, audit, lock, pc, job, loc, emitted>>

-------------------------------------------------------------------------------
\* Values

ROLE_RANK ==
  [r \in Roles |-> CASE r = "VIEWER" -> 0 [] r = "TESTER" -> 1
                     [] r = "QA_LEAD" -> 2 [] r = "ADMIN" -> 3]
HasRole(u, required) == ROLE_RANK[Role[u]] >= ROLE_RANK[required]

Statuses == {"PLANNED", "IN_PROGRESS", "COMPLETED", "ABORTED"}
Terminal == {"COMPLETED", "ABORTED"}
Targets  == Statuses \ {"PLANNED"}

\* Fault: a run may be completed without having been started.
ValidTransitionSkips(current, target) ==
  current \notin Terminal /\ (target \in Terminal \/ current = "PLANNED")

\* assertValidRunTransition
ValidTransition(current, target) ==
  /\ current \notin Terminal
  /\ \/ target = "ABORTED"
     \/ current = "PLANNED" /\ target = "IN_PROGRESS"
     \/ current = "IN_PROGRESS" /\ target = "COMPLETED"

\* A counter column is named by the result it counts; PENDING has none.
CounterFields == Results \ {"PENDING"}

\* applyCounterShift: the net change of column f when prev becomes next.
Delta(f, prev, next) ==
  (IF f = next THEN 1 ELSE 0) - (IF f = prev THEN 1 ELSE 0)
\* Fault: increment and decrement of one column overwrite each other (the bug the
\* comment in applyCounterShift recalls).
ShiftedOverwrites(cs, prev, next) ==
  [f \in CounterFields |-> IF f = next THEN cs[f] + 1
                           ELSE IF f = prev THEN cs[f] - 1 ELSE cs[f]]

Shifted(cs, prev, next) == [f \in CounterFields |-> cs[f] + Delta(f, prev, next)]

\* Fault: a case set back to PENDING keeps its recorder.
RecorderKept(j) == j.user
RecorderOf(j)   == IF j.result = "PENDING" THEN Nobody ELSE j.user

Rows == Cases \cup {RunRow}

RecordJobs == [op : {"record"}, user : Users, case : Cases, result : Results]
StatusJobs == [op : {"status"}, user : Users, target : Targets]
AssignJobs == [op : {"assign"}, user : Users, ids : SUBSET Users]
NoJob      == [op |-> "none"]
Jobs       == RecordJobs \cup StatusJobs \cup AssignJobs \cup {NoJob}

\* What a handler keeps between two statements.
Locals == [prev : Results, seen : Statuses, stamped : BOOLEAN,
           counters : [CounterFields -> Int],
           rows : SUBSET Users, row : Users \cup {Nobody},
           removed : SUBSET Users, roster : SUBSET Users]
NoLocals == [prev |-> "PENDING", seen |-> "PLANNED", stamped |-> FALSE,
             counters |-> [f \in CounterFields |-> 0],
             rows |-> {}, row |-> Nobody, removed |-> {}, roster |-> {}]

RecordTx == {"record.run", "record.case", "record.update", "record.shift",
             "record.commit"}
StatusTx == {"status.run", "status.update", "status.commit"}
AssignTx == {"assign.delete", "assign.rows", "assign.insert", "assign.commit"}
InTx     == RecordTx \cup StatusTx \cup AssignTx
Emitting == {"record.emit", "status.emit", "assign.emit"}
InFlight == InTx \cup Emitting
PCs      == InFlight \cup {"idle", "done"}

RecordEntries == [op : {"record"}, req : Reqs, user : Users, case : Cases,
                  prev : Results, next : Results]
StatusEntries == [op : {"status"}, req : Reqs, user : Users,
                  prev : Statuses, next : Targets]
AssignEntries == [op : {"assign"}, req : Reqs, user : Users,
                  ids : SUBSET Users]
Entries == RecordEntries \cup StatusEntries \cup AssignEntries

\* A request's input is that of the handler its next step belongs to.
JobFits(step, j) ==
  \/ step \in RecordTx \cup {"record.emit"} /\ j \in RecordJobs
  \/ step \in StatusTx \cup {"status.emit"} /\ j \in StatusJobs
  \/ step \in AssignTx \cup {"assign.emit"} /\ j \in AssignJobs
  \/ step \in {"idle", "done"} /\ j = NoJob

\* Every column, lock and local holds a value of its kind; in particular an
\* audit entry is well formed whichever handler wrote it.
TypeOK ==
  /\ status \in Statuses /\ startedAt \in BOOLEAN /\ completedAt \in BOOLEAN
  /\ counters \in [CounterFields -> Int]
  /\ result \in [Cases -> Results]
  /\ recordedBy \in [Cases -> Users \cup {Nobody}]
  /\ assignees \subseteq Users
  /\ audit \in Seq(Entries)
  /\ lock \in [Rows -> Reqs \cup {Nobody}]
  /\ pc \in [Reqs -> PCs]
  /\ job \in [Reqs -> Jobs]
  /\ loc \in [Reqs -> Locals]
  /\ \A r \in Reqs : JobFits(pc[r], job[r])

-------------------------------------------------------------------------------
Init ==
  /\ status = "PLANNED" /\ startedAt = FALSE /\ completedAt = FALSE
  /\ counters = [f \in CounterFields |-> 0]
  /\ result = [c \in Cases |-> "PENDING"]
  /\ recordedBy = [c \in Cases |-> Nobody]
  /\ assignees \in SUBSET Users
  /\ audit = <<>>
  /\ lock = [w \in Rows |-> Nobody]
  /\ pc = [r \in Reqs |-> "idle"]
  /\ job = [r \in Reqs |-> NoJob]
  /\ loc = [r \in Reqs |-> NoLocals]
  /\ emitted = {}

Goto(r, step) == pc' = [pc EXCEPT ![r] = step]

\* The handler has answered (or failed) and its locals are gone.
Finish(r) ==
  /\ Goto(r, "done")
  /\ job' = [job EXCEPT ![r] = NoJob]
  /\ loc' = [loc EXCEPT ![r] = NoLocals]

Take(r, row) == lock[row] = Nobody /\ lock' = [lock EXCEPT ![row] = r]
\* Fault: the run row stays locked.
ReleasedButRun(R) ==
  [w \in Rows |-> IF w # RunRow /\ lock[w] \in R THEN Nobody ELSE lock[w]]
Released(R)  == [w \in Rows |-> IF lock[w] \in R THEN Nobody ELSE lock[w]]
Release(r)   == lock' = Released({r})

Arrive(r, j, step) ==
  /\ pc[r] = "idle"
  /\ j.op \in Ops
  /\ Goto(r, step)
  /\ job' = [job EXCEPT ![r] = j]
  /\ UNCHANGED <<dbVars, lock, loc, emitted>>

-------------------------------------------------------------------------------
\* recordResult

\* RolesGuard(TESTER), then RunAssignmentGuard: both are answered before the
\* transaction opens and are not asked again.
ArriveRecord(r) == \E j \in RecordJobs :
  /\ HasRole(j.user, "TESTER")
  /\ HasRole(j.user, "QA_LEAD") \/ j.user \in assignees
  /\ Arrive(r, j, "record.run")

\* Fault: the status of the run is not asked.
RecordReadRunUnchecked(r) ==
  /\ pc[r] = "record.run"
  /\ Goto(r, "record.case") /\ UNCHANGED <<dbVars, lock, job, loc, emitted>>

RecordReadRun(r) ==
  /\ pc[r] = "record.run"
  /\ IF status = "IN_PROGRESS"
     THEN Goto(r, "record.case") /\ UNCHANGED <<job, loc>>
     ELSE Finish(r)                                \* 409 RUN_NOT_IN_PROGRESS
  /\ UNCHANGED <<dbVars, lock, emitted>>

RecordReadCase(r) ==
  /\ pc[r] = "record.case"
  /\ loc' = [loc EXCEPT ![r].prev = result[job[r].case]]
  /\ Goto(r, "record.update")
  /\ UNCHANGED <<dbVars, lock, job, emitted>>

RecordUpdateCase(r) ==
  /\ pc[r] = "record.update"
  /\ Take(r, job[r].case)
  /\ Goto(r, "record.shift")
  /\ UNCHANGED <<dbVars, job, loc, emitted>>

\* applyCounterShift: an atomic increment of the changed columns, or a plain
\* read of the run row when no column changes.
RecordShift(r) ==
  /\ pc[r] = "record.shift"
  /\ IF loc[r].prev = job[r].result THEN UNCHANGED lock ELSE Take(r, RunRow)
  /\ loc' = [loc EXCEPT ![r].counters =
                          Shifted(counters, loc[r].prev, job[r].result)]
  /\ Goto(r, "record.commit")
  /\ UNCHANGED <<dbVars, job, emitted>>

RecordCommit(r) ==
  /\ pc[r] = "record.commit"
  /\ result' = [result EXCEPT ![job[r].case] = job[r].result]
  /\ recordedBy' = [recordedBy EXCEPT ![job[r].case] = RecorderOf(job[r])]
  /\ counters' = Shifted(counters, loc[r].prev, job[r].result)
  /\ audit' = Append(audit,
       [op |-> "record", req |-> r, user |-> job[r].user,
        case |-> job[r].case, prev |-> loc[r].prev, next |-> job[r].result])
  /\ Release(r)
  /\ Goto(r, "record.emit")
  /\ UNCHANGED <<status, startedAt, completedAt, assignees, job, loc, emitted>>

\* Fault: the handler answers and sends nothing.
RecordEmitNothing(r) ==
  pc[r] = "record.emit" /\ Finish(r) /\ UNCHANGED <<dbVars, lock, emitted>>

\* After nameOf: run:case.recorded and run:progress.updated, one right after
\* the other.
RecordEmit(r) ==
  /\ pc[r] = "record.emit"
  /\ emitted' = emitted \cup
       {[op |-> "record", req |-> r, user |-> job[r].user, case |-> job[r].case,
         prev |-> loc[r].prev, next |-> job[r].result,
         counters |-> loc[r].counters]}
  /\ Finish(r)
  /\ UNCHANGED <<dbVars, lock>>

-------------------------------------------------------------------------------
\* updateStatus

ArriveStatus(r) == \E j \in StatusJobs :
  HasRole(j.user, "QA_LEAD") /\ Arrive(r, j, "status.run")

StatusReadRun(r) ==
  /\ pc[r] = "status.run"
  /\ IF ValidTransition(status, job[r].target)
     THEN /\ loc' = [loc EXCEPT ![r].seen = status, ![r].stamped = startedAt]
          /\ Goto(r, "status.update")
          /\ UNCHANGED job
     ELSE Finish(r)                                \* 409 RUN_INVALID_TRANSITION
  /\ UNCHANGED <<dbVars, lock, emitted>>

StatusUpdateRun(r) ==
  /\ pc[r] = "status.update"
  /\ Take(r, RunRow)
  /\ Goto(r, "status.commit")
  /\ UNCHANGED <<dbVars, job, loc, emitted>>

StatusCommit(r) ==
  /\ pc[r] = "status.commit"
  /\ status' = job[r].target
  /\ startedAt' = (startedAt \/ (job[r].target = "IN_PROGRESS" /\ ~loc[r].stamped))
  /\ completedAt' = (completedAt \/ job[r].target \in Terminal)
  /\ audit' = Append(audit, [op |-> "status", req |-> r, user |-> job[r].user,
                             prev |-> loc[r].seen, next |-> job[r].target])
  /\ Release(r)
  /\ Goto(r, "status.emit")
  /\ UNCHANGED <<counters, result, recordedBy, assignees, job, loc, emitted>>

\* After nameOf: run:status.changed, to the run room and the org room.
StatusEmit(r) ==
  /\ pc[r] = "status.emit"
  /\ emitted' = emitted \cup {[op |-> "status", req |-> r, user |-> job[r].user,
                               next |-> job[r].target]}
  /\ Finish(r)
  /\ UNCHANGED <<dbVars, lock>>

-------------------------------------------------------------------------------
\* updateAssignees

\* The run exists and every id is a member's: ids are drawn from Users.
ArriveAssign(r) == \E j \in AssignJobs :
  HasRole(j.user, "QA_LEAD") /\ Arrive(r, j, "assign.delete")

\* A statement that has the rows R to do takes one of them next.
Turn(l, R) == {[l EXCEPT !.rows = R, !.row = u] : u \in IF R = {} THEN {Nobody} ELSE R}

\* deleteMany: its snapshot is the rows committed when it starts ...
AssignDelete(r) ==
  /\ pc[r] = "assign.delete"
  /\ \E l \in Turn([loc[r] EXCEPT !.removed = {}], assignees) :
       loc' = [loc EXCEPT ![r] = l]
  /\ Goto(r, "assign.rows")
  /\ UNCHANGED <<dbVars, lock, job, emitted>>

\* Rows a transaction has deleted or inserted and not committed.
Deleting(s)  == IF pc[s] \in {"assign.rows", "assign.insert", "assign.commit"}
                THEN loc[s].removed ELSE {}
Inserting(s) == CASE pc[s] = "assign.insert" -> job[s].ids \ loc[s].rows
                  [] pc[s] = "assign.commit" -> job[s].ids
                  [] OTHER -> {}

\* ... it takes them one by one, waits for one that another transaction is
\* deleting, and skips one that has been deleted since (see AssignCommit).
AssignDeleteRow(r) ==
  LET u == loc[r].row IN
  /\ pc[r] = "assign.rows" /\ loc[r].rows # {}
  /\ \A s \in Reqs \ {r} : u \notin loc[r].rows \cap Deleting(s)
  /\ \E l \in Turn(loc[r], loc[r].rows \ {u}) :
       loc' = [loc EXCEPT ![r] =
                 [l EXCEPT !.removed = @ \cup ({u} \cap loc[r].rows)]]
  /\ UNCHANGED <<dbVars, lock, pc, job, emitted>>

AssignDeleteDone(r) ==
  /\ pc[r] = "assign.rows" /\ loc[r].rows = {}
  /\ \E l \in Turn(loc[r], job[r].ids) : loc' = [loc EXCEPT ![r] = l]
  /\ Goto(r, "assign.insert")
  /\ UNCHANGED <<dbVars, lock, job, emitted>>

\* createMany inserts row after row, in the order of the list, which may be any:
\* the unique key (testRunId, userId) makes it wait for a row of another
\* transaction and fail on a committed one.
AssignInsertRow(r) ==
  LET u == loc[r].row IN
  /\ pc[r] = "assign.insert" /\ loc[r].rows # {}
  /\ \A s \in Reqs \ {r} : u \notin Deleting(s) \cup Inserting(s)
  /\ IF u \in assignees \ loc[r].removed
     THEN Finish(r)                                              \* P2002, 409
     ELSE /\ \E l \in Turn(loc[r], loc[r].rows \ {u}) : loc' = [loc EXCEPT ![r] = l]
          /\ UNCHANGED <<pc, job>>
  /\ UNCHANGED <<dbVars, lock, emitted>>

\* After the entry in the log the rows are read again for the event.
AssignLoad(r) ==
  /\ pc[r] = "assign.insert" /\ loc[r].rows = {}
  /\ loc' = [loc EXCEPT ![r].roster = (assignees \ loc[r].removed) \cup job[r].ids]
  /\ Goto(r, "assign.commit")
  /\ UNCHANGED <<dbVars, lock, job, emitted>>

\* The rows removed are gone from the snapshots of others: what is inserted under
\* the same ids later are other rows.
AssignCommit(r) ==
  /\ pc[r] = "assign.commit"
  /\ assignees' = (assignees \ loc[r].removed) \cup job[r].ids
  /\ audit' = Append(audit, [op |-> "assign", req |-> r, user |-> job[r].user,
                             ids |-> job[r].ids])
  /\ Goto(r, "assign.emit")
  /\ loc' = [s \in Reqs |->
       IF pc[s] = "assign.rows" /\ s # r
       THEN [loc[s] EXCEPT !.rows = @ \ loc[r].removed] ELSE loc[s]]
  /\ UNCHANGED <<status, startedAt, completedAt, counters, result, recordedBy,
                 lock, job, emitted>>

\* run:assignees.changed
AssignEmit(r) ==
  /\ pc[r] = "assign.emit"
  /\ emitted' = emitted \cup {[op |-> "assign", req |-> r,
                               roster |-> loc[r].roster]}
  /\ Finish(r)
  /\ UNCHANGED <<dbVars, lock>>

-------------------------------------------------------------------------------
\* Failures

\* Fault: the events are sent although the transaction rolled back.
AbortStillEmits(r) ==
  /\ pc[r] = "record.commit"
  /\ Goto(r, "record.emit") /\ Release(r)
  /\ UNCHANGED <<dbVars, job, loc, emitted>>

\* The transaction rolls back at any of its statements: the 5 s limit of a
\* Prisma interactive transaction, or a lost connection.
Abort(r) ==
  /\ "abort" \in Faults
  /\ pc[r] \in InTx
  /\ Finish(r)
  /\ Release(r)
  /\ UNCHANGED <<dbVars, emitted>>

\* The transactions that hold what the statement of r waits for.
Blockers(r) ==
  {s \in Reqs \ {r} :
     \/ pc[r] = "record.update" /\ lock[job[r].case] = s
     \/ pc[r] = "record.shift" /\ loc[r].prev # job[r].result /\ lock[RunRow] = s
     \/ pc[r] = "status.update" /\ lock[RunRow] = s
     \/ pc[r] = "assign.rows" /\ loc[r].row \in loc[r].rows \cap Deleting(s)
     \/ pc[r] = "assign.insert" /\ loc[r].rows # {}
          /\ loc[r].row \in Deleting(s) \cup Inserting(s)}

InCycle(r) ==
  \E D \in SUBSET Reqs :
    r \in D /\ \A d \in D : Blockers(d) \cap D # {} /\ \E e \in D : d \in Blockers(e)

\* PostgreSQL finds a cycle of waiting transactions and rolls one of them back.
DeadlockVictim(r) ==
  /\ pc[r] \in InTx /\ InCycle(r)
  /\ Finish(r)
  /\ Release(r)
  /\ UNCHANGED <<dbVars, emitted>>

\* nameOf runs after the commit and can fail: the caller gets a 500 and
\* nobody gets an event.
NameOfFails(r) ==
  /\ "nameOf" \in Faults
  /\ pc[r] \in {"record.emit", "status.emit"}
  /\ Finish(r)
  /\ UNCHANGED <<dbVars, lock, emitted>>

\* The server process stops and restarts: open transactions roll back, events
\* not yet sent are lost.
Crash ==
  LET lost == {r \in Reqs : pc[r] \in InFlight} IN
  /\ "crash" \in Faults
  /\ lost # {}
  /\ pc' = [r \in Reqs |-> IF r \in lost THEN "done" ELSE pc[r]]
  /\ job' = [r \in Reqs |-> IF r \in lost THEN NoJob ELSE job[r]]
  /\ loc' = [r \in Reqs |-> IF r \in lost THEN NoLocals ELSE loc[r]]
  /\ lock' = Released(lost)
  /\ UNCHANGED <<dbVars, emitted>>

-------------------------------------------------------------------------------
RecordStep(r) ==
  \/ RecordReadRun(r) \/ RecordReadCase(r) \/ RecordUpdateCase(r)
  \/ RecordShift(r) \/ RecordCommit(r) \/ RecordEmit(r)
StatusStep(r) ==
  \/ StatusReadRun(r) \/ StatusUpdateRun(r) \/ StatusCommit(r) \/ StatusEmit(r)
AssignStep(r) ==
  \/ AssignDelete(r) \/ AssignDeleteRow(r) \/ AssignDeleteDone(r)
  \/ AssignInsertRow(r) \/ AssignLoad(r) \/ AssignCommit(r) \/ AssignEmit(r)
Serve(r) == RecordStep(r) \/ StatusStep(r) \/ AssignStep(r) \/ DeadlockVictim(r)

Receive(r) == ArriveRecord(r) \/ ArriveStatus(r) \/ ArriveAssign(r)

Next ==
  \/ \E r \in Reqs : Receive(r) \/ Serve(r) \/ Abort(r) \/ NameOfFails(r)
  \/ Crash

Spec == Init /\ [][Next]_vars

\* The event loop and the database keep serving what has arrived, and a deadlock is
\* found.  Row locks are released by a later step of their holder and requests are
\* finitely many, so weak fairness is enough for a waiting statement to be granted.
FairSpec == Spec /\ \A r \in Reqs : WF_vars(Serve(r))
===============================================================================
