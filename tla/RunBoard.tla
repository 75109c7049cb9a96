------------------------------- MODULE RunBoard -------------------------------
(***************************************************************************)
(* What a test run promises its users: results, status and assignees that  *)
(* change one operation at a time, counters that count the cases, and an   *)
(* audit entry with the true before and after of every change.             *)
(***************************************************************************)
EXTENDS Integers, Sequences, FiniteSets

CONSTANTS Users, Cases, Results, Reqs, Nobody

VARIABLES status, startedAt, completedAt, counters, result, recordedBy,
          assignees, audit

board == <<status, startedAt, completedAt, counters, result, recordedBy,
           assignees, audit>>

Closed == {"COMPLETED", "ABORTED"}

Recount(res) ==
  [f \in Results \ {"PENDING"} |-> Cardinality({c \in Cases : res[c] = f})]

Log(entry) == audit' = Append(audit, entry)

Init ==
  /\ status = "PLANNED" /\ ~startedAt /\ ~completedAt
  /\ result = [c \in Cases |-> "PENDING"]
  /\ recordedBy = [c \in Cases |-> Nobody]
  /\ counters = Recount(result)
  /\ assignees \in SUBSET Users
  /\ audit = <<>>

Record(r, u, c, v) ==
  /\ status = "IN_PROGRESS"
  /\ result' = [result EXCEPT ![c] = v]
  /\ recordedBy' = [recordedBy EXCEPT ![c] = IF v = "PENDING" THEN Nobody ELSE u]
  /\ counters' = Recount(result')
  /\ Log([op |-> "record", req |-> r, user |-> u, case |-> c,
          prev |-> result[c], next |-> v])
  /\ UNCHANGED <<status, startedAt, completedAt, assignees>>

Start ==
  status = "PLANNED" /\ status' = "IN_PROGRESS" /\ startedAt' /\ UNCHANGED completedAt
Complete ==
  status = "IN_PROGRESS" /\ status' = "COMPLETED" /\ completedAt' /\ UNCHANGED startedAt
Stop ==
  status \notin Closed /\ status' = "ABORTED" /\ completedAt' /\ UNCHANGED startedAt

Move(r, u) ==
  /\ Start \/ Complete \/ Stop
  /\ Log([op |-> "status", req |-> r, user |-> u, prev |-> status, next |-> status'])
  /\ UNCHANGED <<counters, result, recordedBy, assignees>>

Replace(r, u, ids) ==
  /\ assignees' = ids
  /\ Log([op |-> "assign", req |-> r, user |-> u, ids |-> ids])
  /\ UNCHANGED <<status, startedAt, completedAt, counters, result, recordedBy>>

Next == \E r \in Reqs, u \in Users :
  \/ \E c \in Cases, v \in Results : Record(r, u, c, v)
  \/ Move(r, u)
  \/ \E ids \in SUBSET Users : Replace(r, u, ids)

Spec == Init /\ [][Next]_board
===============================================================================
