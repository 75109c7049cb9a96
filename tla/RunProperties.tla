----------------------------- MODULE RunProperties -----------------------------
(***************************************************************************)
(* What the write side of a run promises: under every interleaving, when   *)
(* no two transactions meet on one case, when none overlap at all, and     *)
(* what a document claims but concurrent requests break.                   *)
(***************************************************************************)
EXTENDS RunService

Records(f)     == {i \in DOMAIN audit : audit[i].op = f}
RecordsOf(c)   == {i \in Records("record") : audit[i].case = c}
Gains(f)       == {i \in Records("record") : audit[i].next = f}
Losses(f)      == {i \in Records("record") : audit[i].prev = f}
LastOf(I, i)   == i \in I /\ \A k \in I : k <= i

-------------------------------------------------------------------------------
\* Under every interleaving

\* The four counter columns are exactly what replaying the audit log gives:
\* no increment is lost, doubled or applied without its audit entry, whatever
\* transactions race, roll back or die (applyCounterShift, audit.record).
CountersReplayAudit ==
  \A f \in CounterFields :
    counters[f] = Cardinality(Gains(f)) - Cardinality(Losses(f))

\* The audit log has the last word: a case shows the result and the recorder of
\* its latest entry, and the run the status of its latest entry, so concurrent
\* writers overwrite each other in the order the log tells.
AuditHasLastWord ==
  /\ \A c \in Cases :
       \/ RecordsOf(c) = {} /\ result[c] = "PENDING" /\ recordedBy[c] = Nobody
       \/ \E i \in RecordsOf(c) :
            /\ LastOf(RecordsOf(c), i)
            /\ result[c] = audit[i].next
            /\ recordedBy[c] =
                 IF result[c] = "PENDING" THEN Nobody ELSE audit[i].user
  /\ \/ Records("status") = {} /\ status = "PLANNED"
     \/ \E i \in Records("status") :
          LastOf(Records("status"), i) /\ status = audit[i].next

\* A run that has been in progress carries startedAt and a closed one
\* completedAt, also after racing transitions (updateStatus).
StampsFollowStatus ==
  /\ status \in {"IN_PROGRESS", "COMPLETED"} => startedAt
  /\ status \in Terminal => completedAt
  /\ (\E i \in Records("status") : audit[i].next = "COMPLETED") => startedAt

\* Counters after the first n audit entries.
Replay(n) == [f \in CounterFields |->
  Cardinality({i \in Gains(f) : i <= n}) - Cardinality({i \in Losses(f) : i <= n})]

\* An event is sent only for what was committed, with what was committed; the
\* progress it carries is the run's at that commit, or, for a re-recorded equal
\* result, at some earlier commit (recordResult: emit after tx.run resolves).
EventsTellCommittedHistory ==
  \A e \in emitted :
    \E i \in DOMAIN audit :
      /\ audit[i].req = e.req /\ audit[i].op = e.op
      /\ e.op = "record" =>
           /\ e.case = audit[i].case /\ e.user = audit[i].user
           /\ e.prev = audit[i].prev /\ e.next = audit[i].next
           /\ \E n \in 0..i : /\ e.counters = Replay(n)
                              /\ e.prev # e.next => n = i
      /\ e.op = "status" => e.next = audit[i].next

\* No request waits for ever.  Results and transitions cannot form a cycle of locks
\* (the case before the run); two lists of assignees can, as createMany takes the
\* keys row by row in the order of each list, and then the database ends one of the
\* requests; the others go on, and no lock outlives its request.
EveryRequestAnswered == \A r \in Reqs : (pc[r] \in InFlight) ~> (pc[r] = "done")

\* While the process stays up and the user can be looked up, every commit is
\* announced.
CommitsAreAnnounced ==
  \A r \in Reqs :
    (\E i \in DOMAIN audit : audit[i].req = r) ~> (\E e \in emitted : e.req = r)

-------------------------------------------------------------------------------
\* When no two transactions meet on one case

OnCase(r, c) ==
  /\ pc[r] \in {"record.update", "record.shift", "record.commit"}
  /\ job[r].case = c
Contended == \E r, s \in Reqs : r # s /\ \E c \in Cases : OnCase(r, c) /\ OnCase(s, c)

UncontendedNext == Next /\ ~Contended'
UncontendedSpec == Init /\ [][UncontendedNext]_vars

\* The columns count the cases: each equals the number of cases that show that
\* result, so progress and passRate are those of the cases.
CountersCountCases ==
  \A f \in CounterFields : counters[f] = Cardinality({c \in Cases : result[c] = f})

-------------------------------------------------------------------------------
\* When the run's transactions do not overlap at all

Overlap == \E r, s \in Reqs : r # s /\ pc[r] \in InTx /\ pc[s] \in InTx

SerialNext == Next /\ ~Overlap'
SerialSpec == Init /\ [][SerialNext]_vars

\* The statements, locks, events and failures of the handlers amount to the
\* one-step operations of RunBoard: the rows, the counters and the log are the
\* board's, and the requests, their locks and what they have read are no part of it.
Board == INSTANCE RunBoard WITH
  Users <- Users, Cases <- Cases, Results <- Results, Reqs <- Reqs, Nobody <- Nobody,
  status <- status, startedAt <- startedAt, completedAt <- completedAt,
  counters <- counters, result <- result, recordedBy <- recordedBy,
  assignees <- assignees, audit <- audit
ImplementsBoard == Board!Spec

-------------------------------------------------------------------------------
\* What a document states without a condition

\* The counters stay right also when requests contend for a case: "경합 시에도
\* 카운터가 어긋나지 않는다" (DATA-MODEL.md:374).
CountersRightUnderContention == CountersCountCases
===============================================================================
