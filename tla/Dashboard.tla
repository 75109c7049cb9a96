------------------------------- MODULE Dashboard -------------------------------
(***************************************************************************)
(* What the dashboard of an organization says of a run.  It never counts   *)
(* cases: the distribution of results, the progress and the pass rate are  *)
(* computed from the counter columns of the run's row, which one statement *)
(* reads, and the trend from the rows of completed runs.  With several     *)
(* runs the distribution is the sum of the distributions of each.          *)
(***************************************************************************)
EXTENDS RunProperties

\* create stores the number of cases, and no handler changes it.
Total == Cardinality(Cases)

\* The column that counts a result, one of results not in use being 0.
Column(v) == IF v \in CounterFields THEN counters[v] ELSE 0

Recorded == Column("PASS") + Column("FAIL") + Column("BLOCKED") + Column("SKIPPED")

\* Fault: failed cases are still taken for pending ones.
PendingOrFailed ==
  IF Total > Recorded - Column("FAIL") THEN Total - Recorded + Column("FAIL") ELSE 0

\* There is no column for PENDING.
Pending == IF Total > Recorded THEN Total - Recorded ELSE 0

ResultDistribution == [v \in Results |-> IF v = "PENDING" THEN Pending ELSE Column(v)]

\* The fraction part/whole as a pair, held between 0 and 1, and 0 of nothing.
Share(part, whole) ==
  CASE whole = 0 -> <<0, 1>>
    [] \/ whole > 0 /\ part >= whole
       \/ whole < 0 /\ part <= whole -> <<1, 1>>
    [] \/ whole > 0 /\ part <= 0
       \/ whole < 0 /\ part >= 0 -> <<0, 1>>
    [] OTHER -> <<part, whole>>

Progress == Share(Recorded, Total)
PassRate == Share(Column("PASS"), Recorded)

\* The trend has a point for a completed run and for no other.
Trend ==
  IF status = "COMPLETED" THEN <<[passRate |-> PassRate, total |-> Total]>> ELSE <<>>

-------------------------------------------------------------------------------

\* The dashboard, computed from columns that were each shifted by their own
\* statement, says how many cases show each result, PENDING included, which has no
\* column, and 100% exactly when no case is left (DashboardService.summary,
\* computeCounters).
SummaryCountsCases ==
  /\ \A v \in Results :
       ResultDistribution[v] = Cardinality({c \in Cases : result[c] = v})
  /\ Progress = <<1, 1>> <=> Cases # {} /\ \A c \in Cases : result[c] # "PENDING"

\* Requests that have read the run and are to write it.
UnderWay ==
  {r \in Reqs : pc[r] \in {"record.case", "record.update", "record.shift", "record.commit",
                          "status.update", "status.commit"}}

\* The points of the trend settle: when a run is completed and the requests that had
\* read it before have ended, its pass rate stays what it is and no transition takes
\* its point away.  Until then they do change it: the guards of recordResult and
\* updateStatus read the run without locking it (DashboardService.passRateTrend).
TrendSettles ==
  [][Trend # <<>> /\ UnderWay = {} => Trend' = Trend /\ UnderWay' = {}]_vars
===============================================================================
