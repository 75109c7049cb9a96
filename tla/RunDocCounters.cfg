\* Two requests record one case at the same time.
SPECIFICATION Spec
CONSTANTS
  lead = lead  tester = tester  viewer = viewer
  Users = {lead, tester}
  Role <- MCRole
  Cases = {c1}
  Results = {"PENDING", "PASS"}
  Reqs = {r1, r2, r3}
  Ops = {"record", "status"}
  Faults = {}
  RunRow = RunRow
  Nobody = Nobody

INVARIANTS CountersRightUnderContention
CHECK_DEADLOCK FALSE
