\* The transactions of the run do not overlap.
SPECIFICATION SerialSpec
CONSTANTS
  lead = lead  tester = tester  viewer = viewer
  Users = {lead}
  Role <- MCLeadRole
  Cases = {c1, c2}
  Results = {"PENDING", "PASS", "FAIL"}
  Reqs = {r1, r2, r3, r4}
  Ops = {"record", "status", "assign"}
  Faults = {"abort", "crash", "nameOf"}
  RunRow = RunRow
  Nobody = Nobody
SYMMETRY CaseSymmetry
INVARIANTS SummaryCountsCases
PROPERTIES ImplementsBoard
CHECK_DEADLOCK FALSE
