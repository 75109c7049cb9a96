\* Four requests on one case: start, close and racing records of it.
SPECIFICATION Spec
CONSTANTS
  lead = lead  tester = tester  viewer = viewer
  Users = {lead, tester}
  Role <- MCRole
  Cases = {c1}
  Results = {"PENDING", "PASS"}
  Reqs = {r1, r2, r3, r4}
  Ops = {"record", "status"}
  Faults = {"crash", "nameOf"}
  RunRow = RunRow
  Nobody = Nobody
SYMMETRY RequestSymmetry
INVARIANTS CountersReplayAudit AuditHasLastWord StampsFollowStatus EventsTellCommittedHistory
PROPERTIES TrendSettles
CHECK_DEADLOCK FALSE
