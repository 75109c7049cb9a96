\* The server stays up: transactions may roll back, nothing else fails; lists of two
\* assignees cross.
SPECIFICATION FairSpec
CONSTANTS
  lead = lead  tester = tester  viewer = viewer
  Users = {lead, viewer}
  Role <- MCListRole
  Cases = {c1}
  Results = {"PENDING", "PASS"}
  Reqs = {1, 2, 3}
  Ops = {"record", "status", "assign"}
  Faults = {"abort"}
  RunRow = RunRow
  Nobody = Nobody
CONSTRAINTS InOrder LastIsRecord
PROPERTIES EveryRequestAnswered CommitsAreAnnounced
CHECK_DEADLOCK FALSE
