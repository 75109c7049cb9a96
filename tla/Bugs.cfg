\* Two organizations, one bug, three requests, one of them this browser's.
CONSTANTS
  orgA = orgA
  orgB = orgB
  Orgs = {orgA, orgB}
  Bugs = {b1}
  RunCases = {case1}
  Reqs = {r1, r2, r3}
  OrgOf <- MCOrgOf
  Changes <- MCChanges
  None = None
  Home = orgA
  Own = {r3}
  Take = 1
  NoData = NoData
  Budget = 1
SYMMETRY Symmetry
SPECIFICATION ScreensSpec
INVARIANTS ResolvedIsStamped LogTellsStatus OrgsStayApart ListShowsBugs WalkSkipsNothing
CHECK_DEADLOCK FALSE
