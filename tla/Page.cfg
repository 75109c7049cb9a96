\* One page of a run with one case; a request of its own and one from elsewhere.
CONSTANTS
  own = own
  other = other
  Reqs <- MCReqs
  Mine <- MCMine
  Cases = {c1}
  NoData = NoData
  Budget = 2
SPECIFICATION Spec
INVARIANTS PageShowsRun OwnRecordIsShown
PROPERTIES NeverBackwards
CHECK_DEADLOCK FALSE
