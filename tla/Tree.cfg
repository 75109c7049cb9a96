\* Four suites and a case, two requests on any tree, the forms and the tree of one page.
SPECIFICATION PageSpec
CONSTANTS
  Suites = {s1, s2, s3, s4}
  Cases = {c1}
  Reqs = {r1, r2}
  Top = Top
  Same = Same
  NoData = NoData
  SmallTrees = 2
SYMMETRY TreeSymmetry
INVARIANTS EverySuiteIsShown DepthKeptForLeaves LossesAreLogged
  SavesKeepTheRest TreeShowsOwnChanges
CHECK_DEADLOCK FALSE
