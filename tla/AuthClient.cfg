\* One tab, a call and a logout, lost answers and reloads.
SPECIFICATION SessionSpec
CONSTANTS
  Tokens = {t1, t2, t3}
  NoToken = NoToken
  Tabs = {tab}
  Calls = {c1}
  Faults = {"lost", "reload"}
  Expiries = 1
INVARIANTS NoForcedLogout HoldsLiveToken  SignOutLeavesNothing
PROPERTIES CallsSettle
CHECK_DEADLOCK FALSE
