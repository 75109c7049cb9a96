\* Requests on one family one after the other.
SPECIFICATION SerialSpec
CONSTANTS
  Tokens = {t1, t2, t3, t4}
  NoToken = NoToken
  Reqs = {r1, r2, r3, r4}
  NoReq = NoReq
  Emails = {}
  Ops = {"refresh", "logout"}
  Faults = {"abort", "crash", "lost"}
SYMMETRY AuthSymmetry
INVARIANTS OneLiveTokenPerFamily ReportedFamilyStaysClosed
PROPERTIES ImplementsFamilies
CHECK_DEADLOCK FALSE
