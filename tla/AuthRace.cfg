\* Four requests of any kind, with rollbacks, crashes and lost answers.
SPECIFICATION Spec
CONSTANTS
  Tokens = {t1, t2, t3, t4}
  NoToken = NoToken
  Reqs = {r1, r2, r3, r4}
  NoReq = NoReq
  Emails = {e1}
  Ops = {"register", "refresh", "logout"}
  Faults = {"abort", "crash", "lost"}
SYMMETRY AuthSymmetry
INVARIANTS TokensAccountedFor ReuseIsCarriedOut
CHECK_DEADLOCK FALSE
