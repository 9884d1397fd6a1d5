SPECIFICATION Spec
CONSTANTS
  o1 = o1
  o2 = o2
  t1 = t1
  None = None
  Orders = {o1}
  Sessions = {s1, s2}
  Workers = {p1, p2}
  TopUps = {}
  MinCharge = 1
  InitialBalance = 2
  MayCrash = TRUE
  Total <- MCTotal
  TopUpAmount <- MCTopUpAmount
  Requests = {"checkout", "resume", "payOrder", "cancel", "refund"}
SYMMETRY MCSymmetry
INVARIANTS
  TypeOK
  NeverOverCredited
  PaidAsReserved
PROPERTIES
  LifecycleKept
CHECK_DEADLOCK FALSE
