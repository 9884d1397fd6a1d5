SPECIFICATION Spec
CONSTANTS
  o1 = o1
  o2 = o2
  t1 = t1
  None = None
  Orders = {o1, o2}
  Sessions = {s1}
  Workers = {p1, p2}
  TopUps = {}
  MinCharge = 1
  InitialBalance = 2
  MayCrash = FALSE
  Total <- MCTotal
  TopUpAmount <- MCTopUpAmount
  Requests = {"checkout", "payOrder", "cancel", "refund"}
SYMMETRY MCSymmetry
INVARIANTS
  WalletNeverOverdrawn
  CardChargeAboveMinimum
CHECK_DEADLOCK FALSE
