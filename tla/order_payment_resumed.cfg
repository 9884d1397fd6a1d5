SPECIFICATION FairSpec
CONSTANTS
  o1 = o1
  o2 = o2
  t1 = t1
  None = None
  Orders = {o1}
  Sessions = {s1, s2, s3}
  Workers = {p1}
  TopUps = {t1}
  MinCharge = 1
  InitialBalance = 2
  MayCrash = FALSE
  Total <- MCTotal
  TopUpAmount <- MCTopUpAmount
  Requests = {"checkout", "resume", "payOrder", "cancel", "refund"}
INVARIANTS
  LedgerMatchesReservation
  RefundReturnsEverything
  LiveSessionKeepsOrder
PROPERTIES
  AbandonedCheckoutReleases
  
CHECK_DEADLOCK FALSE
