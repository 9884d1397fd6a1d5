SPECIFICATION FairSpec
CONSTANTS
  Accounts = {a1, a2}
  Campaigns = {k1}
  Sweeps = {w1}
  Operators = {p1}
  Offers <- MCOffers
  Budgets = {1, 2}
  Batch = 1
  Horizon = 2
  None = None
INVARIANTS
  TypeOK
  CreditedOnce
  ExhaustedIsSpent
PROPERTIES
  NobodyStaysOwed
  GiftsFollowTheRow
  OfferKept
CHECK_DEADLOCK FALSE
