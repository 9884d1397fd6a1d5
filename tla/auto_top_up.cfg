SPECIFICATION FairSpec
CONSTANTS
  Run = {cron, hand}
  MaxInvoices = 2
  Setting <- MCSetting
  MaxThreshold = 2
  MaxAmount = 2
  Price = {1}
  Opening = 2
  MaxFaults = 2
  None = None
INVARIANTS
  TypeOK
  OverfundingBounded
  NothingForgotten
  RefusedOnceEach
PROPERTIES
  FloorKept
