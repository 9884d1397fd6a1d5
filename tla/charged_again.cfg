SPECIFICATION FairSpec
CONSTANTS
  Run = {cron}
  MaxInvoices = 2
  Setting <- MCSetting
  MaxThreshold = 2
  MaxAmount = 2
  Price = {1}
  Opening = 2
  MaxFaults = 1
  None = None
PROPERTIES
  NotRunAgain
