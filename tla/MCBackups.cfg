SPECIFICATION BackupsSpec
CONSTANTS
  Retentions = {1, 2}
  MaxSets = 3
  MaxUpdates = 1
  MaxDays = 2
  MaxFaults = 2
  MaxCrashes = 1
  Sites = {a}
  AppData = app
  Retention = 1
  SourceDeletes = FALSE
  TornReads = FALSE
  Repeats = FALSE
  Slow = FALSE
  MaxSourceSets = 3
  MaxReceipts = 2
  MaxVerifications = 2
  MaxFailures = 1
  MaxReboots = 1
  KeepLast = 1
  MaxLocal = 3
  MaxDate = 2
  MaxSnapshots = 3
  MaxTroubles = 2
INVARIANTS SiteWhole ReceiptHeld 
PROPERTIES AllOrNothing RecordedIsReplicated
CHECK_DEADLOCK FALSE
