SPECIFICATION FailoverSpec
CONSTANTS
  Servers = {opi5id}
  Primary = opi5id
  NoServer = NoServer
  LeaseTTL = 2
  ReceiptTTL = 2
  Period = 1
  RunTime = 1
  Grace = 2
  Threshold = 2
  MaxTime = 6
  MaxRecovery = 2
  MaxFaults = 1
  MaxCrashes = 1
  NumHosts = 2
  Cli = {operator}
  MaxRuns = 3
  MaxApiFaults = 2
  MaxWriteFaults = 1
  MaxDeaths = 1
INVARIANTS FencedOutlivesLease PromotionFenced OverlapBounded PromotedIsTrue RecordedOriginal ActiveIsPublic
CHECK_DEADLOCK FALSE
