SPECIFICATION Spec
CONSTANTS
  Servers = {opi5id}
  Primary = opi5id
  NoServer = NoServer
  LeaseTTL = 1
  ReceiptTTL = 1
  Period = 1
  RunTime = 1
  Grace = 1
  Threshold = 1
  MaxTime = 3
  MaxRecovery = 2
  MaxFaults = 1
  MaxCrashes = 2
PROPERTIES  SplitBrainEnds
CHECK_DEADLOCK FALSE
