SPECIFICATION FairSpec
CONSTANTS
  MaxJobs = 3
  HistoryLimit = 1
  Requests <- MCRequests
  NoKey = NoKey
  LongKeys = {}
  CutKey = CutKey
  NoInput = NoInput
  Awaited <- MCAwaited
  Allowlist <- MCAllowlist
  MaxCrashes = 1
  MaxFaults = 1
  transfer = transfer
  maintenance = maintenance
  verify = verify
  heavy = heavy
  storage = storage
  manySites = manySites
  verifyKey = verifyKey
INVARIANTS ConflictExclusion AtMostOnce WrittenWorkSurvives SuppressedNeverRuns
PROPERTIES WaiterAnswered
CHECK_DEADLOCK FALSE
