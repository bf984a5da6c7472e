SPECIFICATION FairSpec
CONSTANTS
  Rules = {r}
  Settings = {s}
  Addresses = {a}
  None = None
  Durations = {1}
  MaxTime = 2
  MaxCommands = 3
  MaxEdits = 1
  MaxFaults = 1
  MaxCrashes = 1
  LateEdits = FALSE
  ZoneLapses = FALSE
INVARIANT MitigationRecorded
PROPERTIES  MitigationEnds
CHECK_DEADLOCK FALSE
