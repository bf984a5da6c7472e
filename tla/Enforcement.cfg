SPECIFICATION EnforcementFairSpec
CONSTANTS
  Sites = {site}
  Observer = observer
  Watchdog = watchdog
  Requests = {request}
  MaxAge = 1
  MaxFaults = 1
  MaxCrashes = 1
PROPERTIES BlocksFresh Restored
