SYMMETRY Alike
SPECIFICATION SitesSpec
CONSTANTS
    Sites = {a, b}
    Alias = h
    None = None
    MaxFaults = 1
    MaxCrashes = 1
    Unswept = FALSE
    LateAlias = FALSE
    Requesters = {p, q}
    Migrator = cli
    Presets = {1, 2}
    MaxRequests = 2
    MaxDirect = 1
    MaxFailures = 2
    MaxStops = 1
INVARIANTS ServedWhole AppliedStays Agreement
PROPERTY FailedWorkRepeatable
