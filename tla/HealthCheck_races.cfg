SPECIFICATION Spec
CONSTANTS
    Web = {w1}
    Scanner = scanner
    Subs = {1}
    Fingerprints = {"a", "b"}
    NodesOf <- Replaced
    Targets = {x, y}
    None = None
    Interval = 1
    Backoff <- Delays
    Retry = 1
    Limit = 1
    MaxClock = 1
    MaxEpoch = 4
    MaxRevision = 2
    MaxCheck = 2
    Faults = {"crash", "io"}
INVARIANTS
    MeasuredAsConfigured
    ValidState
PROPERTIES
    VersionsAdvance
    StoppedNotCommitted
    OnlyJobFailuresCount
SYMMETRY TargetSymmetry
CHECK_DEADLOCK FALSE
