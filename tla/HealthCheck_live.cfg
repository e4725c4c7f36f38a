SPECIFICATION FairSpec
CONSTANTS
    Web = {}
    Scanner = scanner
    Subs = {1, 2}
    Fingerprints = {"a"}
    NodesOf <- Kept
    Targets = {}
    None = None
    Interval = 1
    Backoff <- Delays
    Retry = 1
    Limit = 1
    MaxClock = 2
    MaxEpoch = 4
    MaxRevision = 1
    MaxCheck = 2
    Faults = {}
PROPERTIES
    DueAttended
CHECK_DEADLOCK FALSE
