SPECIFICATION Spec
CONSTANTS
    Subs = {1}
    Sources = {i}
    Configs = {a, b}
    None = None
    Intervals = {1, 2}
    Backoff <- Delays
    Limit = 1
    MaxClock = 1
    MaxEpoch = 2
    Versions = {1, 2, 3}
    Start <- Nothing
    Users = {"form", "source", "manage"}
    Faults = {"stop"}
INVARIANTS
    ServedAsConfigured
    NextIsEarned
    ValidSchedule
PROPERTIES
    AutoTouchesOnlyDue
    AttemptsAdvance
CHECK_DEADLOCK FALSE
