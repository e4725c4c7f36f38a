SPECIFICATION FairSpec
CONSTANTS
    Subs = {1, 2}
    Sources = {i, j}
    Configs = {a}
    None = None
    Intervals = {1, 2}
    Backoff <- Delays
    Limit = 2
    MaxClock = 2
    MaxEpoch = 4
    Versions = {1, 2, 3}
    Start <- Created
    Users = {"manage"}
    Faults = {}
PROPERTIES
    OldestFirst
    DueAttended
CHECK_DEADLOCK FALSE
