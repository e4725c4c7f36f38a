SPECIFICATION Spec
CONSTANTS
    Workers = {w1, w2}
    Ips = {a, b}
    Passwords = {p, q}
    Instances = {i, j}
    None = None
    MaxFailures = 2
    Window = 2
    Lockout = 3
    MaxEntries = 1
    MaxClock = 4
    MaxChanges = 2
    Faults = {"io", "restore"}
SYMMETRY Symmetry
CONSTRAINT Explored
INVARIANTS
    RateBounded
    RetryExact
    ChangeEndsSessions
    CredentialsNeverLost
PROPERTIES
    LockoutsFixed
    ChangedOnlyBySession
CHECK_DEADLOCK FALSE
