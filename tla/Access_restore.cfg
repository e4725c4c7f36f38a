SPECIFICATION Spec
CONSTANTS
    Workers = {w1, w2}
    Ips = {a}
    Passwords = {p, q}
    Instances = {i, j}
    None = None
    MaxFailures = 1
    Window = 1
    Lockout = 1
    MaxEntries = 1
    MaxClock = 0
    MaxChanges = 2
    Faults = {"restore"}
SYMMETRY Symmetry
INVARIANTS
    ChangeAfterRestoreEndsSessions
CHECK_DEADLOCK FALSE
