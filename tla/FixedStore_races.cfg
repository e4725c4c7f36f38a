SPECIFICATION Spec
CONSTANTS
    Workers = {w1, w2}
    Subs = {s1}
    Revs = {r1, r2}
    Tokens = {t1, t2}
    None = None
    MaxClock = 2
    MaxFails = 1
    Faults = {}
SYMMETRY Symmetry
INVARIANTS
    NothingLeftBehind
PROPERTIES
    PublishOnSnapshot
    AccessNeverLost
