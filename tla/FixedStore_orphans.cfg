SPECIFICATION Spec
CONSTANTS
    Workers = {w1, w2}
    Subs = {s1}
    Revs = {r1, r2}
    Tokens = {t1, t2}
    None = None
    MaxClock = 1
    MaxFails = 0
    Faults = {"crash"}
SYMMETRY Symmetry
PROPERTIES
    OrphansGoWithNextMutation
