SPECIFICATION Spec
CONSTANTS
    Workers = {w1, w2}
    Subs = {s1}
    Revs = {r1, r2, r3}
    Tokens = {t1, t2}
    None = None
    MaxClock = 1
    MaxFails = 0
    Faults = {"crash", "io"}
SYMMETRY Symmetry
INVARIANTS
    SelectedComplete
    TokensUnique
    AuditDescribesSelected
PROPERTIES
    ImplementsService
