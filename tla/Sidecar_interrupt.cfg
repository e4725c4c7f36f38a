SPECIFICATION Spec
CONSTANTS
    None = None
    MaxWrites = 1
    MaxFaults = 2
INVARIANTS
    InterruptedNeverContinues
CHECK_DEADLOCK FALSE
