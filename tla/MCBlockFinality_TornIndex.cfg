CONSTANTS
    MaxBlocks = 2
    MaxErrors = 0
    MaxCrashes = 1
    MaxRestarts = 0
SPECIFICATION Spec
INVARIANTS
    NeverDead
CHECK_DEADLOCK FALSE
