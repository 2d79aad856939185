SPECIFICATION Spec
CONSTANTS
    Uses = {{"run"}}
    Deltas = {}
    MaxNow = 0
    MaxMessages = 2
    MaxCommands = 0
    MaxFailures = 0
    MaxRestarts = 1
INVARIANTS
    EveryBlockListed
CHECK_DEADLOCK FALSE
