SPECIFICATION Spec
CONSTANTS
    Uses = {{"run"}}
    Deltas = {}
    MaxNow = 0
    MaxMessages = 2
    MaxCommands = 1
    MaxFailures = 0
    MaxRestarts = 0
INVARIANTS
    SeqTimesUnique
CHECK_DEADLOCK FALSE
