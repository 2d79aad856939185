SPECIFICATION Spec
CONSTANTS
    Uses = {{"run"}, {"caller"}}
    Deltas = {2}
    MaxNow = 1
    MaxMessages = 2
    MaxCommands = 2
    MaxFailures = 1
    MaxRestarts = 1
INVARIANTS
    TypeOK
    NumbersUnique
    ListedAtRest
    FiledUnderItsMasterBlock
    ShardsNeverGoBack
    TimeNeverGoesBack
    SeqShardTimesIncrease
CHECK_DEADLOCK FALSE
