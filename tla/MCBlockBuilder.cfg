SPECIFICATION Spec
CONSTANTS
    giver = giver
    wallet = wallet
    elsewhere = elsewhere
    Origin = Origin
    Accounts = {giver, wallet}
    Foreign = {elsewhere}
    SameId <- MCSameId
    FirstLt <- MCFirstLt
    MaxExternal = 2
    MaxMessages = 4
    MaxSends = 2
    MaxFailures = 2
    MaxGone = 2
INVARIANTS
    TypeOK
    SentOnceExecutedOnce
    DeliveryOrder
    LtCausal
    BlocksDisjoint
    SeqSingle
    ExternalsAccounted
CHECK_DEADLOCK FALSE
