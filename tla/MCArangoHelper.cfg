SPECIFICATION FairSpec
CONSTANTS
    Accounts = {giver}
    Messages = {transfer}
    MaxBlocks = 2
    MaxHelpers = 2
    MaxFailures = 2
    MaxCrashes = 1
INVARIANTS
    TypeOK
    DatabaseFollowsLog
PROPERTIES
    ImplementsDocumentLog
    NewestStays
    ChannelsDrain
CHECK_DEADLOCK FALSE
