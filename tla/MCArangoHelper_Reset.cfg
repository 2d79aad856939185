SPECIFICATION Spec
CONSTANTS
    Accounts = {giver}
    Messages = {transfer}
    MaxBlocks = 2
    MaxHelpers = 2
    MaxFailures = 0
    MaxCrashes = 0
INVARIANT ResetClearsDocuments
CHECK_DEADLOCK FALSE
