CONSTANTS
    Messages <- MCMessages
    Senders <- MCSenders
    Request <- MCRequest
    Workchain = "W"
    Masterchain = "M"
    WorkchainOf <- MCWorkchainOf
    Keyless <- MCKeyless
    Garbled = {6}
    Capacity = 2
    MaxFailures = 1
    MayStop = TRUE
SPECIFICATION FairSpec
INVARIANTS
    TypeOK
    
    BadRequestAcceptsPrefix
    RequestOrderKept
PROPERTIES
    ImplementsInbox
    
    StopReachesParkedEngine
    
\* The engine may stay parked and an ended engine stays ended.
CHECK_DEADLOCK FALSE
