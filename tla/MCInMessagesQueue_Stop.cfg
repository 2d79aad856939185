CONSTANTS
    Messages <- MCMessages
    Senders <- MCSenders
    Request <- MCRequest
    Workchain = "W"
    Masterchain = "M"
    WorkchainOf <- LocalWorkchainOf
    Keyless <- MCKeyless
    Garbled = {6}
    Capacity = 2
    MaxFailures = 0
    MayStop = TRUE
SPECIFICATION FairSpec
PROPERTIES
    StopEnds
CHECK_DEADLOCK FALSE
