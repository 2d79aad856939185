CONSTANTS
    Messages <- MCMessages
    Senders <- MCSenders
    Request <- MCRequest
    Workchain = "W"
    Masterchain = "M"
    WorkchainOf <- LocalWorkchainOf
    Keyless <- MCKeyless
    Garbled = {6}
    Capacity = 2
    MaxFailures = 0
    MayStop = FALSE
SPECIFICATION FairSpec
PROPERTIES
    EveryAcceptedIsTaken
CHECK_DEADLOCK FALSE
