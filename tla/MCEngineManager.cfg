SPECIFICATION FairSpec
CONSTANTS
    Clients = {c1, c2}
    Original = "own"
    MaxRequests = 2
    MaxFailures = 2
    MaxCrashes = 2
INVARIANTS
    TypeOK
    OneEngineRuns
    OneGeneration
    AcceptingEngineIsServed
PROPERTIES
    OkMeansDone
    RequestsEnd
CHECK_DEADLOCK FALSE
