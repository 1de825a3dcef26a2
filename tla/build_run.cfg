SPECIFICATION FairSpec
CONSTANTS
    None = None
    MaxBuilds = 1
    MaxCrashes = 1
    PdaArgs <- MCPdaArgs
    RequestedArgs <- MCRequestedArgs
    Outputs <- MCOutputs
CHECK_DEADLOCK FALSE
INVARIANTS
    TypeOK
    RoundTrip
    DuplicatesBuiltTheSame
    FailedHasLogs
    NotifiedTruth
    ToldBeforeDone
PROPERTIES
    LifecycleSafe
    NotifiedEventually
