SPECIFICATION Spec
CONSTANTS
    commit = commit
    commitElsewhere = commitElsewhere
    l1 = l1
    l2 = l2
    NoRequest = NoRequest
    Requests <- MCRequests
    KeyOf <- MCKeyOf
    OperationOf <- MCOperationOf
    SideEffects <- MCRequests
    Threshold = 2
    MaxInFlight = 1
    MaxAbandoned = 1
    Loops <- MCLoops
    MaxRounds = 1
    MaxFanout = 2
    MaxCrashes = 1
INVARIANTS
    TypeOK
    EffectsOnce
    LimitsExact
PROPERTIES
    LoopsEnd
CHECK_DEADLOCK FALSE
