SPECIFICATION Spec
CONSTANTS
    Flow <- MCFlow
    AgentStates <- MCAgentStates
    Critics <- MCCritics
    Hybrid <- MCHybrid
    ReviewGate = TRUE
    Kind <- MCKind
    Strict = TRUE
    MaxQueue = 2
    MaxNotices = 2
    MaxTrouble = 1
INVARIANTS
    TypeOK
    DoneUnlessInterfered
    OnlyTroubleStrands
PROPERTIES
    ImplementsCommandBoard
    AdvancesMoveWhatWasRead
    CommandsSettle
CHECK_DEADLOCK FALSE
