SPECIFICATION Spec
CONSTANTS
    g1 = g1
    g2 = g2
    g3 = g3
    g4 = g4
    h1 = h1
    r1 = r1
    r2 = r2
    a1 = a1
    Calls <- MCCalls
    Groups <- MCGroups
    Runs <- MCRuns
    Agents <- MCAgents
    AgentOf <- MCAgentOf
    MaxConcurrency = 2
    MaxRetries = 2
    MaxRevisions = 1
    MaxHistory = 1
INVARIANTS
    TypeOK
    SlotsExact
    AttemptLeft
    CanBeCancelled
    TrackerFollows
PROPERTIES
    CancelledStays
    EveryCallReturns
CHECK_DEADLOCK FALSE
