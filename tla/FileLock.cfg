SPECIFICATION FairSpec
CONSTANTS
    server = server
    mcp = mcp
    c1 = c1
    c2 = c2
    c3 = c3
    c4 = c4
    c5 = c5
    NoCall = NoCall
    Calls <- MCCalls
    Procs <- MCProcs
    ProcOf <- MCProcOf
INVARIANTS
    TypeOK
    MutualExclusion
    FirstComeFirstServed
    ForksOnlyBehindTimeOut
PROPERTIES
    EveryWaiterServed
CHECK_DEADLOCK FALSE
