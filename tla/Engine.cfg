SPECIFICATION FairSpec
CONSTANTS
    FullFlow <- MCFullFlow
    Structural <- MCStructural
    PhaseOfCritic <- MCPhaseOfCritic
    PhasesOfMode <- MCPhasesOfMode
    PhaseChoices <- MCPhaseChoices
    DefaultMode = "CREATE"
    Budgets <- FaultOrReset
INVARIANTS
    TypeOK
    CrashKeepsTransition
    TraceLeadsToState
PROPERTIES
    AppliedNeverDropped
    ImplementsWriteAhead
    PipelineSettles
CHECK_DEADLOCK FALSE
