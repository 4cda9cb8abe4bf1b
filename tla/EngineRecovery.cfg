SPECIFICATION Spec
CONSTANTS
    FullFlow <- MCFullFlow
    Structural <- MCStructural
    PhaseOfCritic <- MCPhaseOfCritic
    PhasesOfMode <- MCPhasesOfMode
    PhaseChoices <- MCPhaseChoices
    DefaultMode = "CREATE"
    Budgets <- TwoCrashes
INVARIANTS
    RecoveryLoadsCommitted
CHECK_DEADLOCK FALSE
