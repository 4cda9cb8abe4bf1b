------------------------- MODULE MCAutoOrchestration -------------------------
(* A phase and its critic; a command that resets, one that resets or         *)
(* continues, and one that is refused.                                       *)
EXTENDS AutoOrchestration

MCFlow == <<"IDLE", "PHASE_1", "CRITIC_1", "COMPLETED">>
MCAgentStates == {"PHASE_1", "CRITIC_1"}
MCCritics == {"CRITIC_1"}
MCHybrid == {"PHASE_1", "CRITIC_1"}
MCKind == <<{"fresh"}, {"fresh", "continue"}, {"unknown"}>>
=============================================================================
