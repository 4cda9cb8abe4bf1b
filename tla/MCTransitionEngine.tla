-------------------------- MODULE MCTransitionEngine --------------------------
(* TransitionEngine on a short flow of the same shape as FULL_FLOW: a phase *)
(* with its critic, and the implementation phase that belongs to every      *)
(* flow.  CREATE selects the phase, HOTFIX selects none, as in MODE_CONFIGS;*)
(* a caller may also run HOTFIX with the phase, or CREATE without it.       *)
EXTENDS TransitionEngine

MCFullFlow == <<"IDLE", "PHASE_1", "CRITIC_1", "PHASE_5_EXECUTING", "COMPLETED">>
MCStructural == {"IDLE", "PHASE_5_EXECUTING", "COMPLETED"}
MCPhaseOfCritic == [c \in {"CRITIC_1"} |-> "PHASE_1"]
MCPhasesOfMode == [m \in {"CREATE", "HOTFIX"} |->
                    IF m = "CREATE" THEN {"PHASE_1"} ELSE {}]
MCPhaseChoices == {{"PHASE_1"}}
Budget(crashes, faults, rejections, errors, resets) ==
    [t \in Trouble |-> CASE t = "crash" -> crashes
                       [] t = "fault" -> faults
                       [] t = "rejection" -> rejections
                       [] t = "error" -> errors
                       [] t = "reset" -> resets]

(* Crashes with a write that throws, or a reset with an error; and crashes only. *)
FaultOrReset == {Budget(2, 1, 1, 0, 0), Budget(1, 0, 1, 1, 1)}
TwoCrashes == {Budget(2, 0, 0, 0, 0)}
=============================================================================
