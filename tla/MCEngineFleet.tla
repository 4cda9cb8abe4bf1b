---------------------------- MODULE MCEngineFleet ----------------------------
(* The server, and a command line that is started and ends at any time. *)
EXTENDS EngineFleet

CONSTANTS server, cli
MCWorkers == {server, cli}

(* LogLeads says nothing of a disturbed fleet, which stays disturbed: such
   states are checked for their types and not gone on from. *)
Undisturbed == ~disturbed
=============================================================================
