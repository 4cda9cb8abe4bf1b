-------------------------- MODULE MCAgentExecution --------------------------
(* Two groups, the first with two calls more than there are slots and the   *)
(* second of one call; or two runs of one agent.                            *)
EXTENDS AgentExecution

CONSTANTS g1, g2, g3, g4, h1, r1, r2, a1
MCGroups == <<{g1, g2, g3, g4}, {h1}>>
MCRuns == {r1, r2}
MCCalls == {g1, g2, g3, g4, h1} \cup MCRuns
MCAgents == {a1}
MCAgentOf == [r \in MCRuns |-> a1]
=============================================================================
