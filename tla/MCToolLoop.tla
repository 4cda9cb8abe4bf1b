------------------------------ MODULE MCToolLoop ------------------------------
(* Two attempts of an agent, and two side effects of one operation that the  *)
(* cache cannot tell apart, since they differ in a nested parameter only.    *)
EXTENDS ToolLoop

CONSTANTS commit, commitElsewhere, l1, l2
MCRequests == {commit, commitElsewhere}
MCKeyOf == [r \in MCRequests |-> "commit"]
MCOperationOf == [r \in MCRequests |-> "git"]
MCLoops == {l1, l2}
=============================================================================
