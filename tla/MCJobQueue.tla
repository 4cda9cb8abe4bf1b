----------------------------- MODULE MCJobQueue -----------------------------
(* With a file provider two jobs for the worker, the second of a higher     *)
(* priority, one of an index route that the worker leaves alone, and a      *)
(* crash; with a remote provider, where all accesses interleave, one job.   *)
(* A list shows one document, the first of j1, r1, j2 that there is, so     *)
(* that the index job can keep j2 from the worker but not j1.               *)
EXTENDS JobQueue

CONSTANTS j1, j2, r1
MCJobs == {j1, j2, r1}
MCRouteJobs == {r1}
MCHandled == {j1, j2}
MCPlace == [j \in MCJobs |-> IF j = j1 THEN 1 ELSE IF j = r1 THEN 2 ELSE 3]
MCPriority == [j \in MCJobs |-> IF j = j2 THEN 2 ELSE 1]
MCOffered == [p \in Providers |-> IF p = "file" THEN MCJobs ELSE {j1}]
MCMaxCrashes == [p \in Providers |-> IF p = "file" THEN 1 ELSE 0]
=============================================================================
