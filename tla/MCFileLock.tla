----------------------------- MODULE MCFileLock -----------------------------
(* FileLock on a small instance: four calls of the server process, enough  *)
(* for a holder, a call that times out behind it, one that waits for the   *)
(* timed out call and one made later; and a call of the MCP server.        *)
EXTENDS FileLock

CONSTANTS server, mcp, c1, c2, c3, c4, c5

MCCalls == {c1, c2, c3, c4, c5}
MCProcs == {server, mcp}
MCProcOf == [c \in MCCalls |-> IF c = c5 THEN mcp ELSE server]
=============================================================================
