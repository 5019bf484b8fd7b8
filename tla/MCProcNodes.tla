----------------------------- MODULE MCProcNodes -----------------------------
(* Two users for ProcNodes.                                                *)
EXTENDS ProcNodes

CONSTANTS t1, t2
=============================================================================
