---------------------------- MODULE MCMcpHandler -----------------------------
(***************************************************************************)
(* McpHandler on small instances.                                          *)
(***************************************************************************)
EXTENDS McpHandler, TLC
==============================================================================
