----------------------------- MODULE MCMcpProxy ------------------------------
(***************************************************************************)
(* McpProxy on small instances.                                            *)
(***************************************************************************)
EXTENDS McpProxy, TLC
==============================================================================
