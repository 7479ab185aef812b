----------------------------- MODULE MCJwksCache -----------------------------
(***************************************************************************)
(* JwksCache on small instances.                                           *)
(***************************************************************************)
EXTENDS JwksCache
==============================================================================
