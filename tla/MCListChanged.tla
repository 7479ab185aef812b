---------------------------- MODULE MCListChanged ----------------------------
(***************************************************************************)
(* ListChanged on small instances.                                         *)
(***************************************************************************)
EXTENDS ListChanged, TLC
==============================================================================
