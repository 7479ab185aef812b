---------------------------- MODULE MCAdminTools -----------------------------
(***************************************************************************)
(* AdminTools on small instances.                                          *)
(***************************************************************************)
EXTENDS AdminTools, TLC

Symmetric == Permutations(Tasks)
==============================================================================
