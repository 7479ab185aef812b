--------------------------- MODULE MCAuthenticate ----------------------------
(***************************************************************************)
(* Authenticate on small instances.                                        *)
(***************************************************************************)
EXTENDS Authenticate, TLC

OneCode == [c \in Customers |-> CHOOSE k \in Codes : TRUE]

Symmetric == Permutations(Tasks) \union Permutations(Users)
==============================================================================
