----------------------------- MODULE MCToolCache -----------------------------
(***************************************************************************)
(* ToolCache on small instances.                                           *)
(***************************************************************************)
EXTENDS ToolCache, TLC

\* What the admin handlers commit: an edit of a tool, a grant of either
\* kind, or a hard delete, which cascades to both grant tables.
AdminMutations == {{"tools"}, {"role_grants"}, {"customer_grants"}, Tables}

\* When a property does not look at what a commit touched.
AnyMutation == {Tables}
==============================================================================
