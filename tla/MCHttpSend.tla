----------------------------- MODULE MCHttpSend ------------------------------
(***************************************************************************)
(* HttpSend on small instances.                                            *)
(***************************************************************************)
EXTENDS HttpSend, TLC

\* Below zero, and below the default of two.
SomeRetries == {-1, 1}
==============================================================================
