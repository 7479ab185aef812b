----------------------------- MODULE MCSseSession ----------------------------
(***************************************************************************)
(* SseSession on small instances.                                          *)
(***************************************************************************)
EXTENDS SseSession
==============================================================================
