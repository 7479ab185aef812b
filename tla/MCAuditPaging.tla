---------------------------- MODULE MCAuditPaging ----------------------------
(***************************************************************************)
(* AuditPaging on small instances.                                         *)
(***************************************************************************)
EXTENDS AuditPaging
==============================================================================
