---------------------------- MODULE MCAuditStore ----------------------------
(* AuditStore by itself; the bounds are in the configuration. *)
EXTENDS AuditStore
=============================================================================
