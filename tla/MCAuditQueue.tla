---------------------------- MODULE MCAuditQueue ----------------------------
(* Small instances of AuditQueue: the bounds are the cfgs' constants.      *)
EXTENDS AuditQueue
=============================================================================
