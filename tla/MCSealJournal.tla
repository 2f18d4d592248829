--------------------------- MODULE MCSealJournal ---------------------------
(* Small instances of SealJournal: the bounds are the cfgs' constants.     *)
EXTENDS SealJournal
=============================================================================
