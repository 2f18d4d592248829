--------------------------- MODULE MCSealMachine ---------------------------
(***************************************************************************)
(* Small instances of SealMachine for TLC.                                 *)
(***************************************************************************)
EXTENDS SealMachine

CONSTANTS a1, a2, src1

OneSource == [a \in Attempts |-> src1]
=============================================================================
