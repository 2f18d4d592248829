--------------------------- MODULE MCSealRouting ---------------------------
(***************************************************************************)
(* Small instances of SealRouting for TLC.                                 *)
(***************************************************************************)
EXTENDS SealRouting

CONSTANTS a1, a2, src1

OneSource == [a \in Attempts |-> src1]
=============================================================================
