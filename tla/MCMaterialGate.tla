--------------------------- MODULE MCMaterialGate ---------------------------
(***************************************************************************)
(* A small instance of MaterialGate for TLC.                               *)
(***************************************************************************)
EXTENDS MaterialGate
=============================================================================
