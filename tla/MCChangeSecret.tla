--------------------------- MODULE MCChangeSecret ---------------------------
(***************************************************************************)
(* Two jobs one after the other (the second finds what the first left: a   *)
(* candidate, a lost command, a version), the scheduler and one request of *)
(* the retry button.                                                       *)
(***************************************************************************)
EXTENDS ChangeSecret

CONSTANT c1
=============================================================================
