-------------------------- MODULE MCOffsiteCopies --------------------------
(***************************************************************************)
(* One graphics recording, two generations of the settings, two attempts:  *)
(* a row of a retired generation beside one of the current, and a retry.   *)
(* A newer session has lost its file and fills the view of the backfill,   *)
(* until it is deleted.                                                    *)
(***************************************************************************)
EXTENDS OffsiteCopies

=============================================================================
