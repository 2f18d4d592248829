----------------------------- MODULE MCDataKeys -----------------------------
(***************************************************************************)
(* Small instances of DataKeys for TLC.                                    *)
(***************************************************************************)
EXTENDS DataKeys, TLC

(* Processes differ in nothing.                                            *)
Alike == Permutations(Instances)
=============================================================================
