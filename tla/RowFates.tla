------------------------------ MODULE RowFates ------------------------------
(***************************************************************************)
(* What the audit log service promises of a row it is given: the row gets  *)
(* one fate, in the database or degraded, in the file or as a loss that is *)
(* reported, and keeps it.  Until then the service has it.                 *)
(***************************************************************************)
CONSTANT Rows

VARIABLES fate,      \* what has become of each row
          fallback   \* where degraded rows go: "filed" or "lost"

vars == <<fate, fallback>>

Fates == {"new", "pending", "stored", "filed", "lost"}

Init == /\ fate = [r \in Rows |-> "new"]
        /\ fallback \in {"filed", "lost"}

(* A row that finds the queue full is degraded at once.                    *)
Log(r) == /\ fate[r] = "new"
          /\ \E f \in {"pending", fallback} : fate' = [fate EXCEPT ![r] = f]
          /\ UNCHANGED fallback

(* A batch is settled: some of its rows stored, the others degraded.       *)
Settle == /\ fate' \in [Rows -> Fates]
          /\ \A r \in Rows : \/ fate'[r] = fate[r]
                             \/ /\ fate[r] = "pending"
                                /\ fate'[r] \in {"stored", fallback}
          /\ UNCHANGED fallback

Next == Settle \/ \E r \in Rows : Log(r)

Spec == Init /\ [][Next]_vars
=============================================================================
