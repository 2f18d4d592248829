----------------------------- MODULE LeaseGate -----------------------------
(***************************************************************************)
(* What a MaterialGate promises: key material is lent out while the gate   *)
(* is open, never again once it has closed, and may be overwritten only    *)
(* when every loan has been returned.                                      *)
(***************************************************************************)
CONSTANT Users       \* the operations that borrow

VARIABLES
  phase,             \* "open", "closing" (loans are still out) or "dry"
  borrowers,         \* who holds a loan
  wiped              \* the material was overwritten

vars == <<phase, borrowers, wiped>>

TypeOK ==
  /\ phase \in {"open", "closing", "dry"}
  /\ borrowers \in SUBSET Users
  /\ wiped \in BOOLEAN

Init == phase = "open" /\ borrowers = {} /\ wiped = FALSE

Borrow(u) ==
  /\ phase = "open" /\ u \notin borrowers
  /\ borrowers' = borrowers \cup {u}
  /\ UNCHANGED <<phase, wiped>>

Return(u) ==
  /\ u \in borrowers
  /\ borrowers' = borrowers \ {u}
  /\ phase' = IF phase = "closing" /\ borrowers = {u} THEN "dry" ELSE phase
  /\ UNCHANGED wiped

Close ==
  /\ phase = "open"
  /\ phase' = IF borrowers = {} THEN "dry" ELSE "closing"
  /\ UNCHANGED <<borrowers, wiped>>

Wipe == phase = "dry" /\ wiped' = TRUE /\ UNCHANGED <<phase, borrowers>>

Next == Close \/ Wipe \/ \E u \in Users : Borrow(u) \/ Return(u)

Spec == Init /\ [][Next]_vars
=============================================================================
