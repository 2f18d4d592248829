---------------------------- MODULE MaterialGate ----------------------------
(***************************************************************************)
(* internal/seal/material_gate.go: the gate one service generation lends   *)
(* its key material through.  Every method runs under one mutex, so each   *)
(* is one action; the operation behind a lease takes as long as it likes   *)
(* between Borrow and Finish.                                              *)
(*                                                                         *)
(* Two kinds of callers close it.  A runtime Seal brings a transition that *)
(* may fail, and stops when it lost; a release (DrainMaterial) brings none *)
(* and waits for the borrowers whoever closed the gate.                    *)
(***************************************************************************)
EXTENDS Naturals, FiniteSets

CONSTANTS Users,       \* operations that borrow, each once
          Sealers,     \* callers of CloseWith(transition), then Drain
          Releasers    \* callers of CloseWith(nil), then Drain

ASSUME UsersAssumption == IsFiniteSet(Users)
ASSUME ClosersAssumption == Sealers \cap Releasers = {}

Closers == Sealers \cup Releasers

VARIABLES
  closed,     \* MaterialGate.closed
  active,     \* MaterialGate.active
  drained,    \* the channel: "none" (nil), "open", "shut", "panic" (shut twice)
  use,        \* what each user is doing
  closer,     \* what each closer is doing
  wiped       \* the material was overwritten

vars == <<closed, active, drained, use, closer, wiped>>

UseStates == {"idle", "refused", "borrowing", "delivered", "suppressed"}
CloserStates == {"idle", "refused", "draining", "wiping", "gaveUp", "done"}

TypeOK ==
  /\ closed \in BOOLEAN /\ active \in Nat
  /\ drained \in {"none", "open", "shut", "panic"}
  /\ use \in [Users -> UseStates]
  /\ closer \in [Closers -> CloserStates]
  /\ wiped \in BOOLEAN

Init ==
  /\ closed = FALSE /\ active = 0 /\ drained = "none"
  /\ use = [u \in Users |-> "idle"]
  /\ closer = [c \in Closers |-> "idle"]
  /\ wiped = FALSE

Borrowers == {u \in Users : use[u] = "borrowing"}

-----------------------------------------------------------------------------
BorrowUnchecked(u) ==       \* a bug: a closed gate still lends
  /\ use[u] = "idle"
  /\ use' = [use EXCEPT ![u] = "borrowing"] /\ active' = active + 1
  /\ UNCHANGED <<closed, drained, closer, wiped>>

(* Borrow refuses once the gate is closed and counts the lease otherwise.  *)
Borrow(u) ==
  /\ use[u] = "idle"
  /\ IF closed
     THEN use' = [use EXCEPT ![u] = "refused"] /\ UNCHANGED active
     ELSE use' = [use EXCEPT ![u] = "borrowing"] /\ active' = active + 1
  /\ UNCHANGED <<closed, drained, closer, wiped>>

FinishUnsignalled(u) ==     \* a bug: nobody hears of the last lease
  /\ use[u] = "borrowing"
  /\ use' = [use EXCEPT ![u] = IF closed THEN "suppressed" ELSE "delivered"]
  /\ active' = active - 1
  /\ UNCHANGED <<closed, drained, closer, wiped>>

(* Finish decides whether the result may be delivered and returns the      *)
(* lease; the last lease of a closed gate closes the channel.              *)
Finish(u) ==
  /\ use[u] = "borrowing"
  /\ use' = [use EXCEPT ![u] = IF closed THEN "suppressed" ELSE "delivered"]
  /\ active' = active - 1
  /\ drained' = IF ~(closed /\ active = 1) THEN drained
                ELSE IF drained = "open" THEN "shut" ELSE "panic"
  /\ UNCHANGED <<closed, closer, wiped>>

CloseAsIfIdle(c) ==         \* a bug: the leases already out are not looked at
  /\ closer[c] = "idle" /\ ~closed
  /\ closed' = TRUE /\ drained' = "shut"
  /\ closer' = [closer EXCEPT ![c] = "draining"]
  /\ UNCHANGED <<active, use, wiped>>

(* CloseWith that closes: the transition, if any, succeeded.               *)
Close(c) ==
  /\ closer[c] = "idle" /\ ~closed
  /\ closed' = TRUE
  /\ drained' = IF active = 0 THEN "shut" ELSE "open"
  /\ closer' = [closer EXCEPT ![c] = "draining"]
  /\ UNCHANGED <<active, use, wiped>>

(* CloseWith that does not: the gate was closed, or the transition failed. *)
CloseRefused(c) ==
  /\ closer[c] = "idle" /\ c \in Sealers
  /\ closer' = [closer EXCEPT ![c] = "refused"]
  /\ UNCHANGED <<closed, active, drained, use, wiped>>

JoinClosed(c) ==
  /\ closer[c] = "idle" /\ c \in Releasers /\ closed
  /\ closer' = [closer EXCEPT ![c] = "draining"]
  /\ UNCHANGED <<closed, active, drained, use, wiped>>

(* Drain waits on the channel until its context ends.                      *)
Drain(c) ==
  /\ closer[c] = "draining"
  /\ \/ drained = "shut" /\ closer' = [closer EXCEPT ![c] = "wiping"]
     \/ closer' = [closer EXCEPT ![c] = "gaveUp"]
  /\ UNCHANGED <<closed, active, drained, use, wiped>>

(* What the drain is for: ZeroizeForRelease overwrites the material.       *)
Wipe(c) ==
  /\ closer[c] = "wiping"
  /\ closer' = [closer EXCEPT ![c] = "done"]
  /\ wiped' = TRUE
  /\ UNCHANGED <<closed, active, drained, use>>

UserStep(u) == Borrow(u) \/ Finish(u)
CloserStep(c) == Close(c) \/ CloseRefused(c) \/ JoinClosed(c) \/ Drain(c) \/ Wipe(c)

Next == (\E u \in Users : UserStep(u)) \/ (\E c \in Closers : CloserStep(c))

Spec == Init /\ [][Next]_vars

-----------------------------------------------------------------------------
(* The channel says exactly what the counter says: it exists once the gate *)
(* is closed, is shut when the last lease is back, and is never shut twice *)
(* (which would panic in Finish, under the mutex).                         *)
SignalExact ==
  /\ active = Cardinality(Borrowers)
  /\ drained = "none" <=> ~closed
  /\ drained = "shut" <=> closed /\ active = 0
  /\ drained # "panic"

(* Nobody reads material that is being, or was, overwritten.               *)
NoWipeUnderBorrow ==
  wiped \/ (\E c \in Closers : closer[c] = "wiping") => Borrowers = {}

(* Counter, flag and channel implement the promise of the gate.            *)
Lease == INSTANCE LeaseGate WITH
  phase <- IF ~closed THEN "open" ELSE IF drained = "shut" THEN "dry" ELSE "closing",
  borrowers <- Borrowers
ImplementsLease == Lease!Spec
=============================================================================
