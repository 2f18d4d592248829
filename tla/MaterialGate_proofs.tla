------------------------ MODULE MaterialGate_proofs ------------------------
(***************************************************************************)
(* Proofs about MaterialGate, for any finite set of users and any closers: *)
(* the channel tells the truth about the counter, the material is never    *)
(* overwritten under a borrower, and the gate implements LeaseGate.        *)
(*                                                                         *)
(* The counter is only as good as its link to the set of borrowers, so the *)
(* inductive invariant carries active = Cardinality(Borrowers); the closer *)
(* that got through Drain, and the material it wiped, carry drained =      *)
(* "shut", which SignalExact turns into "no borrower".                     *)
(***************************************************************************)
EXTENDS MaterialGate, FiniteSetTheorems, TLAPS

DrainedBeforeWipe ==
  /\ \A c \in Closers : closer[c] = "wiping" => drained = "shut"
  /\ wiped => drained = "shut"

GateInv == TypeOK /\ SignalExact /\ DrainedBeforeWipe

-----------------------------------------------------------------------------
(* The borrowers are finitely many, whatever they do.                      *)
LEMMA BorrowersFinite ==
  /\ IsFiniteSet(Borrowers)
  /\ Cardinality(Borrowers) \in Nat
  /\ Cardinality(Borrowers) = 0 <=> Borrowers = {}
BY UsersAssumption, FS_Subset, FS_CardinalityType, FS_EmptySet DEF Borrowers

(* One more borrower is one more in the count, one less is one less.       *)
LEMMA BorrowersAfterBorrow ==
  ASSUME TypeOK, NEW u \in Users, use[u] = "idle",
         use' = [use EXCEPT ![u] = "borrowing"]
  PROVE  Cardinality(Borrowers') = Cardinality(Borrowers) + 1
<1>1. Borrowers' = Borrowers \cup {u}
  BY DEF Borrowers, TypeOK
<1>2. u \notin Borrowers
  BY DEF Borrowers
<1> QED  BY <1>1, <1>2, BorrowersFinite, FS_AddElement

LEMMA BorrowersAfterFinish ==
  ASSUME TypeOK, NEW u \in Users, use[u] = "borrowing",
         NEW r \in {"suppressed", "delivered"}, use' = [use EXCEPT ![u] = r]
  PROVE  /\ Borrowers' = Borrowers \ {u}
         /\ Cardinality(Borrowers') = Cardinality(Borrowers) - 1
<1>1. Borrowers' = Borrowers \ {u}
  BY DEF Borrowers, TypeOK
<1>2. u \in Borrowers
  BY DEF Borrowers
<1> QED  BY <1>1, <1>2, BorrowersFinite, FS_RemoveElement

(* Steps that leave every user alone leave the borrowers alone.            *)
LEMMA BorrowersUnchanged ==
  ASSUME UNCHANGED use  PROVE Borrowers' = Borrowers
BY DEF Borrowers

-----------------------------------------------------------------------------
LEMMA GateInit == Init => GateInv
<1> SUFFICES ASSUME Init PROVE GateInv  OBVIOUS
<1>1. TypeOK
  BY DEF Init, TypeOK, UseStates, CloserStates
<1>2. Borrowers = {}
  BY DEF Init, Borrowers
<1>3. SignalExact
  BY <1>2, FS_EmptySet DEF Init, SignalExact
<1>4. DrainedBeforeWipe
  BY DEF Init, DrainedBeforeWipe
<1> QED  BY <1>1, <1>3, <1>4 DEF GateInv

LEMMA GateNext == GateInv /\ [Next]_vars => GateInv'
<1> SUFFICES ASSUME GateInv, [Next]_vars PROVE GateInv'  OBVIOUS
<1> USE DEF GateInv
<1>1. ASSUME NEW u \in Users, Borrow(u) PROVE GateInv'
  <2>1. TypeOK'
    BY <1>1 DEF Borrow, TypeOK, UseStates
  <2>2. CASE closed
    <3>1. Borrowers' = Borrowers
      BY <1>1, <2>2 DEF Borrow, Borrowers, TypeOK
    <3> QED  BY <1>1, <2>1, <2>2, <3>1 DEF Borrow, SignalExact, DrainedBeforeWipe
  <2>3. CASE ~closed
    <3>1. Cardinality(Borrowers') = Cardinality(Borrowers) + 1
      BY <1>1, <2>3, BorrowersAfterBorrow DEF Borrow
    <3>2. SignalExact'
      BY <1>1, <2>3, <3>1 DEF Borrow, SignalExact
    <3> QED  BY <1>1, <2>1, <2>3, <3>2 DEF Borrow, SignalExact, DrainedBeforeWipe
  <2> QED  BY <2>2, <2>3
<1>2. ASSUME NEW u \in Users, Finish(u) PROVE GateInv'
  <2>1. /\ Cardinality(Borrowers') = Cardinality(Borrowers) - 1
        /\ Cardinality(Borrowers) # 0
    <3>1. u \in Borrowers
      BY <1>2 DEF Finish, Borrowers
    <3> QED  BY <1>2, <3>1, BorrowersAfterFinish, BorrowersFinite DEF Finish
  <2>2. active \in Nat \ {0} /\ active' = active - 1
    BY <1>2, <2>1 DEF Finish, SignalExact, TypeOK
  <2>3. TypeOK'
    BY <1>2, <2>2 DEF Finish, TypeOK, UseStates
  <2>4. drained' # "panic" /\ (drained' = "none" <=> ~closed)
    BY <1>2, <2>2 DEF Finish, SignalExact, TypeOK
  <2>5. drained' = "shut" <=> closed /\ active' = 0
    BY <1>2, <2>2 DEF Finish, SignalExact, TypeOK
  <2>6. SignalExact'
    BY <1>2, <2>1, <2>2, <2>4, <2>5 DEF Finish, SignalExact
  <2>7. DrainedBeforeWipe'
    BY <1>2, <2>2 DEF Finish, SignalExact, DrainedBeforeWipe
  <2> QED  BY <2>3, <2>6, <2>7
<1>3. ASSUME NEW c \in Closers, Close(c) PROVE GateInv'
  <2>1. Borrowers' = Borrowers
    BY <1>3, BorrowersUnchanged DEF Close
  <2>2. TypeOK'
    BY <1>3 DEF Close, TypeOK, CloserStates
  <2>3. SignalExact'
    BY <1>3, <2>1 DEF Close, SignalExact
  <2>4. DrainedBeforeWipe'
    BY <1>3 DEF Close, SignalExact, DrainedBeforeWipe, TypeOK
  <2> QED  BY <2>2, <2>3, <2>4
<1>4. ASSUME NEW c \in Closers, CloseRefused(c) \/ JoinClosed(c) \/ Drain(c) \/ Wipe(c)
      PROVE  GateInv'
  <2>1. Borrowers' = Borrowers
    BY <1>4, BorrowersUnchanged DEF CloseRefused, JoinClosed, Drain, Wipe
  <2>2. TypeOK'
    BY <1>4 DEF CloseRefused, JoinClosed, Drain, Wipe, TypeOK, CloserStates
  <2>3. SignalExact'
    BY <1>4, <2>1 DEF CloseRefused, JoinClosed, Drain, Wipe, SignalExact
  <2>4. DrainedBeforeWipe'
    BY <1>4 DEF CloseRefused, JoinClosed, Drain, Wipe, DrainedBeforeWipe, TypeOK
  <2> QED  BY <2>2, <2>3, <2>4
<1>5. CASE UNCHANGED vars
  BY <1>5 DEF vars, TypeOK, SignalExact, DrainedBeforeWipe, Borrowers
<1> QED  BY <1>1, <1>2, <1>3, <1>4, <1>5 DEF Next, UserStep, CloserStep

(* Every reachable state of a gate has its books in order.                 *)
THEOREM GateInvariant == Spec => []GateInv
BY GateInit, GateNext, PTL DEF Spec

(* The drained channel is exact: made by the first close, shut by the last *)
(* Finish of the closed gate, never shut twice.                            *)
THEOREM SignalIsExact == Spec => []SignalExact
BY GateInvariant, PTL DEF GateInv

(* Key material is overwritten only when nobody holds a lease on it.       *)
THEOREM NoWipe == Spec => []NoWipeUnderBorrow
<1>1. GateInv => NoWipeUnderBorrow
  BY BorrowersFinite DEF GateInv, SignalExact, DrainedBeforeWipe, NoWipeUnderBorrow
<1> QED  BY <1>1, GateInvariant, PTL

-----------------------------------------------------------------------------
(* A step of the gate is a step of the abstract gate, or leaves it alone.  *)
LEMMA LeaseStep == GateInv /\ [Next]_vars => [Lease!Next]_Lease!vars
<1> SUFFICES ASSUME GateInv, [Next]_vars PROVE [Lease!Next]_Lease!vars  OBVIOUS
<1> USE DEF GateInv
<1>1. ASSUME NEW u \in Users, Borrow(u), ~closed PROVE Lease!Borrow(u)
  <2>1. Borrowers' = Borrowers \cup {u} /\ u \notin Borrowers
    BY <1>1 DEF Borrow, Borrowers, TypeOK
  <2> QED  BY <1>1, <2>1 DEF Borrow, Lease!Borrow
<1>2. ASSUME NEW u \in Users, Borrow(u), closed PROVE UNCHANGED Lease!vars
  <2>1. Borrowers' = Borrowers
    BY <1>2 DEF Borrow, Borrowers, TypeOK
  <2> QED  BY <1>2, <2>1 DEF Borrow, Lease!vars
<1>3. ASSUME NEW u \in Users, Finish(u) PROVE Lease!Return(u)
  <2>1. Borrowers' = Borrowers \ {u} /\ u \in Borrowers
    BY <1>3, BorrowersAfterFinish DEF Finish, Borrowers
  <2>2. active = 1 <=> Borrowers = {u}
    <3>1. Cardinality(Borrowers \ {u}) = active - 1
      BY <2>1, BorrowersFinite, FS_RemoveElement DEF SignalExact
    <3>2. Cardinality(Borrowers \ {u}) = 0 <=> Borrowers \ {u} = {}
      BY BorrowersFinite, FS_RemoveElement, FS_EmptySet
    <3>3. active \in Nat
      BY DEF TypeOK
    <3>4. active = 1 <=> Borrowers \ {u} = {}
      BY <3>1, <3>2, <3>3
    <3> QED  BY <3>4, <2>1
  <2>3. drained # "shut"
    BY <2>1, BorrowersFinite DEF SignalExact
  <2> QED  BY <1>3, <2>1, <2>2, <2>3 DEF Finish, Lease!Return, SignalExact, TypeOK
<1>4. ASSUME NEW c \in Closers, Close(c) PROVE Lease!Close
  <2>1. Borrowers' = Borrowers
    BY <1>4, BorrowersUnchanged DEF Close
  <2>2. active = 0 <=> Borrowers = {}
    BY BorrowersFinite DEF SignalExact
  <2> QED  BY <1>4, <2>1, <2>2 DEF Close, Lease!Close
<1>5. ASSUME NEW c \in Closers, CloseRefused(c) \/ JoinClosed(c) \/ Drain(c)
      PROVE  UNCHANGED Lease!vars
  <2>1. Borrowers' = Borrowers
    BY <1>5, BorrowersUnchanged DEF CloseRefused, JoinClosed, Drain
  <2> QED  BY <1>5, <2>1 DEF CloseRefused, JoinClosed, Drain, Lease!vars
<1>6. ASSUME NEW c \in Closers, Wipe(c) PROVE Lease!Wipe
  <2>1. Borrowers' = Borrowers
    BY <1>6, BorrowersUnchanged DEF Wipe
  <2> QED  BY <1>6, <2>1 DEF Wipe, Lease!Wipe, DrainedBeforeWipe, SignalExact
<1>7. CASE UNCHANGED vars
  BY <1>7 DEF vars, Lease!vars, Borrowers
<1> QED
  BY <1>1, <1>2, <1>3, <1>4, <1>5, <1>6, <1>7
  DEF Next, UserStep, CloserStep, Lease!Next

(* Counter, flag and channel implement the abstract gate.                  *)
THEOREM GateImplementsLease == Spec => ImplementsLease
<1>1. Init => Lease!Init
  BY DEF Init, Lease!Init, Borrowers
<1> QED  BY <1>1, LeaseStep, GateInvariant, PTL DEF Spec, ImplementsLease, Lease!Spec
=============================================================================
