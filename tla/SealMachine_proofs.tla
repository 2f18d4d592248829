------------------------ MODULE SealMachine_proofs ------------------------
(***************************************************************************)
(* Proofs about SealMachine, for every set of attempts, sealers, users and *)
(* sources and every number of restarts.                                   *)
(*                                                                         *)
(* The machine is type correct, at most one attempt holds the unsealing    *)
(* and its node is the current one, and the machine implements the table.  *)
(* All three rest on one inductive invariant.  Its heart is Observers: the *)
(* pointer an attempt compares against identifies the node it computed its *)
(* new node from, so a compare-and-swap that succeeds acts on that node.   *)
(***************************************************************************)
EXTENDS SealMachine, TLAPS

-----------------------------------------------------------------------------
(* An unsealing node remembers where it came from.                         *)
NodeOK(n) == n.state = "unsealing" => n.source \in {"sealed", "sealed-faulted"}

(* What an attempt observed is the current node if the pointer still is.   *)
Observers == \A a \in Attempts :
  seenPtr[a] <= ptr /\ (seenPtr[a] = ptr => seen[a] = node)

(* An attempt that tries its CAS saw nothing that stands in its way.       *)
Askers == \A a \in Attempts : pc[a] = "acquiring" => ~Blocked(seen[a])

(* A zombie's node has been replaced: its CAS cannot succeed.              *)
Zombies == \A a \in Attempts : pc[a] = "zombie" => ~Current(a)

(* What a Seal request compares against, before and after its gate closes. *)
BeforeClose == {"recording", "closing"}
AfterClose  == {"draining", "reporting", "clearing", "failing"}
SealObservers == \A s \in Sealers :
  /\ spc[s] \in BeforeClose =>
       /\ sseenPtr[s] <= ptr
       /\ sseen[s].state = "unsealed" /\ sseen[s].cleanup = 0
       /\ sseenPtr[s] = ptr => node = sseen[s]
  /\ spc[s] \in AfterClose =>
       sseenPtr[s] <= ptr /\ (sseenPtr[s] = ptr => node = SealedNode(s))

Inv == /\ TypeOK /\ NodeOK(node)
       /\ Observers /\ Askers /\ Zombies /\ HolderOwnsNode /\ SealObservers

-----------------------------------------------------------------------------
(* What the cells make of a node: first by target, then cell by cell.      *)

LEMMA TowardsUnsealing ==
  ASSUME NEW n \in Nodes, NEW c, c.target = "unsealing"
  PROVE  LET m == Towards(n, c)
         IN  m \in Nodes /\ m.state = "unsealing" /\ m.source = n.state
<1>1. Towards(n, c) = [n EXCEPT !.gen = n.gen + 1, !.state = "unsealing",
                                !.source = n.state, !.services = None]
  BY DEF Towards
<1>2. n.gen + 1 \in Nat /\ n.state \in SealStates /\ "unsealing" \in SealStates
  BY DEF Nodes, SealStates
<1>3. QED BY <1>1, <1>2 DEF Nodes

LEMMA TowardsSource ==
  ASSUME NEW n \in Nodes, NEW c, c.target = "@source", n.source \in SealStates
  PROVE  LET m == Towards(n, c) IN m \in Nodes /\ m.state = n.source
  BY DEF Nodes, Towards, SealStates, Faults

LEMMA TowardsOther ==
  ASSUME NEW n \in Nodes, NEW c, c.target \in SealStates \ {"unsealing"}
  PROVE  LET m == Towards(n, c) IN m \in Nodes /\ m.state = c.target
<1>1. PICK g \in Nat, f \in Faults :
        Towards(n, c) = [n EXCEPT !.state = c.target, !.source = NoState,
                                  !.services = None, !.gen = g, !.fault = f]
  <2> DEFINE g == IF c.id = "10" THEN n.gen + 1 ELSE n.gen
             f == IF c.target = "sealed-faulted" THEN n.fault ELSE NoFault
  <2>1. g \in Nat /\ f \in Faults BY DEF Nodes, Faults
  <2>2. c.target # "@unchanged" /\ c.target # "@source" BY DEF SealStates
  <2>3. Towards(n, c) = [n EXCEPT !.state = c.target, !.source = NoState,
                                  !.services = None, !.gen = g, !.fault = f]
    BY <2>2 DEF Towards
  <2>4. QED BY <2>1, <2>3
<1>2. QED BY <1>1 DEF Nodes

(* The token does not touch the state.                                     *)
LEMMA TokenOnly ==
  ASSUME NEW n \in Nodes, NEW c, Towards(n, c) \in Nodes
  PROVE  LET k == ApplyCell(n, c)
             m == Towards(n, c)
         IN  /\ k \in Nodes /\ k.state = m.state /\ k.source = m.source
             /\ c.sets = TRUE => k.cleanup = m.gen
<1> DEFINE m == Towards(n, c)
           t == IF c.sets THEN m.gen ELSE IF c.clears THEN 0 ELSE m.cleanup
<1>1. t \in Nat BY DEF Nodes
<1>2. ApplyCell(n, c) = [m EXCEPT !.cleanup = t] BY DEF ApplyCell
<1>3. c.sets = TRUE => t = m.gen OBVIOUS
<1>4. QED BY <1>1, <1>2, <1>3 DEF Nodes

LEMMA BootNodeFacts ==
  BootNode \in Nodes /\ BootNode.state = "sealed" /\ NodeOK(BootNode)
  BY NoneAssumption DEF BootNode, Nodes, SealStates, Faults, NoState, NoFault, NodeOK

LEMMA AcquiredNode ==
  ASSUME NEW n \in Nodes, ~Blocked(n)
  PROVE  LET m == ApplyCell(n, CellAcquire)
         IN  m \in Nodes /\ m.state = "unsealing" /\ NodeOK(m)
<1>1. CellAcquire.target = "unsealing" BY DEF CellAcquire
<1>2. n.state \in {"sealed", "sealed-faulted"} BY DEF Blocked, Nodes, SealStates
<1>3. /\ Towards(n, CellAcquire) \in Nodes
      /\ Towards(n, CellAcquire).state = "unsealing"
      /\ Towards(n, CellAcquire).source = n.state
  BY <1>1, TowardsUnsealing
<1>4. QED BY <1>2, <1>3, TokenOnly DEF NodeOK

(* Every way in which an unsealing ends.                                   *)
Endings(n) ==
  {ApplyCell(n, CellPreAbort), ApplyCell(n, CellPostAbort), ApplyCell(n, CellTimeout),
   ApplyCell(n, CellUnpublished), ApplyCell(n, CellInitFailed), InitFailed(n),
   MaterialBad(n, FALSE), MaterialBad(n, TRUE)}
  \cup {Published(n, a) : a \in Attempts}

LEMMA EndedNode ==
  ASSUME NEW n \in Nodes, n.state = "unsealing", NodeOK(n), NEW m \in Endings(n)
  PROVE  m \in Nodes /\ m.state # "unsealing" /\ NodeOK(m)
<1>1. \A c \in {CellPreAbort, CellPostAbort, CellUnpublished, CellTimeout, CellMaterialBad} :
        ApplyCell(n, c) \in Nodes /\ ApplyCell(n, c).state # "unsealing"
  <2>1. TAKE c \in {CellPreAbort, CellPostAbort, CellUnpublished, CellTimeout, CellMaterialBad}
  <2>2. c.target = "@source"
    BY DEF CellPreAbort, CellPostAbort, CellUnpublished, CellTimeout, CellMaterialBad, Ending
  <2>3. n.source \in SealStates /\ n.source # "unsealing" BY DEF NodeOK, SealStates
  <2>4. QED BY <2>2, <2>3, TowardsSource, TokenOnly
<1>2. ApplyCell(n, CellInitFailed) \in Nodes
      /\ ApplyCell(n, CellInitFailed).state # "unsealing"
  <2>1. CellInitFailed.target = "sealed-faulted" BY DEF CellInitFailed, Ending
  <2>2. QED BY <2>1, TowardsOther, TokenOnly DEF SealStates
<1>3. ApplyCell(n, CellPublished) \in Nodes
      /\ ApplyCell(n, CellPublished).state # "unsealing"
  <2>1. CellPublished.target = "unsealed" BY DEF CellPublished, Ending
  <2>2. QED BY <2>1, TowardsOther, TokenOnly DEF SealStates
<1>4. InitFailed(n) \in Nodes /\ InitFailed(n).state # "unsealing"
  BY <1>2 DEF InitFailed, Nodes, Faults
<1>5. \A armed \in BOOLEAN :
        MaterialBad(n, armed) \in Nodes /\ MaterialBad(n, armed).state # "unsealing"
  BY <1>1 DEF MaterialBad, Nodes
<1>6. \A a \in Attempts : Published(n, a) \in Nodes /\ Published(n, a).state # "unsealing"
  BY <1>3 DEF Published, Nodes
<1>7. QED BY <1>1, <1>2, <1>4, <1>5, <1>6 DEF Endings, NodeOK

LEMMA SealedNodeFacts ==
  ASSUME NEW n \in Nodes
  PROVE  LET m == ApplyCell(n, CellSeal)
         IN  /\ m \in Nodes /\ m.state = "sealed" /\ m.cleanup # 0 /\ NodeOK(m)
             /\ SealFailed(m) \in Nodes /\ SealFailed(m).state = "sealed-faulted"
             /\ NodeOK(SealFailed(m))
<1> DEFINE m == ApplyCell(n, CellSeal)
           k == ApplyCell(m, CellSealFailed)
<1>1. CellSeal.target = "sealed" /\ CellSeal.sets = TRUE /\ CellSeal.id = "10"
  BY DEF CellSeal
<1>2. m \in Nodes /\ m.state = "sealed" BY <1>1, TowardsOther, TokenOnly DEF SealStates
<1>3. m.cleanup # 0
  <2>1. Towards(n, CellSeal) = [n EXCEPT !.state = "sealed", !.source = NoState,
                                   !.services = None, !.gen = n.gen + 1, !.fault = NoFault]
    BY <1>1 DEF Towards
  <2>2. Towards(n, CellSeal).gen = n.gen + 1 /\ n.gen \in Nat BY <2>1 DEF Nodes
  <2>3. Towards(n, CellSeal) \in Nodes BY <1>1, TowardsOther DEF SealStates
  <2>4. m.cleanup = n.gen + 1 BY <2>2, <2>3, <1>1, TokenOnly
  <2>5. QED BY <2>2, <2>4
<1>4. CellSealFailed.target = "sealed-faulted" BY DEF CellSealFailed
<1>5. k \in Nodes /\ k.state = "sealed-faulted"
  BY <1>2, <1>4, TowardsOther, TokenOnly DEF SealStates
<1>6. SealFailed(m) \in Nodes /\ SealFailed(m).state = "sealed-faulted"
  BY <1>5 DEF SealFailed, Nodes, Faults
<1>7. QED BY <1>2, <1>3, <1>6 DEF NodeOK

LEMMA CleanedNode ==
  ASSUME NEW n \in Nodes, n.state \in {"sealed", "sealed-faulted"}
  PROVE  LET m == ApplyCell(n, CellCleanupDone)
         IN  m \in Nodes /\ m.state = n.state /\ NodeOK(m)
<1>1. CellCleanupDone.target = "@unchanged" BY DEF CellCleanupDone
<1>2. Towards(n, CellCleanupDone) = n BY <1>1 DEF Towards
<1>3. QED BY <1>2, TokenOnly DEF NodeOK

-----------------------------------------------------------------------------
(* Type correctness of one step, given the invariant.                      *)

(* The CAS of a holder, and that of a zombie.                              *)
LEMMA CasTyped ==
  ASSUME Inv, NEW a \in Attempts, NEW n, Cas(a, n),
         Current(a) => Holder(a) /\ n \in Endings(seen[a])
  PROVE  node' \in Nodes /\ ptr' \in Nat
<1>1. CASE Current(a)
  <2>1. seen[a] = node /\ node \in Nodes /\ ptr \in Nat /\ node.state = "unsealing"
    BY <1>1 DEF Inv, TypeOK, HolderOwnsNode
  <2>2. n \in Nodes BY <1>1, <2>1, EndedNode DEF Inv
  <2>3. QED BY <1>1, <2>1, <2>2 DEF Cas, Install
<1>2. CASE ~Current(a) BY <1>2 DEF Cas, nodeVars, Inv, TypeOK
<1>3. QED BY <1>1, <1>2

LEMMA CleanupTyped ==
  ASSUME Inv, NEW g, CompleteCleanup(g)
  PROVE  /\ node' \in Nodes /\ ptr' \in Nat /\ node'.state = node.state
         /\ NodeOK(node')
         /\ \/ node' = node /\ ptr' = ptr
            \/ ptr' = ptr + 1 /\ node.state # "unsealing"
<1>1. node \in Nodes /\ ptr \in Nat /\ NodeOK(node) BY DEF Inv, TypeOK
<1>2. CASE UNCHANGED nodeVars BY <1>1, <1>2 DEF nodeVars, NodeOK
<1>3. CASE node.state \in {"sealed", "sealed-faulted"}
             /\ Install(ApplyCell(node, CellCleanupDone))
  BY <1>1, <1>3, CleanedNode DEF Install
<1>4. QED BY <1>2, <1>3 DEF CompleteCleanup

-----------------------------------------------------------------------------
(* The shapes of a step, seen from the node.                               *)

world == <<node, ptr, seen, seenPtr, spc, sseen, sseenPtr>>

(* One attempt moves on, nothing is installed.                             *)
Quiet(a) ==
  /\ \E q : /\ pc' = [pc EXCEPT ![a] = q]
            /\ q \notin {"acquiring", "zombie"}
            /\ pc[a] \in HolderPcs <=> q \in HolderPcs
  /\ UNCHANGED world

LEMMA QuietGo ==
  ASSUME NEW a, NEW from, NEW to, Go(a, from, to), to \notin {"acquiring", "zombie"},
         from \in HolderPcs <=> to \in HolderPcs, UNCHANGED world
  PROVE  Quiet(a)
  BY DEF Quiet, Go

(* The holder of the unsealing ends it.                                    *)
Ends(a) ==
  /\ Holder(a)
  /\ \E q : pc' = [pc EXCEPT ![a] = q] /\ q \notin HolderPcs \cup {"acquiring"}
  /\ \E n \in Endings(seen[a]) : Cas(a, n)
  /\ UNCHANGED <<seen, seenPtr, spc, sseen, sseenPtr>>

SInv == /\ NodeOK(node)
        /\ Observers /\ Askers /\ Zombies /\ HolderOwnsNode /\ SealObservers

LEMMA QuietStep ==
  ASSUME Inv, NEW a \in Attempts, Quiet(a)
  PROVE  SInv'
<1> USE DEF Inv, Quiet, world
<1>1. PICK q : /\ pc' = [pc EXCEPT ![a] = q]
               /\ q \notin {"acquiring", "zombie"}
               /\ pc[a] \in HolderPcs <=> q \in HolderPcs
  OBVIOUS
<1>2. \A b \in Attempts : /\ pc'[b] = IF b = a THEN q ELSE pc[b]
                          /\ Holder(b)' <=> Holder(b)
  BY <1>1 DEF TypeOK, Holder
<1>3. NodeOK(node)' /\ Observers' BY DEF NodeOK, Observers
<1>4. Askers' /\ Zombies' BY <1>1, <1>2 DEF Askers, Zombies, Current
<1>5. HolderOwnsNode' BY <1>2 DEF HolderOwnsNode, Current
<1>6. SealObservers' BY DEF SealObservers, SealedNode
<1>7. QED BY <1>3, <1>4, <1>5, <1>6 DEF SInv

LEMMA EndStep ==
  ASSUME Inv, NEW a \in Attempts, Ends(a)
  PROVE  SInv'
<1> USE DEF Inv
<1>1. PICK q : pc' = [pc EXCEPT ![a] = q] /\ q \notin HolderPcs \cup {"acquiring"}
  BY DEF Ends
<1>2. PICK n \in Endings(seen[a]) : Cas(a, n) BY DEF Ends
<1>3. Current(a) /\ seen[a] = node /\ node.state = "unsealing" /\ node \in Nodes
  BY DEF Ends, HolderOwnsNode, TypeOK
<1>4. node' = n /\ ptr' = ptr + 1 /\ ptr \in Nat
  BY <1>2, <1>3 DEF Cas, Install, TypeOK
<1>5. n \in Nodes /\ n.state # "unsealing" /\ NodeOK(n) BY <1>2, <1>3, EndedNode
<1>6. \A b \in Attempts : /\ pc'[b] = IF b = a THEN q ELSE pc[b]
                          /\ ~Holder(b)'
  BY <1>1 DEF TypeOK, Holder, Ends, HolderOwnsNode
<1>7. \A b \in Attempts : seenPtr[b] \in Nat /\ seenPtr[b] <= ptr
  BY DEF TypeOK, Observers
<1>8. UNCHANGED <<seen, seenPtr, spc, sseen, sseenPtr>> BY DEF Ends
<1>9. NodeOK(node)' /\ Observers' BY <1>4, <1>5, <1>7, <1>8 DEF NodeOK, Observers
<1>10. Askers' /\ Zombies'
  BY <1>1, <1>4, <1>6, <1>7, <1>8 DEF Askers, Zombies, Current
<1>11. HolderOwnsNode' BY <1>4, <1>5, <1>6 DEF HolderOwnsNode
<1>12. SealObservers'
  <2>1. \A s \in Sealers : sseenPtr[s] \in Nat BY DEF TypeOK
  <2>2. QED BY <1>4, <1>8, <2>1 DEF SealObservers
<1>13. QED BY <1>9, <1>10, <1>11, <1>12 DEF SInv

(* Nothing that the invariant speaks of changes.                           *)
LEMMA IdleStep ==
  ASSUME Inv, UNCHANGED <<world, pc>>
  PROVE  SInv'
  BY DEF Inv, SInv, world, NodeOK, Observers, Askers, Zombies, Current,
         HolderOwnsNode, Holder, SealObservers, SealedNode

-----------------------------------------------------------------------------
(* The two forms most actions have.                                        *)

LEMMA WriteStepKeeps ==
  ASSUME Inv, NEW a \in Attempts, NEW from, NEW record \in Records,
         NEW acked \in Pcs \ {"acquiring", "zombie"},
         NEW lost \in Pcs \ {"acquiring", "zombie"},
         from \in HolderPcs <=> acked \in HolderPcs,
         from \in HolderPcs <=> lost \in HolderPcs,
         WriteStep(a, from, record, acked, lost)
  PROVE  Inv'
<1>1. PICK ok \in BOOLEAN : /\ Go(a, from, IF ok THEN acked ELSE lost)
                            /\ Write(a, record, ok)
  BY DEF WriteStep
<1>2. TypeOK'
  <2>1. pc' \in [Attempts -> Pcs] BY <1>1 DEF Go, Inv, TypeOK
  <2>2. journal' \in [Attempts \cup Sealers -> SUBSET Records]
    BY <1>1 DEF Write, Inv, TypeOK
  <2>3. QED BY <2>1, <2>2 DEF WriteStep, Inv, TypeOK, nodeVars, graphVars, sealerVars,
                              gateVars, limiterVars
<1>3. Quiet(a) BY <1>1 DEF WriteStep, Go, Quiet, world, nodeVars, sealerVars
<1>4. QED BY <1>2, <1>3, QuietStep DEF Inv, SInv

LEMMA CasStepKeeps ==
  ASSUME Inv, NEW a \in Attempts, NEW n, NEW from \in HolderPcs,
         NEW to \in Pcs \ (HolderPcs \cup {"acquiring"}),
         n \in Endings(seen[a]), CasStep(a, from, n, to)
  PROVE  Inv'
<1>1. Ends(a) BY DEF Ends, CasStep, Go, Holder, sealerVars
<1>2. TypeOK'
  <2>1. node' \in Nodes /\ ptr' \in Nat BY <1>1, CasTyped DEF CasStep, Ends
  <2>2. QED BY <2>1 DEF CasStep, Go, Inv, TypeOK, graphVars, sealerVars, gateVars,
                        limiterVars
<1>3. QED BY <1>1, <1>2, EndStep DEF Inv, SInv

-----------------------------------------------------------------------------
(* An attempt, action by action.                                           *)

LEMMA LoadKeeps == ASSUME Inv, NEW a \in Attempts, Load(a) PROVE Inv'
<1> USE DEF Inv, TypeOK, Load, Go, nodeVars, sealerVars, graphVars, gateVars, limiterVars
<1>1. TypeOK' BY DEF Pcs, EndedPcs
<1>2. \A b \in Attempts : /\ Holder(b)' <=> Holder(b)
                          /\ pc'[b] \in {"acquiring", "zombie"} => b # a /\ pc[b] = pc'[b]
  BY DEF Holder, HolderPcs
<1>3. NodeOK(node)' BY DEF NodeOK
<1>4. Observers' BY DEF Observers
<1>5. Askers' /\ Zombies' BY <1>2 DEF Askers, Zombies, Current
<1>6. HolderOwnsNode'
  <2>1. ~Holder(a) BY DEF Holder, HolderPcs
  <2>2. QED BY <1>2, <2>1 DEF HolderOwnsNode, Current
<1>7. SealObservers' BY DEF SealObservers, SealedNode
<1>8. QED BY <1>1, <1>3, <1>4, <1>5, <1>6, <1>7

LEMMA AskLimiterKeeps == ASSUME Inv, NEW a \in Attempts, AskLimiter(a) PROVE Inv'
<1> USE DEF Inv, TypeOK, AskLimiter, Go, nodeVars, sealerVars, graphVars, gateVars, limiterVars
<1>1. TypeOK' BY DEF Pcs, EndedPcs
<1>2. \A b \in Attempts : /\ Holder(b)' <=> Holder(b)
                          /\ b # a => pc'[b] = pc[b]
                          /\ pc'[b] = "zombie" => pc[b] = "zombie"
  BY DEF Holder, HolderPcs
<1>3. NodeOK(node)' /\ Observers' /\ Zombies' BY <1>2 DEF NodeOK, Observers, Zombies, Current
<1>4. Askers' BY <1>2 DEF Askers
<1>5. HolderOwnsNode' BY <1>2 DEF HolderOwnsNode, Current
<1>6. SealObservers' BY DEF SealObservers, SealedNode
<1>7. QED BY <1>1, <1>3, <1>4, <1>5, <1>6

LEMMA AcquireKeeps == ASSUME Inv, NEW a \in Attempts, Acquire(a) PROVE Inv'
<1> USE DEF Inv, TypeOK, Acquire, Go, sealerVars, graphVars, gateVars, limiterVars
<1> DEFINE n == ApplyCell(seen[a], CellAcquire)
<1>1. CASE Current(a)
  <2>1. seen[a] = node /\ node \in Nodes /\ ~Blocked(node)
    BY <1>1 DEF Observers, Askers, Current
  <2>2. n \in Nodes /\ n.state = "unsealing" /\ NodeOK(n) BY <2>1, AcquiredNode
  <2>3. /\ node' = n /\ ptr' = ptr + 1
        /\ pc' = [pc EXCEPT ![a] = "prepare"]
        /\ seen' = [seen EXCEPT ![a] = n]
        /\ seenPtr' = [seenPtr EXCEPT ![a] = ptr + 1]
    BY <1>1 DEF Install
  <2>4. TypeOK' BY <2>2, <2>3 DEF Pcs, HolderPcs
  <2>5. \A b \in Attempts : seenPtr[b] \in Nat /\ seenPtr[b] <= ptr BY DEF Observers
  <2>6. \A b \in Attempts : ~Holder(b) BY <2>1 DEF Blocked, HolderOwnsNode
  <2>7. \A b \in Attempts : Holder(b)' <=> b = a
    BY <2>3, <2>6 DEF Holder, HolderPcs
  <2>8. NodeOK(node)' /\ Observers' BY <2>2, <2>3, <2>5 DEF NodeOK, Observers
  <2>9. Askers' /\ Zombies' BY <2>3, <2>5 DEF Askers, Zombies, Current
  <2>10. HolderOwnsNode' BY <2>2, <2>3, <2>7 DEF HolderOwnsNode, Current
  <2>11. SealObservers' BY <2>3 DEF SealObservers
  <2>12. QED BY <2>4, <2>8, <2>9, <2>10, <2>11
<1>2. CASE ~Current(a)
  <2>1. TypeOK' BY <1>2 DEF nodeVars, Pcs, EndedPcs
  <2>2. Quiet(a) BY <1>2 DEF Quiet, world, nodeVars, HolderPcs
  <2>3. QED BY <2>1, <2>2, QuietStep DEF SInv
<1>3. QED BY <1>1, <1>2

LEMMA WritesKeep ==
  ASSUME Inv, NEW a \in Attempts,
         \/ WriteReceived(a) \/ WriteAborted(a) \/ WriteMaterialFailure(a)
         \/ WriteTimeout(a) \/ WriteInitFailed(a) \/ WriteSuccess(a) \/ WritePublished(a)
  PROVE  Inv'
<1> USE DEF Pcs, HolderPcs, SettledPcs, EndedPcs, Records, Outcomes
<1>1. CASE WriteReceived(a) BY <1>1, WriteStepKeeps DEF WriteReceived
<1>2. CASE WriteAborted(a) BY <1>2, WriteStepKeeps DEF WriteAborted
<1>3. CASE WriteMaterialFailure(a) BY <1>3, WriteStepKeeps DEF WriteMaterialFailure
<1>4. CASE WriteTimeout(a) BY <1>4, WriteStepKeeps DEF WriteTimeout
<1>5. CASE WriteInitFailed(a) BY <1>5, WriteStepKeeps DEF WriteInitFailed
<1>6. CASE WriteSuccess(a) BY <1>6, WriteStepKeeps DEF WriteSuccess
<1>7. CASE WritePublished(a) BY <1>7, WriteStepKeeps DEF WritePublished
<1>8. QED BY <1>1, <1>2, <1>3, <1>4, <1>5, <1>6, <1>7

LEMMA EndingsKeep ==
  ASSUME Inv, NEW a \in Attempts,
         \/ AbortPrePrepare(a) \/ AbortPostPrepare(a) \/ MaterialFailure(a)
         \/ TimedOut(a) \/ InitFailure(a) \/ Publish(a) \/ Unpublished(a)
  PROVE  Inv'
<1> USE DEF Pcs, HolderPcs, SettledPcs, EndedPcs, Endings
<1>1. CASE AbortPrePrepare(a) BY <1>1, CasStepKeeps DEF AbortPrePrepare
<1>2. CASE AbortPostPrepare(a) BY <1>2, CasStepKeeps DEF AbortPostPrepare
<1>3. CASE MaterialFailure(a) BY <1>3, CasStepKeeps DEF MaterialFailure
<1>4. CASE TimedOut(a) BY <1>4, CasStepKeeps DEF TimedOut
<1>5. CASE InitFailure(a) BY <1>5, CasStepKeeps DEF InitFailure
<1>6. CASE Publish(a)
  <2>1. Holder(a) BY <1>6 DEF Publish, CasStep, Go, Holder
  <2>2. Current(a) BY <2>1 DEF Inv, HolderOwnsNode
  <2>3. CasStep(a, "publishing", Published(seen[a], a), "confirming")
    BY <1>6, <2>2 DEF Publish
  <2>4. QED BY <2>3, CasStepKeeps
<1>7. CASE Unpublished(a) BY <1>7, CasStepKeeps DEF Unpublished
<1>8. QED BY <1>1, <1>2, <1>3, <1>4, <1>5, <1>6, <1>7

(* Steps that only look, count, wait or release.                           *)
LEMMA QuietActionsKeep ==
  ASSUME Inv, NEW a \in Attempts,
         \/ BeginVerify(a) \/ Verify(a) \/ AwaitStage2(a)
         \/ CloseGraph(a) \/ ReleaseGraph(a) \/ DrainTimesOut(a)
  PROVE  Inv'
<1> USE DEF Pcs, HolderPcs, SettledPcs, EndedPcs, Go, nodeVars, sealerVars, graphVars,
            gateVars, limiterVars
<1>1. CASE BeginVerify(a)
  BY <1>1, QuietStep DEF BeginVerify, Inv, SInv, TypeOK, Quiet, world
<1>2. CASE Verify(a)
  BY <1>2, QuietStep DEF Verify, Inv, SInv, TypeOK, Quiet, world
<1>3. CASE AwaitStage2(a)
  BY <1>3, QuietStep DEF AwaitStage2, Inv, SInv, TypeOK, Quiet, world
<1>4. CASE CloseGraph(a)
  <2>1. TypeOK' BY <1>4 DEF CloseGraph, Inv, TypeOK
  <2>2. Quiet(a) BY <1>4 DEF CloseGraph, Quiet, world
  <2>3. QED BY <2>1, <2>2, QuietStep DEF Inv, SInv
<1>5. CASE ReleaseGraph(a)
  BY <1>5, QuietStep DEF ReleaseGraph, Inv, SInv, TypeOK, Quiet, world
<1>6. CASE DrainTimesOut(a)
  BY <1>6, QuietStep DEF DrainTimesOut, Inv, SInv, TypeOK, Quiet, world
<1>7. QED BY <1>1, <1>2, <1>3, <1>4, <1>5, <1>6

(* Steps that only tell the limiter.                                       *)
LEMMA LimiterKeeps ==
  ASSUME Inv, NEW a \in Attempts, RecordMaterialFailure(a) \/ RecordSuccess(a)
  PROVE  Inv'
<1>1. UNCHANGED world
  BY DEF RecordMaterialFailure, RecordSuccess, world, nodeVars, sealerVars
<1>2. PICK from, to : /\ Go(a, from, to)
                      /\ <<from, to>> \in {<<"counting", "counted">>, <<"counting", "armed">>,
                                          <<"resetting", "served">>}
  BY DEF RecordMaterialFailure, RecordSuccess
<1>3. to \in Pcs \ {"acquiring", "zombie"} /\ (from \in HolderPcs <=> to \in HolderPcs)
  BY <1>2 DEF Pcs, HolderPcs, SettledPcs, EndedPcs
<1>4. Quiet(a) BY <1>1, <1>2, <1>3, QuietGo
<1>5. TypeOK'
  <2>1. pc' \in [Attempts -> Pcs] BY <1>2, <1>3 DEF Go, Inv, TypeOK
  <2>2. failures' \in Nat /\ backoff' \in SUBSET Sources
    BY ConstantsAssumption DEF RecordMaterialFailure, RecordSuccess, Inv, TypeOK
  <2>3. QED BY <2>1, <2>2 DEF RecordMaterialFailure, RecordSuccess, Inv, TypeOK, nodeVars,
                              sealerVars, graphVars, gateVars
<1>6. QED BY <1>4, <1>5, QuietStep DEF Inv, SInv

LEMMA ReapKeeps == ASSUME Inv, NEW a \in Attempts, Reap(a) PROVE Inv'
<1>1. PICK n : CasStep(a, "zombie", n, "closing") BY DEF Reap
<1>2. ~Current(a) BY <1>1 DEF CasStep, Go, Inv, Zombies
<1>3. UNCHANGED nodeVars BY <1>1, <1>2 DEF CasStep, Cas
<1>4. TypeOK'
  BY <1>1, <1>3 DEF CasStep, Go, Inv, TypeOK, Pcs, SettledPcs, nodeVars, sealerVars,
                    graphVars, gateVars, limiterVars
<1>5. Quiet(a)
  <2>1. Go(a, "zombie", "closing") BY <1>1 DEF CasStep
  <2>2. UNCHANGED world BY <1>1, <1>3 DEF CasStep, world, nodeVars, sealerVars
  <2>3. QED BY <2>1, <2>2, QuietGo DEF HolderPcs
<1>6. QED BY <1>4, <1>5, QuietStep DEF Inv, SInv

(* The token goes: a node nobody holds is replaced.                        *)
LEMMA CleanupKeeps ==
  ASSUME Inv, NEW g, CompleteCleanup(g),
         UNCHANGED <<seen, seenPtr, sseen, sseenPtr>>,
         \A b \in Attempts : /\ pc'[b] \in {"acquiring", "zombie"} => pc'[b] = pc[b]
                             /\ Holder(b)' <=> Holder(b),
         \A s \in Sealers : spc'[s] \in BeforeClose \cup AfterClose => spc'[s] = spc[s]
  PROVE  SInv'
<1> USE DEF Inv
<1>1. CASE UNCHANGED nodeVars
  BY <1>1 DEF SInv, NodeOK, Observers, Askers, Zombies, Current, HolderOwnsNode,
              SealObservers, SealedNode, nodeVars
<1>2. CASE ptr' = ptr + 1 /\ node.state # "unsealing"
  <2>1. NodeOK(node') /\ node'.state = node.state /\ ptr \in Nat
    BY CleanupTyped DEF TypeOK
  <2>2. \A b \in Attempts : ~Holder(b)' BY <1>2 DEF HolderOwnsNode
  <2>3. \A b \in Attempts : seenPtr[b] \in Nat /\ seenPtr[b] <= ptr
    BY DEF TypeOK, Observers
  <2>4. \A s \in Sealers : sseenPtr[s] \in Nat BY DEF TypeOK
  <2>5. NodeOK(node)' /\ Observers' BY <1>2, <2>1, <2>3 DEF NodeOK, Observers
  <2>6. Askers' /\ Zombies' BY <1>2, <2>1, <2>3 DEF Askers, Zombies, Current
  <2>7. HolderOwnsNode' BY <1>2, <2>1, <2>2 DEF HolderOwnsNode
  <2>8. SealObservers' BY <1>2, <2>1, <2>4 DEF SealObservers
  <2>9. QED BY <2>5, <2>6, <2>7, <2>8 DEF SInv
<1>3. QED BY <1>1, <1>2, CleanupTyped DEF nodeVars

LEMMA ClearCleanupKeeps == ASSUME Inv, NEW a \in Attempts, ClearCleanup(a) PROVE Inv'
<1> USE DEF ClearCleanup, Go, sealerVars
<1>1. TypeOK'
  BY CleanupTyped DEF Inv, TypeOK, Pcs, EndedPcs, graphVars, gateVars, limiterVars
<1>2. \A b \in Attempts : /\ pc'[b] \in {"acquiring", "zombie"} => pc'[b] = pc[b]
                          /\ Holder(b)' <=> Holder(b)
  BY DEF Inv, TypeOK, Holder, HolderPcs
<1>3. QED BY <1>1, <1>2, CleanupKeeps DEF Inv, SInv

LEMMA AttemptKeeps ==
  ASSUME Inv, NEW a \in Attempts, AttemptStep(a)
  PROVE  Inv'
  BY AskLimiterKeeps, AcquireKeeps, WritesKeep, EndingsKeep, QuietActionsKeep, LimiterKeeps,
     ReapKeeps, ClearCleanupKeeps DEF AttemptStep

-----------------------------------------------------------------------------
(* A Seal request, action by action.                                       *)

(* Steps of a Seal request that install nothing and keep what it observed. *)
SealQuiet(s) ==
  /\ \E q \in SealerPcs :
        /\ spc' = [spc EXCEPT ![s] = q]
        /\ q \in BeforeClose => spc[s] \in BeforeClose
        /\ q \in AfterClose => spc[s] \in AfterClose
  /\ UNCHANGED <<node, ptr, pc, seen, seenPtr, sseen, sseenPtr>>

LEMMA SealQuietStep ==
  ASSUME Inv, NEW s \in Sealers, SealQuiet(s)
  PROVE  SInv' /\ spc' \in [Sealers -> SealerPcs]
<1> USE DEF Inv, SealQuiet
<1>1. PICK q \in SealerPcs :
        /\ spc' = [spc EXCEPT ![s] = q]
        /\ q \in BeforeClose => spc[s] \in BeforeClose
        /\ q \in AfterClose => spc[s] \in AfterClose
  OBVIOUS
<1>2. spc' \in [Sealers -> SealerPcs] BY <1>1 DEF TypeOK
<1>3. \A t \in Sealers : spc'[t] = IF t = s THEN q ELSE spc[t] BY <1>1 DEF TypeOK
<1>4. SealObservers'
  <2> SUFFICES ASSUME NEW t \in Sealers
               PROVE  /\ spc'[t] \in BeforeClose => spc[t] \in BeforeClose
                      /\ spc'[t] \in AfterClose => spc[t] \in AfterClose
    BY DEF SealObservers, SealedNode
  <2> QED BY <1>1, <1>3
<1>5. NodeOK(node)' /\ Observers' /\ Askers' /\ Zombies' /\ HolderOwnsNode'
  BY DEF NodeOK, Observers, Askers, Zombies, Current, HolderOwnsNode, Holder
<1>6. QED BY <1>2, <1>4, <1>5 DEF SInv

LEMMA SealQuietActionsKeep ==
  ASSUME Inv, NEW s \in Sealers,
         SealBegin(s) \/ SealRecord(s) \/ SealRelease(s) \/ SealReport(s)
  PROVE  Inv'
<1> USE DEF SealerPcs, BeforeClose, AfterClose, SGo, nodeVars, attemptVars
<1>1. CASE SealBegin(s)
  <2>1. SealQuiet(s) BY <1>1 DEF SealBegin, SealQuiet
  <2>2. TypeOK'
    BY <1>1, <2>1, SealQuietStep DEF SealBegin, Inv, TypeOK, graphVars, gateVars, limiterVars
  <2>3. QED BY <2>1, <2>2, SealQuietStep DEF Inv, SInv
<1>2. CASE SealRecord(s)
  <2>1. SealQuiet(s) BY <1>2 DEF SealRecord, SealQuiet
  <2>2. sealBusy' \in BOOLEAN /\ journal' \in [Attempts \cup Sealers -> SUBSET Records]
    BY <1>2 DEF SealRecord, Write, Inv, TypeOK, Records
  <2>3. TypeOK'
    BY <1>2, <2>1, <2>2, SealQuietStep DEF SealRecord, Inv, TypeOK, graphVars, gateVars,
                                           limiterVars
  <2>4. QED BY <2>1, <2>3, SealQuietStep DEF Inv, SInv
<1>3. CASE SealRelease(s)
  <2>1. SealQuiet(s) BY <1>3 DEF SealRelease, SealQuiet
  <2>2. TypeOK'
    BY <1>3, <2>1, SealQuietStep DEF SealRelease, Inv, TypeOK, gateVars, limiterVars
  <2>3. QED BY <2>1, <2>2, SealQuietStep DEF Inv, SInv
<1>4. CASE SealReport(s)
  <2>1. SealQuiet(s) BY <1>4 DEF SealReport, SealQuiet
  <2>2. journal' \in [Attempts \cup Sealers -> SUBSET Records]
    BY <1>4 DEF SealReport, Write, Inv, TypeOK, Records
  <2>3. TypeOK'
    BY <1>4, <2>1, <2>2, SealQuietStep DEF SealReport, Inv, TypeOK, graphVars, gateVars,
                                           limiterVars
  <2>4. QED BY <2>1, <2>3, SealQuietStep DEF Inv, SInv
<1>5. QED BY <1>1, <1>2, <1>3, <1>4

LEMMA SealCheckKeeps == ASSUME Inv, NEW s \in Sealers, SealCheck(s) PROVE Inv'
<1> USE DEF Inv, SealCheck, SGo, nodeVars, attemptVars
<1>1. TypeOK' BY DEF TypeOK, SealerPcs, graphVars, gateVars, limiterVars
<1>2. \A t \in Sealers \ {s} : /\ spc'[t] = spc[t] /\ sseen'[t] = sseen[t]
                               /\ sseenPtr'[t] = sseenPtr[t]
  BY DEF TypeOK
<1>3. /\ sseen'[s] = node /\ sseenPtr'[s] = ptr /\ ptr \in Nat
      /\ \/ spc'[s] = "recording" /\ node.state = "unsealed" /\ node.cleanup = 0
         \/ spc'[s] = "refused"
  BY DEF TypeOK
<1>4. SealObservers'
  <2>1. SUFFICES ASSUME NEW t \in Sealers
        PROVE /\ spc'[t] \in BeforeClose =>
                   /\ sseenPtr'[t] <= ptr'
                   /\ sseen'[t].state = "unsealed" /\ sseen'[t].cleanup = 0
                   /\ sseenPtr'[t] = ptr' => node' = sseen'[t]
              /\ spc'[t] \in AfterClose =>
                   /\ sseenPtr'[t] <= ptr'
                   /\ sseenPtr'[t] = ptr' => node' = SealedNode(t)'
    BY DEF SealObservers
  <2>2. CASE t = s BY <1>3, <2>2 DEF BeforeClose, AfterClose
  <2>3. CASE t # s BY <1>2, <2>3 DEF SealObservers, SealedNode
  <2>4. QED BY <2>2, <2>3
<1>5. NodeOK(node)' /\ Observers' /\ Askers' /\ Zombies' /\ HolderOwnsNode'
  BY DEF NodeOK, Observers, Askers, Zombies, Current, HolderOwnsNode, Holder
<1>6. QED BY <1>1, <1>4, <1>5

(* A node nobody holds is replaced by another that is not unsealing.       *)
LEMMA InstallStep ==
  ASSUME Inv, ptr' = ptr + 1, node.state # "unsealing",
         node' \in Nodes, node'.state # "unsealing",
         UNCHANGED <<pc, seen, seenPtr>>
  PROVE  NodeOK(node)' /\ Observers' /\ Askers' /\ Zombies' /\ HolderOwnsNode'
<1> USE DEF Inv
<1>1. \A b \in Attempts : ~Holder(b)' BY DEF HolderOwnsNode, Holder
<1>2. \A b \in Attempts : seenPtr[b] \in Nat /\ seenPtr[b] <= ptr BY DEF TypeOK, Observers
<1>3. ptr \in Nat BY DEF TypeOK
<1>4. NodeOK(node)' /\ Observers' BY <1>2, <1>3 DEF NodeOK, Observers
<1>5. Askers' /\ Zombies' BY <1>2, <1>3 DEF Askers, Zombies, Current
<1>6. HolderOwnsNode' BY <1>1 DEF HolderOwnsNode
<1>7. QED BY <1>4, <1>5, <1>6

LEMMA SealCloseKeeps == ASSUME Inv, NEW s \in Sealers, SealClose(s) PROVE Inv'
<1> USE DEF Inv, SGo
<1>1. CASE spc'[s] = "draining"
  <2> DEFINE m == SealedNode(s)
  <2>1. /\ spc[s] = "closing" /\ spc' = [spc EXCEPT ![s] = "draining"]
        /\ sseenPtr[s] = ptr /\ node' = m /\ ptr' = ptr + 1
        /\ sseenPtr' = [sseenPtr EXCEPT ![s] = ptr + 1]
        /\ closed' = [closed EXCEPT ![sseen[s].services] = TRUE]
    BY <1>1 DEF SealClose, SealedNode, Install, TypeOK
  <2>2. sseen[s] \in Nodes BY DEF TypeOK
  <2>3. node = sseen[s] /\ node.state = "unsealed" BY <2>1 DEF SealObservers, BeforeClose
  <2>4. m \in Nodes /\ m.state = "sealed" BY <2>2, SealedNodeFacts DEF SealedNode
  <2>5. TypeOK'
    <3>1. node' \in Nodes /\ ptr' \in Nat BY <2>1, <2>4 DEF TypeOK
    <3>2. spc' \in [Sealers -> SealerPcs] /\ sseenPtr' \in [Sealers -> Nat]
      BY <2>1 DEF TypeOK, SealerPcs
    <3>3. closed' \in [Attempts -> BOOLEAN] BY <2>1 DEF TypeOK
    <3>4. UNCHANGED sealBusy BY <1>1 DEF SealClose, TypeOK
    <3>5. UNCHANGED <<pc, seen, seenPtr, stage2, graph, sseen, sfailed, lease, journal,
                      backoff, failures, expired, boots>>
      BY DEF SealClose, attemptVars, graphVars, limiterVars
    <3>6. QED BY <3>1, <3>2, <3>3, <3>4, <3>5 DEF TypeOK
  <2>6. NodeOK(node)' /\ Observers' /\ Askers' /\ Zombies' /\ HolderOwnsNode'
    BY <2>1, <2>3, <2>4, InstallStep DEF SealClose, attemptVars
  <2>7. SealObservers'
    <3>1. \A t \in Sealers : sseenPtr[t] \in Nat BY DEF TypeOK
    <3>2. \A t \in Sealers \ {s} : spc'[t] = spc[t] /\ sseenPtr'[t] = sseenPtr[t]
      BY <2>1 DEF TypeOK
    <3>3. sseen' = sseen /\ ptr \in Nat BY DEF SealClose, TypeOK
    <3>4. SealedNode(s)' = m BY <3>3 DEF SealedNode
    <3>5. spc'[s] \notin BeforeClose /\ sseenPtr'[s] = ptr'
      BY <1>1, <2>1 DEF BeforeClose, TypeOK
    <3>6. QED BY <2>1, <3>1, <3>2, <3>3, <3>4, <3>5 DEF SealObservers
  <2>8. QED BY <2>5, <2>6, <2>7
<1>2. CASE spc'[s] # "draining"
  <2>1. /\ spc[s] = "closing" /\ spc' = [spc EXCEPT ![s] = "refused"]
        /\ UNCHANGED <<node, ptr, sseenPtr, closed>> /\ sealBusy' = FALSE
    BY <1>2 DEF SealClose, nodeVars, TypeOK
  <2>2. SealQuiet(s)
    BY <2>1 DEF SealClose, SealQuiet, attemptVars, SealerPcs, BeforeClose, AfterClose
  <2>3. TypeOK'
    BY <2>1, <2>2, SealQuietStep DEF SealClose, TypeOK, attemptVars, graphVars, limiterVars
  <2>4. QED BY <2>2, <2>3, SealQuietStep DEF SInv
<1>3. QED BY <1>1, <1>2

LEMMA SealEndKeeps == ASSUME Inv, NEW s \in Sealers, SealEnd(s) PROVE Inv'
<1> USE DEF Inv, SGo
<1>1. /\ spc' = [spc EXCEPT ![s] = "done"] /\ sealBusy' = FALSE
      /\ UNCHANGED <<pc, seen, seenPtr, sseen, sseenPtr>>
  BY DEF SealEnd, attemptVars
<1>2. spc' \in [Sealers -> SealerPcs] BY <1>1 DEF TypeOK, SealerPcs
<1>3. \A t \in Sealers : spc'[t] \in BeforeClose \cup AfterClose => spc'[t] = spc[t]
  BY <1>1 DEF TypeOK, BeforeClose, AfterClose
<1>4. CASE CompleteCleanup(SealedNode(s).gen)
  <2>1. TypeOK'
    BY <1>1, <1>2, <1>4, CleanupTyped DEF SealEnd, TypeOK, graphVars, gateVars, limiterVars
  <2>2. SInv' BY <1>1, <1>3, <1>4, CleanupKeeps DEF Holder
  <2>3. QED BY <2>1, <2>2 DEF SInv
<1>5. CASE UNCHANGED nodeVars
  <2>1. TypeOK'
    BY <1>1, <1>2, <1>5 DEF SealEnd, TypeOK, nodeVars, graphVars, gateVars, limiterVars
  <2>2. SealQuiet(s)
    BY <1>1, <1>5 DEF SealQuiet, SealerPcs, BeforeClose, AfterClose, nodeVars
  <2>3. QED BY <2>1, <2>2, SealQuietStep DEF SInv
<1>6. CASE /\ spc[s] = "failing" /\ sseenPtr[s] = ptr
           /\ Install(SealFailed(SealedNode(s)))
  <2>1. node = SealedNode(s) BY <1>6 DEF SealObservers, AfterClose
  <2>2. /\ node.state = "sealed" /\ SealFailed(node) \in Nodes
        /\ SealFailed(node).state = "sealed-faulted"
    BY <2>1, SealedNodeFacts DEF SealedNode, TypeOK
  <2>3. node' = SealFailed(node) /\ ptr' = ptr + 1 BY <1>6, <2>1 DEF Install
  <2>4. TypeOK'
    <3>1. node' \in Nodes /\ ptr' \in Nat BY <2>2, <2>3 DEF TypeOK
    <3>2. UNCHANGED <<stage2, graph, sfailed, closed, lease, journal, backoff, failures,
                      expired, boots>>
      BY DEF SealEnd, graphVars, gateVars, limiterVars
    <3>3. QED BY <1>1, <1>2, <3>1, <3>2 DEF TypeOK
  <2>5. NodeOK(node)' /\ Observers' /\ Askers' /\ Zombies' /\ HolderOwnsNode'
    BY <1>1, <2>2, <2>3, InstallStep
  <2>6. SealObservers'
    <3>1. \A t \in Sealers : sseenPtr[t] \in Nat BY DEF TypeOK
    <3>2. ptr \in Nat BY DEF TypeOK
    <3>3. QED BY <1>1, <1>3, <2>3, <3>1, <3>2 DEF SealObservers
  <2>7. QED BY <2>4, <2>5, <2>6
<1>7. QED BY <1>4, <1>5, <1>6 DEF SealEnd

LEMMA SealKeeps ==
  ASSUME Inv, NEW s \in Sealers, SealBegin(s) \/ SealStep(s)
  PROVE  Inv'
  BY SealQuietActionsKeep, SealCheckKeeps, SealCloseKeeps, SealEndKeeps DEF SealStep

-----------------------------------------------------------------------------
(* The rest.                                                               *)

LEMMA OthersKeep ==
  ASSUME Inv, \/ \E a \in Attempts : Stage2Returns(a)
              \/ \E u \in Users : Finish(u) \/ \E a \in Attempts : Borrow(u, a)
              \/ Elapse
  PROVE  Inv'
<1>1. UNCHANGED <<world, pc>>
  BY DEF Stage2Returns, Finish, Borrow, Elapse, world, nodeVars, attemptVars, sealerVars
<1>2. TypeOK'
  <2>1. CASE \E a \in Attempts : Stage2Returns(a)
    BY <2>1 DEF Inv, TypeOK, Stage2Returns, nodeVars, attemptVars, sealerVars, gateVars,
                limiterVars
  <2>2. CASE \E u \in Users : Finish(u) \/ \E a \in Attempts : Borrow(u, a)
    BY <2>2 DEF Inv, TypeOK, Finish, Borrow, nodeVars, attemptVars, graphVars, sealerVars,
                limiterVars
  <2>3. CASE Elapse
    <3>1. node.cool \in Nat BY DEF Inv, TypeOK, Nodes
    <3>2. QED BY <2>3, <3>1 DEF Inv, TypeOK, Elapse, nodeVars, attemptVars, graphVars,
                                sealerVars, gateVars
  <2>4. QED BY <2>1, <2>2, <2>3
<1>3. QED BY <1>1, <1>2, IdleStep DEF Inv, SInv

LEMMA RestartKeeps == ASSUME Inv, Restart PROVE Inv'
<1> USE DEF Inv, Restart
<1>1. TypeOK'
  <2>1. node' \in Nodes /\ ptr' \in Nat BY BootNodeFacts DEF TypeOK
  <2>2. pc' \in [Attempts -> Pcs] BY DEF TypeOK, Pcs, EndedPcs
  <2>3. spc' \in [Sealers -> SealerPcs] BY DEF TypeOK, SealerPcs
  <2>4. boots' \in 0 .. MaxBoots BY ConstantsAssumption DEF TypeOK
  <2>5. QED BY <2>1, <2>2, <2>3, <2>4 DEF TypeOK
<1>2. node' = BootNode /\ ptr' = ptr + 1 /\ ptr \in Nat BY DEF TypeOK
<1>3. \A b \in Attempts :
        /\ pc'[b] \notin HolderPcs \cup {"acquiring", "zombie"}
        /\ seenPtr[b] \in Nat /\ seenPtr[b] <= ptr
  BY DEF TypeOK, HolderPcs, EndedPcs, Observers
<1>4. \A t \in Sealers : spc'[t] \notin BeforeClose \cup AfterClose
  BY DEF TypeOK, BeforeClose, AfterClose
<1>5. NodeOK(node)' /\ Observers' /\ Askers' /\ Zombies'
  BY <1>2, <1>3, BootNodeFacts DEF NodeOK, Observers, Askers, Zombies
<1>6. HolderOwnsNode' BY <1>2, <1>3, BootNodeFacts DEF HolderOwnsNode, Holder
<1>7. SealObservers' BY <1>4 DEF SealObservers
<1>8. QED BY <1>1, <1>5, <1>6, <1>7

-----------------------------------------------------------------------------
LEMMA InitEstablishes == Init => Inv
<1> SUFFICES ASSUME Init PROVE Inv OBVIOUS
<1> USE DEF Init
<1>1. TypeOK
  <2>1. pc \in [Attempts -> Pcs] /\ spc \in [Sealers -> SealerPcs] BY DEF Pcs, SealerPcs
  <2>2. boots \in 0 .. MaxBoots BY ConstantsAssumption
  <2>3. QED BY <2>1, <2>2, BootNodeFacts DEF TypeOK
<1>2. NodeOK(node) /\ Observers BY BootNodeFacts DEF Observers
<1>3. Askers /\ Zombies BY DEF Askers, Zombies
<1>4. HolderOwnsNode BY BootNodeFacts DEF HolderOwnsNode, Holder, HolderPcs
<1>5. SealObservers BY DEF SealObservers, BeforeClose, AfterClose
<1>6. QED BY <1>1, <1>2, <1>3, <1>4, <1>5 DEF Inv

LEMMA NextKeeps == Inv /\ [Next]_vars => Inv'
<1> SUFFICES ASSUME Inv, [Next]_vars PROVE Inv' OBVIOUS
<1>1. CASE UNCHANGED vars
  <2>1. UNCHANGED <<world, pc>>
    BY <1>1 DEF vars, world, nodeVars, attemptVars, sealerVars
  <2>2. TypeOK'
    BY <1>1 DEF Inv, TypeOK, vars, nodeVars, attemptVars, graphVars, sealerVars, gateVars,
                limiterVars
  <2>3. QED BY <2>1, <2>2, IdleStep DEF Inv, SInv
<1>2. CASE Next
  BY <1>2, LoadKeeps, AttemptKeeps, SealKeeps, OthersKeep, RestartKeeps DEF Next
<1>3. QED BY <1>1, <1>2

(* The inductive invariant holds in every reachable state.                 *)
THEOREM Invariance == Spec => []Inv
<1>1. Init => Inv BY InitEstablishes
<1>2. Inv /\ [Next]_vars => Inv' BY NextKeeps
<1>3. QED BY <1>1, <1>2, PTL DEF Spec

(* Every variable keeps to its type, for any sets of actors.               *)
THEOREM TypeCorrect == Spec => []TypeOK
<1>1. Inv => TypeOK BY DEF Inv
<1>2. QED BY <1>1, Invariance, PTL

(* Mutual exclusion of Machine.Unseal: the machine is unsealing exactly    *)
(* while one attempt is on its way to the CAS that ends it, and that CAS   *)
(* cannot be lost.                                                         *)
THEOREM UnsealingExclusive == Spec => []HolderOwnsNode
<1>1. Inv => HolderOwnsNode BY DEF Inv
<1>2. QED BY <1>1, Invariance, PTL

-----------------------------------------------------------------------------
(* The instance's copy of the table is the table.                          *)
LEMMA TableApply == \A n, c : Table!ApplyCell(n, c) = ApplyCell(n, c)
  BY DEF ApplyCell, Towards, Table!ApplyCell, Table!Towards, NoState, NoFault,
         Table!NoState, Table!NoFault

LEMMA TableNodes ==
  /\ Table!BootNode = BootNode
  /\ \A n : Table!InitFailed(n) = InitFailed(n) /\ Table!SealFailed(n) = SealFailed(n)
  /\ \A n, armed : Table!MaterialBad(n, armed) = MaterialBad(n, armed)
  /\ \A n, g : Table!Published(n, g) = Published(n, g)
  BY TableApply DEF Table!BootNode, BootNode, Table!InitFailed, InitFailed, Table!SealFailed,
     SealFailed, Table!MaterialBad, MaterialBad, Table!Published, Published,
     Table!CellInitFailed, CellInitFailed, Table!CellSealFailed, CellSealFailed,
     Table!CellMaterialBad, CellMaterialBad, Table!CellPublished, CellPublished,
     Table!Ending, Ending, NoState, NoFault, Table!NoState, Table!NoFault

-----------------------------------------------------------------------------
(* The moves, one by one.                                                  *)
LEMMA AcquireMove ==
  ASSUME node \in Nodes, ~Blocked(node), node' = ApplyCell(node, CellAcquire)
  PROVE  Table!Acquire
<1>1. node.state \in {"sealed", "sealed-faulted"} /\ node.cleanup = 0
  BY DEF Blocked, Nodes, SealStates
<1>2. Table!CellAcquire \in Table!Cells BY DEF Table!Cells
<1>3. Table!CellAcquire \in Table!Hits("unseal_request", TRUE)
  BY <1>1, <1>2 DEF Table!Hits, Table!Resolve, Table!CellAcquire
<1>4. Table!CellAcquire = CellAcquire BY DEF Table!CellAcquire, CellAcquire
<1>5. QED BY <1>3, <1>4, TableApply DEF Table!Acquire

LEMMA EndingCells ==
  ASSUME node.state = "unsealing"
  PROVE  /\ CellPreAbort \in Table!Hits("pre_prepare_abort", FALSE)
         /\ CellPostAbort \in Table!Hits("post_prepare_abort", FALSE)
         /\ CellUnpublished \in Table!Hits("stage2_unpublished", FALSE)
         /\ CellMaterialBad \in Table!Hits("material_failure", FALSE)
         /\ CellPublished \in Table!Hits("stage2_published", FALSE)
         /\ CellInitFailed \in Table!Hits("stage2_failure", FALSE)
         /\ CellTimeout \in Table!Hits("stage2_timeout", FALSE)
<1>1. \A c \in {CellPreAbort, CellPostAbort, CellUnpublished, CellMaterialBad,
                CellPublished, CellInitFailed, CellTimeout} :
        /\ c \in Table!Cells
        /\ c.from = {"unsealing"} /\ c.cleanup = BOOLEAN /\ c.holder = BOOLEAN
  BY DEF Table!Cells, Table!CellPreAbort, Table!CellPostAbort, Table!CellUnpublished,
         Table!CellMaterialBad, Table!CellPublished, Table!CellInitFailed,
         Table!CellTimeout, Table!Ending, CellPreAbort, CellPostAbort, CellUnpublished,
         CellMaterialBad, CellPublished, CellInitFailed, CellTimeout, Ending
<1>2. /\ CellPreAbort.events = {"pre_prepare_abort"}
      /\ CellPostAbort.events = {"post_prepare_abort"}
      /\ CellUnpublished.events = {"stage2_unpublished"}
      /\ CellMaterialBad.events = {"material_failure"}
      /\ CellPublished.events = {"stage2_published"}
      /\ CellInitFailed.events = {"stage2_failure"}
      /\ CellTimeout.events = {"stage2_timeout"}
  BY DEF CellPreAbort, CellPostAbort, CellUnpublished, CellMaterialBad, CellPublished,
         CellInitFailed, CellTimeout, Ending
<1>3. ASSUME NEW c \in {CellPreAbort, CellPostAbort, CellUnpublished, CellMaterialBad,
                        CellPublished, CellInitFailed, CellTimeout},
             NEW e, c.events = {e}
      PROVE  c \in Table!Hits(e, FALSE)
  <2> DEFINE s == [from |-> node.state, event |-> e, cleanup |-> node.cleanup # 0,
                   holder |-> FALSE]
  <2>1. s.from \in c.from /\ s.event \in c.events /\ s.cleanup \in c.cleanup
        /\ s.holder \in c.holder
    BY <1>1, <1>3
  <2>2. QED BY <1>1, <2>1 DEF Table!Hits, Table!Resolve
<1>4. QED BY <1>2, <1>3

LEMMA EndingMove ==
  ASSUME node.state = "unsealing", node' \in Endings(node)
  PROVE  Table!Next
<1>1. CASE \E c \in {CellPreAbort, CellPostAbort, CellUnpublished} :
             node' = ApplyCell(node, c)
  BY <1>1, EndingCells, TableApply DEF Table!Abort, Table!Next
<1>2. CASE node' = ApplyCell(node, CellTimeout)
  BY <1>2, EndingCells, TableApply DEF Table!TimeOut, Table!Next
<1>3. CASE node' \in {ApplyCell(node, CellInitFailed), InitFailed(node)}
  BY <1>3, EndingCells, TableApply, TableNodes DEF Table!FailStage2, Table!Next
<1>4. CASE \E armed \in BOOLEAN : node' = MaterialBad(node, armed)
  BY <1>4, EndingCells, TableNodes DEF Table!FailMaterial, Table!Next
<1>5. CASE \E g \in Attempts : node' = Published(node, g)
  BY <1>5, EndingCells, TableNodes DEF Table!Publish, Table!Next
<1>6. QED BY <1>1, <1>2, <1>3, <1>4, <1>5 DEF Endings

LEMMA CleanupMove ==
  ASSUME NEW g, CompleteCleanup(g)
  PROVE  Table!CleanUp \/ UNCHANGED node
<1>1. CASE UNCHANGED nodeVars BY <1>1 DEF nodeVars
<1>2. CASE /\ node.cleanup # 0 /\ node.state \in {"sealed", "sealed-faulted"}
           /\ Install(ApplyCell(node, CellCleanupDone))
  <2>1. Table!CellCleanupDone \in Table!Cells BY DEF Table!Cells
  <2>2. Table!CellCleanupDone \in Table!Hits("cleanup_done", FALSE)
    BY <1>2, <2>1 DEF Table!Hits, Table!Resolve, Table!CellCleanupDone
  <2>3. Table!CellCleanupDone = CellCleanupDone
    BY DEF Table!CellCleanupDone, CellCleanupDone
  <2>4. QED BY <1>2, <2>2, <2>3, TableApply DEF Table!CleanUp, Install
<1>3. QED BY <1>1, <1>2 DEF CompleteCleanup

LEMMA SealMove ==
  ASSUME node.state = "unsealed", node.cleanup = 0, node' = ApplyCell(node, CellSeal)
  PROVE  Table!Seal
<1>1. Table!CellSeal \in Table!Cells BY DEF Table!Cells
<1>2. Table!CellSeal \in Table!Hits("seal_request", TRUE)
  BY <1>1 DEF Table!Hits, Table!Resolve, Table!CellSeal
<1>3. Table!CellSeal = CellSeal BY DEF Table!CellSeal, CellSeal
<1>4. QED BY <1>2, <1>3, TableApply DEF Table!Seal

LEMMA FailSealMove ==
  ASSUME node.state = "sealed", node.cleanup # 0, node' = SealFailed(node)
  PROVE  Table!FailSeal
<1>1. Table!CellSealFailed \in Table!Cells BY DEF Table!Cells
<1>2. Table!CellSealFailed \in Table!Hits("seal_cleanup_failed", FALSE)
  BY <1>1 DEF Table!Hits, Table!Resolve, Table!CellSealFailed
<1>3. QED BY <1>2, TableNodes DEF Table!FailSeal

LEMMA ExitMove ==
  ASSUME node \in Nodes, node' = BootNode
  PROVE  Table!Exit
<1>1. Table!CellProcessExit \in Table!Cells BY DEF Table!Cells
<1>2. Table!CellProcessExit \in Table!Hits("process_exit", FALSE)
  BY <1>1 DEF Table!Hits, Table!Resolve, Table!CellProcessExit, Table!AnyState,
              Table!SealStates, Nodes, SealStates
<1>3. QED BY <1>2, TableNodes DEF Table!Exit

-----------------------------------------------------------------------------
(* Every step is a move of the table or leaves the node alone.             *)
LEMMA CasMove ==
  ASSUME Inv, NEW a \in Attempts, NEW from \in HolderPcs \cup {"zombie"}, NEW n, NEW to,
         CasStep(a, from, n, to), from # "zombie" => n \in Endings(seen[a])
  PROVE  Table!Next \/ UNCHANGED node
<1>1. CASE Current(a)
  <2>1. from # "zombie" BY <1>1 DEF CasStep, Go, Inv, Zombies
  <2>2. Holder(a) BY <2>1 DEF CasStep, Go, Holder
  <2>3. seen[a] = node /\ node.state = "unsealing" BY <2>2 DEF Inv, HolderOwnsNode
  <2>4. node' \in Endings(node) BY <1>1, <2>1, <2>3 DEF CasStep, Cas, Install
  <2>5. QED BY <2>3, <2>4, EndingMove
<1>2. CASE ~Current(a) BY <1>2 DEF CasStep, Cas, nodeVars
<1>3. QED BY <1>1, <1>2

LEMMA AttemptMove ==
  ASSUME Inv, NEW a \in Attempts, AttemptStep(a)
  PROVE  Table!Next \/ UNCHANGED node
<1> USE DEF HolderPcs, Endings
<1>1. CASE Acquire(a)
  <2>1. CASE Current(a)
    <3>1. seen[a] = node /\ node \in Nodes /\ ~Blocked(node)
      BY <1>1, <2>1 DEF Inv, TypeOK, Observers, Askers, Current, Acquire, Go
    <3>2. node' = ApplyCell(node, CellAcquire) BY <1>1, <2>1, <3>1 DEF Acquire, Install
    <3>3. QED BY <3>1, <3>2, AcquireMove DEF Table!Next
  <2>2. CASE ~Current(a) BY <1>1, <2>2 DEF Acquire, nodeVars
  <2>3. QED BY <2>1, <2>2
<1>2. CASE AbortPrePrepare(a) BY <1>2, CasMove DEF AbortPrePrepare
<1>3. CASE AbortPostPrepare(a) BY <1>3, CasMove DEF AbortPostPrepare
<1>4. CASE MaterialFailure(a) BY <1>4, CasMove DEF MaterialFailure
<1>5. CASE TimedOut(a) BY <1>5, CasMove DEF TimedOut
<1>6. CASE Reap(a) BY <1>6, CasMove DEF Reap
<1>7. CASE InitFailure(a) BY <1>7, CasMove DEF InitFailure
<1>8. CASE Publish(a) BY <1>8, CasMove DEF Publish
<1>9. CASE Unpublished(a) BY <1>9, CasMove DEF Unpublished
<1>10. CASE ClearCleanup(a) BY <1>10, CleanupMove DEF ClearCleanup, Table!Next
<1>11. CASE \/ AskLimiter(a) \/ BeginVerify(a) \/ Verify(a) \/ RecordMaterialFailure(a)
            \/ AwaitStage2(a) \/ RecordSuccess(a) \/ CloseGraph(a) \/ ReleaseGraph(a)
            \/ DrainTimesOut(a)
  BY <1>11 DEF AskLimiter, BeginVerify, Verify, RecordMaterialFailure, AwaitStage2,
               RecordSuccess, CloseGraph, ReleaseGraph, DrainTimesOut, nodeVars
<1>12. CASE \/ WriteReceived(a) \/ WriteAborted(a) \/ WriteMaterialFailure(a)
            \/ WriteTimeout(a) \/ WriteInitFailed(a) \/ WriteSuccess(a) \/ WritePublished(a)
  BY <1>12 DEF WriteReceived, WriteAborted, WriteMaterialFailure, WriteTimeout,
               WriteInitFailed, WriteSuccess, WritePublished, WriteStep, nodeVars
<1>13. QED BY <1>1, <1>2, <1>3, <1>4, <1>5, <1>6, <1>7, <1>8, <1>9, <1>10, <1>11, <1>12
           DEF AttemptStep

LEMMA SealerMove ==
  ASSUME Inv, NEW s \in Sealers, SealBegin(s) \/ SealStep(s)
  PROVE  Table!Next \/ UNCHANGED node
<1>1. CASE SealClose(s)
  <2>1. CASE spc'[s] = "draining"
    <3>1. spc[s] = "closing" /\ sseenPtr[s] = ptr /\ node' = SealedNode(s)
      BY <1>1, <2>1 DEF SealClose, SGo, SealedNode, Install, Inv, TypeOK
    <3>2. node = sseen[s] /\ node.state = "unsealed" /\ node.cleanup = 0
      BY <3>1 DEF Inv, SealObservers, BeforeClose
    <3>3. QED BY <3>1, <3>2, SealMove DEF SealedNode, Table!Next
  <2>2. CASE spc'[s] # "draining"
    BY <1>1, <2>2 DEF SealClose, SGo, nodeVars, Inv, TypeOK
  <2>3. QED BY <2>1, <2>2
<1>2. CASE SealEnd(s)
  <2>1. CASE CompleteCleanup(SealedNode(s).gen) BY <2>1, CleanupMove DEF Table!Next
  <2>2. CASE UNCHANGED nodeVars BY <2>2 DEF nodeVars
  <2>3. CASE /\ spc[s] = "failing" /\ sseenPtr[s] = ptr
             /\ Install(SealFailed(SealedNode(s)))
    <3>1. node = SealedNode(s) BY <2>3 DEF Inv, SealObservers, AfterClose
    <3>2. node.state = "sealed" /\ node.cleanup # 0
      BY <3>1, SealedNodeFacts DEF SealedNode, Inv, TypeOK
    <3>3. QED BY <2>3, <3>1, <3>2, FailSealMove DEF Install, Table!Next
  <2>4. QED BY <1>2, <2>1, <2>2, <2>3 DEF SealEnd, SGo
<1>3. CASE SealBegin(s) \/ SealCheck(s) \/ SealRecord(s) \/ SealRelease(s) \/ SealReport(s)
  BY <1>3 DEF SealBegin, SealCheck, SealRecord, SealRelease, SealReport, nodeVars
<1>4. QED BY <1>1, <1>2, <1>3 DEF SealStep

(* The concurrent machine implements the fourteen-cell table: whatever     *)
(* Snapshot shows moves only by cells that match the node they fire on.    *)
THEOREM MachineImplementsTable == Spec => ImplementsTable
<1>1. Init => Table!Init BY TableNodes DEF Init, Table!Init
<1>2. Inv /\ [Next]_vars => [Table!Next]_node
  <2> SUFFICES ASSUME Inv, [Next]_vars PROVE Table!Next \/ UNCHANGED node OBVIOUS
  <2>1. CASE UNCHANGED vars BY <2>1 DEF vars, nodeVars
  <2>2. CASE \E a \in Attempts : Load(a) \/ Stage2Returns(a)
    BY <2>2 DEF Load, Stage2Returns, nodeVars
  <2>3. CASE \E a \in Attempts : AttemptStep(a) BY <2>3, AttemptMove
  <2>4. CASE \E s \in Sealers : SealBegin(s) \/ SealStep(s) BY <2>4, SealerMove
  <2>5. CASE \/ \E u \in Users : Finish(u) \/ \E a \in Attempts : Borrow(u, a)
             \/ Elapse
    BY <2>5 DEF Finish, Borrow, Elapse, nodeVars
  <2>6. CASE Restart BY <2>6, ExitMove DEF Restart, Inv, TypeOK, Table!Next
  <2>7. QED BY <2>1, <2>2, <2>3, <2>4, <2>5, <2>6 DEF Next
<1>3. QED BY <1>1, <1>2, Invariance, PTL DEF Spec, ImplementsTable, Table!Spec
=============================================================================
