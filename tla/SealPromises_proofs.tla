------------------------ MODULE SealPromises_proofs ------------------------
(***************************************************************************)
(* What the sealing machine promises beyond mutual exclusion, for every    *)
(* set of actors: write-ahead and one outcome per attempt, zombies without *)
(* effect, the limiter honoured, one live graph, gates that lend as        *)
(* LeaseGate says, and the server around the machine, which takes no       *)
(* liberty with it and routes to the graph on offer.                       *)
(***************************************************************************)
EXTENDS SealRouting, SealMachine_proofs, FiniteSetTheorems

-----------------------------------------------------------------------------
(* The journal.  Between its durable received and its outcome ...          *)
Verified  == HolderPcs \ {"prepare", "unprepared"}
Undecided == {"idle", "loaded", "acquiring", "prepare", "unprepared", "prepared",
              "verifying", "aborting", "refuted", "building", "timing", "faulting",
              "succeeding"}

(* What the journal has of an attempt at p, with stage 2 at st, that serves *)
(* or does not.                                                            *)
Recorded(p, st, serves, records) ==
  /\ p \in Verified \/ st # "none" => "received" \in records
  /\ p = "publishing" \/ serves => "success" \in records
  /\ p \in Undecided => records \cap Outcomes = {}
  /\ \E o \in Outcomes : records \cap Outcomes \subseteq {o}

SealRecorded(p, records) == p \in {"closing"} \cup AfterClose => "seal_received" \in records

JournalInv ==
  /\ \A a \in Attempts : Recorded(pc[a], stage2[a], node.services = a, journal[a])
  /\ \A s \in Sealers : SealRecorded(spc[s], journal[s])

-----------------------------------------------------------------------------
(* The limiter: as long as the node an attempt read is current, what it    *)
(* was told still holds.                                                   *)
Admitted == \A a \in Attempts : Current(a) =>
  /\ pc[a] \in {"loaded", "acquiring"} => ~Cooling(node)
  /\ pc[a] = "acquiring" => SourceOf[a] \notin backoff

-----------------------------------------------------------------------------
(* Graphs and gates.                                                       *)
Serving  == {"confirming", "resetting", "served"}
Unbuilt  == {"idle", "loaded", "acquiring", "prepare", "unprepared", "prepared",
             "verifying", "aborting", "aborted", "refuted", "counting", "counted",
             "armed", "rejected", "dead"}
Building == {"building", "timing", "timedout", "zombie"}
Wiped    == {"released", "leaked"}

(* The graph of an attempt at p whose stage 2 is at st.                    *)
Built(p, st, g, shut) ==
  /\ st = "running" <=> g = "partial"
  /\ st = "running" => p \in Building
  /\ p \in Unbuilt => g = "none" /\ st = "none"
  /\ p \in Building \cup {"faulting", "faulted", "closing"} =>
       st # "none" /\ g \notin Wiped /\ (st = "ok" => g = "held")
  /\ p \in {"succeeding", "publishing", "retracting", "retractDrain", "draining"} => g = "held"
  /\ p = "retracted" => g = "released"
  /\ p = "clearing" => g \in {"none", "orphaned", "released"}
  /\ g \in Wiped \/ p \in {"draining", "retractDrain"} => shut

Graphs == \A a \in Attempts : Built(pc[a], stage2[a], graph[a], closed[a])

(* A machine on its way up, or up, has no token; and who serves is served. *)
Tokens ==
  /\ node.cleanup <= node.gen
  /\ node.state \in {"unsealing", "unsealed"} => node.cleanup = 0
  /\ node.state = "unsealed" =>
       /\ node.services \in Attempts
       /\ pc[node.services] \in Serving /\ graph[node.services] = "held"

(* One Seal request at a time, and what it does to the graph it took down. *)
Busy == {"checking", "recording"} \cup {"closing"} \cup AfterClose
Sealing ==
  /\ \A s \in Sealers : spc[s] \in Busy => sealBusy
  /\ \A s, t \in Sealers : spc[s] \in Busy /\ spc[t] \in Busy => s = t
  /\ \A s \in Sealers : spc[s] \in AfterClose =>
       LET g == sseen[s].services IN
       /\ g \in Attempts /\ pc[g] \in Serving /\ closed[g] /\ node.services # g
       /\ spc[s] = "draining" => graph[g] = "held"
       /\ spc[s] = "reporting" => sfailed[s] \/ graph[g] = "released"
       /\ spc[s] = "clearing" => graph[g] = "released"

(* Generations are given out once in the life of a process.                *)
Counted(a) == pc[a] \in HolderPcs \cup SettledPcs \/ Live(a)
Generations ==
  /\ \A a \in Attempts : Counted(a) => Gen(a) > 0 /\ Gen(a) <= node.gen
  /\ \A a, b \in Attempts : Counted(a) /\ Counted(b) /\ Gen(a) = Gen(b) => a = b
  /\ \A s \in Sealers : spc[s] \in AfterClose =>
       /\ sseen[s].gen + 1 <= node.gen
       /\ \A a \in Attempts : Counted(a) => Gen(a) # sseen[s].gen + 1

(* Why the machine cannot build another graph beside a live one: it is     *)
(* under construction, or it serves, or it is to be cleaned up, by a Seal  *)
(* request or by its own attempt.                                          *)
UnderSeal(a) ==
  /\ node.cleanup # 0
  /\ \A b \in Attempts : pc[b] \in SettledPcs => Gen(b) # node.cleanup
  /\ \A s \in Sealers : spc[s] \in AfterClose /\ sseen[s].gen + 1 = node.cleanup
                          => sseen[s].services = a
Owned(a) == \/ Holder(a)
            \/ node.state = "unsealed" /\ node.services = a
            \/ pc[a] \in Serving /\ UnderSeal(a)
            \/ pc[a] \notin Serving /\ node.cleanup = Gen(a)

GraphInv ==
  /\ Graphs /\ Tokens /\ Sealing /\ Generations
  /\ \A a \in Attempts : Live(a) => Owned(a)
  /\ OneLiveGraph

-----------------------------------------------------------------------------
(* What the cells do to the fields the proofs look at.                     *)
Fields(m, gen, state, services, cleanup) ==
  /\ m.gen = gen /\ m.state = state /\ m.services = services /\ m.cleanup = cleanup

Loose == [gen : Nat, state : SealStates \cup {NoState}, source : SealStates \cup {NoState},
          services : Attempts \cup {None}, fault : Faults, cleanup : Nat, cool : Nat]

(* A cell that goes back to where the unsealing came from.                 *)
LEMMA SourceFields ==
  ASSUME NEW n \in Nodes, NEW c, c.target = "@source", c.clears = FALSE, c.sets \in BOOLEAN
  PROVE  LET m == ApplyCell(n, c)
         IN  /\ Fields(m, n.gen, n.source, None, IF c.sets THEN n.gen ELSE n.cleanup)
             /\ m.cool = n.cool
<1> DEFINE f == IF n.source = "sealed-faulted" THEN n.fault ELSE NoFault
           k == [n EXCEPT !.state = n.source, !.source = NoState, !.services = None, !.fault = f]
<1>1. Towards(n, c) = k BY DEF Towards
<1>2. /\ k.gen = n.gen /\ k.state = n.source /\ k.services = None /\ k.cleanup = n.cleanup
      /\ k.cool = n.cool
      /\ k \in Loose
  BY DEF Nodes, Loose, Faults, SealStates
<1>3. ApplyCell(n, c) = [k EXCEPT !.cleanup = IF c.sets THEN k.gen ELSE k.cleanup]
  BY <1>1 DEF ApplyCell
<1>4. QED BY <1>2, <1>3 DEF Fields, Loose

(* A cell that goes somewhere else, then the ones with an effect of their  *)
(* own.                                                                    *)
LEMMA OtherFields ==
  ASSUME NEW n \in Nodes, NEW c, c.target \in SealStates \ {"unsealing"}, c.clears = FALSE,
         c.sets \in BOOLEAN
  PROVE  LET m == ApplyCell(n, c)
             g == IF c.id = "10" THEN n.gen + 1 ELSE n.gen
         IN  /\ Fields(m, g, c.target, None, IF c.sets THEN g ELSE n.cleanup)
             /\ m.cool = n.cool
<1> DEFINE g == IF c.id = "10" THEN n.gen + 1 ELSE n.gen
           f == IF c.target = "sealed-faulted" THEN n.fault ELSE NoFault
           k == [n EXCEPT !.state = c.target, !.source = NoState, !.services = None,
                          !.gen = g, !.fault = f]
<1>1. Towards(n, c) = k
  <2>1. c.target # "@unchanged" /\ c.target # "@source" BY DEF SealStates
  <2>2. QED BY <2>1 DEF Towards
<1>2. /\ k.gen = g /\ k.state = c.target /\ k.services = None /\ k.cleanup = n.cleanup
      /\ k.cool = n.cool
      /\ k \in Loose
  <2>1. g \in Nat /\ f \in Faults BY DEF Nodes, Faults
  <2> HIDE DEF g, f
  <2>2. QED BY <2>1 DEF Nodes, Loose
<1>3. ApplyCell(n, c) = [k EXCEPT !.cleanup = IF c.sets THEN k.gen ELSE k.cleanup]
  BY <1>1 DEF ApplyCell
<1>4. QED BY <1>2, <1>3 DEF Fields, Loose

LEMMA AcquireFields ==
  ASSUME NEW n \in Nodes
  PROVE  /\ Fields(ApplyCell(n, CellAcquire), n.gen + 1, "unsealing", None, n.cleanup)
         /\ ApplyCell(n, CellAcquire).cool = n.cool
<1> DEFINE k == [n EXCEPT !.gen = n.gen + 1, !.state = "unsealing", !.source = n.state,
                          !.services = None]
<1>1. Towards(n, CellAcquire) = k BY DEF Towards, CellAcquire
<1>2. /\ k.gen = n.gen + 1 /\ k.state = "unsealing" /\ k.services = None
      /\ k.cleanup = n.cleanup /\ k.cool = n.cool
      /\ k \in Loose
  <2>1. n.gen + 1 \in Nat /\ n.state \in SealStates /\ "unsealing" \in SealStates
    BY DEF Nodes, SealStates
  <2>2. k.gen = n.gen + 1 /\ k.state = "unsealing" /\ k.services = None
        /\ k.cleanup = n.cleanup /\ k.cool = n.cool /\ k.fault = n.fault /\ k.source = n.state
    BY DEF Nodes
  <2>3. k \in [gen : {n.gen + 1}, state : {"unsealing"}, source : {n.state},
                services : {None}, fault : Faults, cleanup : Nat, cool : Nat]
    BY DEF Nodes
  <2>4. QED BY <2>1, <2>2, <2>3 DEF Loose
<1>3. ApplyCell(n, CellAcquire) = [k EXCEPT !.cleanup = k.cleanup]
  BY <1>1 DEF ApplyCell, CellAcquire
<1>4. QED BY <1>2, <1>3 DEF Fields, Loose

LEMMA CleanFields ==
  ASSUME NEW n \in Nodes
  PROVE  /\ Fields(ApplyCell(n, CellCleanupDone), n.gen, n.state, n.services, 0)
         /\ ApplyCell(n, CellCleanupDone) = [n EXCEPT !.cleanup = 0]
<1>1. Towards(n, CellCleanupDone) = n BY DEF Towards, CellCleanupDone
<1>2. ApplyCell(n, CellCleanupDone) = [n EXCEPT !.cleanup = 0]
  BY <1>1 DEF ApplyCell, CellCleanupDone
<1>3. QED BY <1>2 DEF Fields, Nodes

LEMMA SealFields ==
  ASSUME NEW n \in Nodes
  PROVE  LET m == ApplyCell(n, CellSeal)
         IN  /\ Fields(m, n.gen + 1, "sealed", None, n.gen + 1)
             /\ Fields(SealFailed(m), n.gen + 1, "sealed-faulted", None, n.gen + 1)
<1> DEFINE m == ApplyCell(n, CellSeal)
<1>1. Fields(m, n.gen + 1, "sealed", None, n.gen + 1)
  <2>1. /\ CellSeal.target = "sealed" /\ CellSeal.clears = FALSE /\ CellSeal.sets = TRUE
        /\ CellSeal.id = "10"
    BY DEF CellSeal
  <2>2. QED BY <2>1, OtherFields DEF SealStates
<1>2. m \in Nodes BY SealedNodeFacts
<1>3. Fields(ApplyCell(m, CellSealFailed), n.gen + 1, "sealed-faulted", None, n.gen + 1)
  <2>1. /\ CellSealFailed.target = "sealed-faulted" /\ CellSealFailed.clears = FALSE
        /\ CellSealFailed.sets = FALSE /\ CellSealFailed.id = "11"
    BY DEF CellSealFailed
  <2>2. QED BY <1>1, <1>2, <2>1, OtherFields DEF SealStates, Fields
<1>4. ApplyCell(m, CellSealFailed) \in Nodes
  BY <1>2, TowardsOther, TokenOnly DEF CellSealFailed, SealStates
<1>5. QED BY <1>1, <1>3, <1>4 DEF Fields, SealFailed, Nodes

(* The ends of an unsealing: the token, if any, is the attempt's own.      *)
Keeps(n, m) == Fields(m, n.gen, n.source, None, n.cleanup)
Marks(n, m) == /\ m.gen = n.gen /\ m.state \in {n.source, "sealed-faulted"}
               /\ m.services = None /\ m.cleanup = n.gen

LEMMA EndingFields ==
  ASSUME NEW n \in Nodes
  PROVE  /\ \A c \in {CellPreAbort, CellPostAbort, CellUnpublished, CellMaterialBad} :
              Keeps(n, ApplyCell(n, c))
         /\ \A armed \in BOOLEAN : Keeps(n, MaterialBad(n, armed))
         /\ Marks(n, ApplyCell(n, CellTimeout))
         /\ Marks(n, ApplyCell(n, CellInitFailed)) /\ Marks(n, InitFailed(n))
         /\ \A a \in Attempts : Fields(Published(n, a), n.gen, "unsealed", a, n.cleanup)
<1> USE DEF Keeps, Marks
<1>1. \A c \in {CellPreAbort, CellPostAbort, CellUnpublished, CellMaterialBad} :
        Fields(ApplyCell(n, c), n.gen, n.source, None, n.cleanup)
  <2>1. \A c \in {CellPreAbort, CellPostAbort, CellUnpublished, CellMaterialBad} :
          c.target = "@source" /\ c.clears = FALSE /\ c.sets = FALSE
    BY DEF CellPreAbort, CellPostAbort, CellUnpublished, CellMaterialBad, Ending
  <2>2. QED BY <2>1, SourceFields
<1>2. \A armed \in BOOLEAN : Keeps(n, MaterialBad(n, armed))
  <2> DEFINE m == ApplyCell(n, CellMaterialBad)
  <2>1. m = [Towards(n, CellMaterialBad) EXCEPT !.cleanup = Towards(n, CellMaterialBad).cleanup]
    BY DEF ApplyCell, CellMaterialBad, Ending
  <2>2. Towards(n, CellMaterialBad) =
          [gen |-> n.gen, state |-> n.source, source |-> NoState, services |-> None,
           fault |-> IF n.source = "sealed-faulted" THEN n.fault ELSE NoFault,
           cleanup |-> n.cleanup, cool |-> n.cool]
    BY DEF Towards, CellMaterialBad, Ending, Nodes
  <2>3. QED BY <1>1, <2>1, <2>2 DEF MaterialBad, Fields
<1>3. Marks(n, ApplyCell(n, CellTimeout))
  <2>1. CellTimeout.target = "@source" /\ CellTimeout.clears = FALSE /\ CellTimeout.sets = TRUE
    BY DEF CellTimeout, Ending
  <2>2. QED BY <2>1, SourceFields DEF Fields
<1>4. Fields(ApplyCell(n, CellInitFailed), n.gen, "sealed-faulted", None, n.gen)
  <2>1. /\ CellInitFailed.target = "sealed-faulted" /\ CellInitFailed.clears = FALSE
        /\ CellInitFailed.sets = TRUE /\ CellInitFailed.id = "6"
    BY DEF CellInitFailed, Ending
  <2>2. QED BY <2>1, OtherFields DEF SealStates
<1>5. ApplyCell(n, CellInitFailed) \in Nodes
  BY TowardsOther, TokenOnly DEF CellInitFailed, Ending, SealStates
<1>6. Marks(n, InitFailed(n)) BY <1>4, <1>5 DEF InitFailed, Fields, Nodes
<1>7. Fields(ApplyCell(n, CellPublished), n.gen, "unsealed", None, n.cleanup)
  <2>1. /\ CellPublished.target = "unsealed" /\ CellPublished.clears = FALSE
        /\ CellPublished.sets = FALSE /\ CellPublished.id = "5"
    BY DEF CellPublished, Ending
  <2>2. QED BY <2>1, OtherFields DEF SealStates
<1>8. ApplyCell(n, CellPublished) \in Nodes
  BY TowardsOther, TokenOnly DEF CellPublished, Ending, SealStates
<1>9. \A a \in Attempts : Fields(Published(n, a), n.gen, "unsealed", a, n.cleanup)
  BY <1>7, <1>8 DEF Published, Fields, Nodes
<1>10. QED BY <1>1, <1>2, <1>3, <1>4, <1>6, <1>9 DEF Fields

-----------------------------------------------------------------------------
(* Who is served: the services of a node change when it is published, and  *)
(* otherwise go or stay.                                                   *)
LEMMA CasServices ==
  ASSUME Inv, NEW a \in Attempts, NEW n, Cas(a, n),
         Current(a) => Holder(a) /\ (Keeps(seen[a], n) \/ Marks(seen[a], n))
  PROVE  node'.services \in {node.services, None}
  BY DEF Cas, Install, nodeVars, Keeps, Marks, Fields

LEMMA CleanServices ==
  ASSUME Inv, NEW g, CompleteCleanup(g)
  PROVE  node'.services = node.services
<1>1. node \in Nodes BY DEF Inv, TypeOK
<1>2. QED BY <1>1, CleanFields DEF CompleteCleanup, Install, nodeVars, Fields

(* One attempt moves on and the others stand still.                        *)
LEMMA JournalLocal ==
  ASSUME Inv, JournalInv, NEW a \in Attempts,
         \A b \in Attempts \ {a} :
           pc'[b] = pc[b] /\ stage2'[b] = stage2[b] /\ journal'[b] = journal[b],
         node'.services \in {node.services, None, a},
         Recorded(pc'[a], stage2'[a], node'.services = a, journal'[a]),
         spc' = spc, \A s \in Sealers : journal'[s] = journal[s]
  PROVE  JournalInv'
<1>1. ASSUME NEW b \in Attempts
      PROVE  Recorded(pc'[b], stage2'[b], node'.services = b, journal'[b])
  <2>1. CASE b = a BY <2>1
  <2>2. CASE b # a
    <3>1. Recorded(pc[b], stage2[b], node.services = b, journal[b]) BY DEF JournalInv
    <3>2. node'.services = b => node.services = b BY <2>2, NoneAssumption
    <3>3. QED BY <2>2, <3>1, <3>2 DEF Recorded
  <2>3. QED BY <2>1, <2>2
<1>2. QED BY <1>1 DEF JournalInv

(* A step that records nothing keeps what is recorded in accord.           *)
LEMMA JournalMove ==
  ASSUME Inv, JournalInv, NEW a \in Attempts, NEW q, pc' = [pc EXCEPT ![a] = q],
         \A b \in Attempts \ {a} : stage2'[b] = stage2[b],
         stage2'[a] # "none" => stage2[a] # "none" \/ pc[a] \in Verified,
         q \in Verified => pc[a] \in Verified,
         q \in Undecided => pc[a] \in Undecided,
         q = "publishing" => pc[a] = q,
         node'.services \in {node.services, None}, UNCHANGED <<journal, spc>>
  PROVE  JournalInv'
<1>1. Recorded(pc[a], stage2[a], node.services = a, journal[a]) BY DEF JournalInv
<1>2. pc'[a] = q /\ \A b \in Attempts \ {a} : pc'[b] = pc[b] BY DEF Inv, TypeOK
<1>3. node'.services = a => node.services = a BY NoneAssumption
<1>4. Recorded(pc'[a], stage2'[a], node'.services = a, journal'[a])
  BY <1>1, <1>2, <1>3 DEF Recorded
<1>5. QED BY <1>2, <1>4, JournalLocal

(* One attempt writes a record.                                            *)
LEMMA JournalWrite ==
  ASSUME Inv, JournalInv, NEW a \in Attempts, NEW from, NEW record \in Records, NEW acked, NEW lost,
         WriteStep(a, from, record, acked, lost),
         record \in Outcomes => /\ from \in Undecided
                               /\ acked \notin Undecided /\ lost \notin Undecided,
         acked \in Undecided \/ lost \in Undecided => from \in Undecided,
         acked \in Verified => from \in Verified \/ record = "received",
         lost \in Verified => from \in Verified,
         acked = "publishing" => record = "success", lost # "publishing"
  PROVE  JournalInv'
<1>1. PICK ok \in BOOLEAN : /\ Go(a, from, IF ok THEN acked ELSE lost)
                            /\ Write(a, record, ok)
  BY DEF WriteStep
<1>2. UNCHANGED <<node, stage2, spc>> BY DEF WriteStep, nodeVars, graphVars, sealerVars
<1>3. Recorded(pc[a], stage2[a], node.services = a, journal[a]) BY DEF JournalInv
<1>4. /\ pc[a] = from /\ pc'[a] = IF ok THEN acked ELSE lost
      /\ \A b \in Attempts \ {a} : pc'[b] = pc[b]
  BY <1>1 DEF Go, Inv, TypeOK
<1>5. PICK landed \in BOOLEAN : /\ ok => landed
                                /\ journal' = [journal EXCEPT ![a] = IF landed THEN journal[a] \cup {record}
                                                                              ELSE journal[a]]
  BY <1>1 DEF Write
<1>6. /\ journal'[a] = IF landed THEN journal[a] \cup {record} ELSE journal[a]
      /\ \A p \in (Attempts \cup Sealers) \ {a} : journal'[p] = journal[p]
  BY <1>5 DEF Inv, TypeOK
<1>7. \A s \in Sealers : s # a BY ConstantsAssumption
<1>8. Recorded(pc'[a], stage2'[a], node'.services = a, journal'[a])
  <2>1. /\ pc'[a] \in Verified \/ stage2'[a] # "none" => "received" \in journal'[a]
        /\ pc'[a] = "publishing" \/ node'.services = a => "success" \in journal'[a]
    BY <1>2, <1>3, <1>4, <1>5, <1>6 DEF Recorded
  <2>2. CASE record \in Outcomes
    <3>1. journal[a] \cap Outcomes = {} BY <1>3, <1>4, <2>2 DEF Recorded
    <3>2. journal'[a] \cap Outcomes \subseteq {record} BY <3>1, <1>6
    <3>3. pc'[a] \notin Undecided BY <1>4, <2>2
    <3>4. QED BY <2>1, <2>2, <3>2, <3>3 DEF Recorded
  <2>3. CASE record \notin Outcomes
    <3>1. journal'[a] \cap Outcomes = journal[a] \cap Outcomes BY <2>3, <1>6
    <3>2. pc'[a] \in Undecided => pc[a] \in Undecided BY <1>4
    <3>3. QED BY <2>1, <3>1, <3>2, <1>3 DEF Recorded
  <2>4. QED BY <2>2, <2>3
<1>9. QED BY <1>2, <1>4, <1>6, <1>7, <1>8, JournalLocal

(* Each kind of step: journal writes, endings, other moves, Seal requests, *)
(* what surrounds them, a restart.                                         *)
LEMMA JournalWrites ==
  ASSUME Inv, JournalInv, NEW a \in Attempts,
         \/ WriteReceived(a) \/ WriteAborted(a) \/ WriteMaterialFailure(a)
         \/ WriteTimeout(a) \/ WriteInitFailed(a) \/ WriteSuccess(a) \/ WritePublished(a)
  PROVE  JournalInv'
<1> USE DEF Verified, Undecided, HolderPcs, Records, Outcomes
<1>1. CASE WriteReceived(a) BY <1>1, JournalWrite DEF WriteReceived
<1>2. CASE WriteAborted(a) BY <1>2, JournalWrite DEF WriteAborted
<1>3. CASE WriteMaterialFailure(a) BY <1>3, JournalWrite DEF WriteMaterialFailure
<1>4. CASE WriteTimeout(a) BY <1>4, JournalWrite DEF WriteTimeout
<1>5. CASE WriteInitFailed(a) BY <1>5, JournalWrite DEF WriteInitFailed
<1>6. CASE WriteSuccess(a) BY <1>6, JournalWrite DEF WriteSuccess
<1>7. CASE WritePublished(a) BY <1>7, JournalWrite DEF WritePublished
<1>8. QED BY <1>1, <1>2, <1>3, <1>4, <1>5, <1>6, <1>7

(* An unsealing ends without a publication.                                *)
LEMMA JournalEnding ==
  ASSUME Inv, JournalInv, NEW a \in Attempts, NEW from \in HolderPcs, NEW n,
         NEW to \in {"failed", "zombie", "closing"},
         CasStep(a, from, n, to), Keeps(seen[a], n) \/ Marks(seen[a], n)
  PROVE  JournalInv'
<1>1. pc' = [pc EXCEPT ![a] = to] /\ UNCHANGED <<journal, spc, stage2>>
  BY DEF CasStep, Go, sealerVars, graphVars
<1>2. node'.services \in {node.services, None}
  <2>1. Holder(a) BY DEF CasStep, Go, Holder
  <2>2. QED BY <2>1, CasServices DEF CasStep
<1>3. to \notin Verified \cup Undecided \cup {"publishing"} BY DEF Verified, Undecided, HolderPcs
<1>4. QED BY <1>1, <1>2, <1>3, JournalMove

LEMMA JournalEndings ==
  ASSUME Inv, JournalInv, NEW a \in Attempts,
         \/ AbortPrePrepare(a) \/ AbortPostPrepare(a) \/ MaterialFailure(a)
         \/ TimedOut(a) \/ InitFailure(a) \/ Publish(a) \/ Unpublished(a)
  PROVE  JournalInv'
<1> USE DEF HolderPcs
<1>1. seen[a] \in Nodes BY DEF Inv, TypeOK
<1>2. CASE AbortPrePrepare(a) BY <1>1, <1>2, EndingFields, JournalEnding DEF AbortPrePrepare
<1>3. CASE AbortPostPrepare(a) BY <1>1, <1>3, EndingFields, JournalEnding DEF AbortPostPrepare
<1>4. CASE MaterialFailure(a) BY <1>1, <1>4, EndingFields, JournalEnding DEF MaterialFailure
<1>5. CASE TimedOut(a) BY <1>1, <1>5, EndingFields, JournalEnding DEF TimedOut
<1>6. CASE InitFailure(a) BY <1>1, <1>6, EndingFields, JournalEnding DEF InitFailure
<1>7. CASE Unpublished(a) BY <1>1, <1>7, EndingFields, JournalEnding DEF Unpublished
<1>8. CASE Publish(a)
  <2>1. pc[a] = "publishing" /\ Cas(a, Published(seen[a], a)) /\ UNCHANGED <<journal, spc, stage2>>
    BY <1>8 DEF Publish, CasStep, Go, sealerVars, graphVars
  <2>2. Current(a) BY <2>1 DEF Inv, HolderOwnsNode, Holder
  <2>3. node'.services = a BY <1>1, <2>1, <2>2, EndingFields DEF Cas, Install, Fields
  <2>4. /\ pc'[a] = "confirming"
        /\ \A b \in Attempts \ {a} : pc'[b] = pc[b]
    BY <1>8, <2>2 DEF Publish, CasStep, Go, Inv, TypeOK
  <2>5. Recorded(pc[a], stage2[a], node.services = a, journal[a]) BY DEF JournalInv
  <2>6. Recorded(pc'[a], stage2'[a], node'.services = a, journal'[a])
    BY <2>1, <2>4, <2>5 DEF Recorded, Verified, Undecided
  <2>7. QED BY <2>1, <2>3, <2>4, <2>6, JournalLocal
<1>9. QED BY <1>2, <1>3, <1>4, <1>5, <1>6, <1>7, <1>8

LEMMA JournalMoves ==
  ASSUME Inv, JournalInv, NEW a \in Attempts,
         \/ Load(a) \/ AskLimiter(a) \/ Acquire(a) \/ BeginVerify(a) \/ Verify(a)
         \/ RecordMaterialFailure(a) \/ AwaitStage2(a) \/ Reap(a) \/ RecordSuccess(a)
         \/ CloseGraph(a) \/ ReleaseGraph(a) \/ DrainTimesOut(a) \/ ClearCleanup(a)
  PROVE  JournalInv'
<1> USE DEF Verified, Undecided, HolderPcs, Go, nodeVars, sealerVars
<1>1. CASE Load(a)
  BY <1>1, JournalMove DEF Load, graphVars
<1>2. CASE AskLimiter(a)
  BY <1>2, JournalMove DEF AskLimiter, graphVars
<1>3. CASE Acquire(a)
  <2>1. node'.services \in {node.services, None}
    <3>1. seen[a] \in Nodes BY DEF Inv, TypeOK
    <3>2. QED BY <1>3, <3>1, AcquireFields DEF Acquire, Install, Fields
  <2>2. QED BY <1>3, <2>1, JournalMove DEF Acquire, graphVars
<1>4. CASE BeginVerify(a)
  BY <1>4, JournalMove DEF BeginVerify, graphVars
<1>5. CASE Verify(a)
  BY <1>5, JournalMove DEF Verify, graphVars, Inv, TypeOK
<1>6. CASE RecordMaterialFailure(a)
  BY <1>6, JournalMove DEF RecordMaterialFailure, graphVars
<1>7. CASE AwaitStage2(a)
  BY <1>7, JournalMove DEF AwaitStage2, graphVars
<1>8. CASE Reap(a)
  <2>1. PICK n : CasStep(a, "zombie", n, "closing") BY <1>8 DEF Reap
  <2>2. ~Current(a) BY <2>1 DEF CasStep, Inv, Zombies
  <2>3. UNCHANGED node BY <2>1, <2>2 DEF CasStep, Cas
  <2>4. QED BY <2>1, <2>3, JournalMove DEF CasStep, graphVars
<1>9. CASE RecordSuccess(a)
  BY <1>9, JournalMove DEF RecordSuccess, graphVars
<1>10. CASE CloseGraph(a)
  BY <1>10, JournalMove DEF CloseGraph, graphVars
<1>11. CASE ReleaseGraph(a)
  BY <1>11, JournalMove DEF ReleaseGraph
<1>12. CASE DrainTimesOut(a)
  BY <1>12, JournalMove DEF DrainTimesOut, graphVars
<1>13. CASE ClearCleanup(a)
  BY <1>13, CleanServices, JournalMove DEF ClearCleanup, graphVars
<1>14. QED BY <1>1, <1>2, <1>3, <1>4, <1>5, <1>6, <1>7, <1>8, <1>9, <1>10, <1>11, <1>12, <1>13

(* A Seal request: it writes to its own part of the journal only.          *)
LEMMA JournalSealer ==
  ASSUME Inv, JournalInv, NEW s \in Sealers, UNCHANGED <<pc, stage2>>,
         node'.services \in {node.services, None},
         \A t \in Sealers \ {s} : spc'[t] = spc[t],
         \A p \in (Attempts \cup Sealers) \ {s} : journal'[p] = journal[p],
         SealRecorded(spc'[s], journal'[s])
  PROVE  JournalInv'
<1>1. ASSUME NEW a \in Attempts
      PROVE  Recorded(pc'[a], stage2'[a], node'.services = a, journal'[a])
  <2>1. journal'[a] = journal[a] BY ConstantsAssumption
  <2>2. node'.services = a => node.services = a BY NoneAssumption
  <2>3. Recorded(pc[a], stage2[a], node.services = a, journal[a]) BY DEF JournalInv
  <2>4. QED BY <2>1, <2>2, <2>3 DEF Recorded
<1>2. ASSUME NEW t \in Sealers PROVE SealRecorded(spc'[t], journal'[t])
  BY DEF JournalInv
<1>3. QED BY <1>1, <1>2 DEF JournalInv

LEMMA JournalSealers ==
  ASSUME Inv, JournalInv, NEW s \in Sealers, SealBegin(s) \/ SealStep(s)
  PROVE  JournalInv'
<1> USE DEF SGo, nodeVars, attemptVars, graphVars, SealRecorded, AfterClose
<1>1. SealRecorded(spc[s], journal[s]) BY DEF JournalInv
<1> USE DEF Inv, TypeOK
<1>2. CASE SealBegin(s)
  BY <1>1, <1>2, JournalSealer DEF SealBegin
<1>3. CASE SealCheck(s)
  BY <1>1, <1>3, JournalSealer DEF SealCheck
<1>4. CASE SealRecord(s)
  <2>1. PICK ok \in BOOLEAN : /\ SGo(s, "recording", IF ok THEN "closing" ELSE "refused")
                              /\ Write(s, "seal_received", ok)
    BY <1>4 DEF SealRecord
  <2>2. PICK landed \in BOOLEAN :
           /\ ok => landed
           /\ journal' = [journal EXCEPT ![s] = IF landed THEN journal[s] \cup {"seal_received"}
                                                         ELSE journal[s]]
    BY <2>1 DEF Write
  <2>3. /\ spc'[s] = IF ok THEN "closing" ELSE "refused"
        /\ \A t \in Sealers \ {s} : spc'[t] = spc[t]
        /\ journal'[s] = IF landed THEN journal[s] \cup {"seal_received"} ELSE journal[s]
        /\ \A p \in (Attempts \cup Sealers) \ {s} : journal'[p] = journal[p]
    BY <2>1, <2>2
  <2>4. SealRecorded(spc'[s], journal'[s]) BY <2>2, <2>3
  <2>5. UNCHANGED <<pc, stage2, node>> BY <1>4 DEF SealRecord
  <2>6. QED BY <2>3, <2>4, <2>5, JournalSealer
<1>5. CASE SealClose(s)
  <2>1. sseen[s] \in Nodes OBVIOUS
  <2>2. node'.services \in {node.services, None}
    BY <1>5, <2>1, SealFields DEF SealClose, Install, Fields
  <2>3. QED BY <1>1, <1>5, <2>2, JournalSealer DEF SealClose
<1>6. CASE SealRelease(s)
  BY <1>1, <1>6, JournalSealer DEF SealRelease
<1>7. CASE SealReport(s)
  <2>1. PICK ok \in BOOLEAN, record \in Records :
           /\ SGo(s, "reporting", IF sfailed[s] \/ ~ok THEN "failing" ELSE "clearing")
           /\ Write(s, record, ok)
    BY <1>7 DEF SealReport, Records
  <2>2. PICK landed \in BOOLEAN :
           journal' = [journal EXCEPT ![s] = IF landed THEN journal[s] \cup {record} ELSE journal[s]]
    BY <2>1 DEF Write
  <2>3. /\ \A t \in Sealers \ {s} : spc'[t] = spc[t]
        /\ journal[s] \subseteq journal'[s]
        /\ \A p \in (Attempts \cup Sealers) \ {s} : journal'[p] = journal[p]
    BY <2>1, <2>2
  <2>4. SealRecorded(spc'[s], journal'[s])
    <3>1. "seal_received" \in journal[s] BY <1>1, <2>1
    <3>2. QED BY <2>3, <3>1
  <2>5. UNCHANGED <<pc, stage2, node>> BY <1>7 DEF SealReport
  <2>6. QED BY <2>3, <2>4, <2>5, JournalSealer
<1>8. CASE SealEnd(s)
  <2>1. sseen[s] \in Nodes OBVIOUS
  <2>2. node'.services \in {node.services, None}
    <3>1. CASE CompleteCleanup(SealedNode(s).gen) BY <3>1, CleanServices
    <3>2. CASE Install(SealFailed(SealedNode(s)))
      BY <2>1, <3>2, SealFields DEF Install, Fields, SealedNode
    <3>3. QED BY <1>8, <3>1, <3>2 DEF SealEnd
  <2>3. QED BY <1>1, <1>8, <2>2, JournalSealer DEF SealEnd
<1>9. QED BY <1>2, <1>3, <1>4, <1>5, <1>6, <1>7, <1>8 DEF SealStep

LEMMA JournalOthers ==
  ASSUME Inv, JournalInv,
         \/ \E a \in Attempts : Stage2Returns(a)
         \/ \E u \in Users : Finish(u) \/ \E a \in Attempts : Borrow(u, a)
         \/ Elapse \/ UNCHANGED vars
  PROVE  JournalInv'
<1>1. CASE \E a \in Attempts : Stage2Returns(a)
  <2>1. PICK a \in Attempts : Stage2Returns(a) BY <1>1
  <2>2. /\ stage2[a] = "running" /\ \A b \in Attempts \ {a} : stage2'[b] = stage2[b]
        /\ UNCHANGED <<node, journal, spc, pc>>
    BY <2>1 DEF Stage2Returns, nodeVars, attemptVars, sealerVars, Inv, TypeOK
  <2>3. \A b \in Attempts : Recorded(pc[b], stage2[b], node.services = b, journal[b])
    BY DEF JournalInv
  <2>4. Recorded(pc'[a], stage2'[a], node'.services = a, journal'[a])
    BY <2>2, <2>3 DEF Recorded
  <2>5. QED BY <2>2, <2>4, JournalLocal
<1>2. CASE UNCHANGED <<node, journal, spc, pc, stage2>> BY <1>2 DEF JournalInv
<1>3. QED BY <1>1, <1>2 DEF Finish, Borrow, Elapse, vars, nodeVars, attemptVars, graphVars,
                            sealerVars

LEMMA JournalRestart == ASSUME Inv, JournalInv, Restart PROVE JournalInv'
<1>1. ASSUME NEW a \in Attempts
      PROVE  Recorded(pc'[a], stage2'[a], node'.services = a, journal'[a])
  <2>1. pc'[a] = (IF pc[a] \in {"idle"} \cup EndedPcs THEN pc[a] ELSE "dead")
        /\ stage2'[a] = "none" /\ journal' = journal /\ node'.services # a
    BY NoneAssumption DEF Restart, BootNode
  <2>2. Recorded(pc[a], stage2[a], node.services = a, journal[a]) BY DEF JournalInv
  <2>3. /\ pc'[a] \notin Verified \cup {"publishing"}
        /\ pc'[a] \in Undecided => pc[a] \in Undecided
    BY <2>1 DEF Verified, HolderPcs, EndedPcs, Undecided
  <2>4. QED BY <2>1, <2>2, <2>3 DEF Recorded
<1>2. ASSUME NEW s \in Sealers PROVE SealRecorded(spc'[s], journal'[s])
  BY DEF SealRecorded, Restart, AfterClose
<1>3. QED BY <1>1, <1>2 DEF JournalInv

(* The start, and the induction.                                           *)
LEMMA JournalInit == Init => JournalInv
<1> SUFFICES ASSUME Init PROVE JournalInv OBVIOUS
<1>1. \A a \in Attempts : Recorded(pc[a], stage2[a], node.services = a, journal[a])
  BY NoneAssumption DEF Init, BootNode, Recorded, Verified, HolderPcs, Outcomes
<1>2. \A s \in Sealers : SealRecorded(spc[s], journal[s])
  BY DEF Init, SealRecorded, AfterClose
<1>3. QED BY <1>1, <1>2 DEF JournalInv

LEMMA JournalNext == Inv /\ JournalInv /\ [Next]_vars => JournalInv'
  BY JournalWrites, JournalEndings, JournalMoves, JournalSealers, JournalOthers, JournalRestart
  DEF Next, AttemptStep

LEMMA JournalInvariance == Spec => []JournalInv
<1>1. Init => JournalInv BY JournalInit
<1>2. Inv /\ JournalInv /\ [Next]_vars => JournalInv' BY JournalNext
<1>3. QED BY <1>1, <1>2, Invariance, PTL DEF Spec

(* journal.go: no verification without a durable received, no service      *)
(* without a durable success, no closed gate without a durable             *)
(* seal_received, for any number of attempts, Seal requests and restarts.  *)
THEOREM WrittenAhead == Spec => []WriteAhead
<1>1. JournalInv => WriteAhead
  <2>1. "verifying" \in Verified BY DEF Verified, HolderPcs
  <2>2. QED BY <2>1 DEF JournalInv, WriteAhead, Recorded, SealRecorded, AfterClose
<1>2. QED BY <1>1, JournalInvariance, PTL

(* An attempt is reported once: as a success, or as one kind of failure.   *)
THEOREM OneOutcomeEach == Spec => []OneOutcome
<1>1. JournalInv => OneOutcome
  <2> SUFFICES ASSUME JournalInv, NEW a \in Attempts
               PROVE  Cardinality(journal[a] \cap Outcomes) <= 1
    BY DEF OneOutcome
  <2>1. PICK o \in Outcomes : journal[a] \cap Outcomes \subseteq {o}
    BY DEF JournalInv, Recorded
  <2>2. journal[a] \cap Outcomes = {} \/ journal[a] \cap Outcomes = {o} BY <2>1
  <2>3. Cardinality({}) = 0 BY FS_EmptySet
  <2>4. Cardinality({o}) = 1 BY FS_Singleton
  <2>5. QED BY <2>2, <2>3, <2>4
<1>2. QED BY <1>1, JournalInvariance, PTL

-----------------------------------------------------------------------------
(* The limiter and the zombies.                                            *)

(* Nobody asks anew, and what the others were told holds on or is moot.    *)
LEMMA AdmittedStep ==
  ASSUME Inv, Admitted,
         \A b \in Attempts : pc'[b] \in {"loaded", "acquiring"} =>
                               pc'[b] = pc[b] /\ seenPtr'[b] = seenPtr[b],
         \/ ptr' = ptr + 1
         \/ /\ UNCHANGED <<node, ptr>> /\ expired' \in {expired, node.cool}
            /\ backoff' \subseteq backoff \/ node.state = "unsealing"
  PROVE  Admitted'
<1> SUFFICES ASSUME NEW b \in Attempts, seenPtr'[b] = ptr', pc'[b] \in {"loaded", "acquiring"}
             PROVE  /\ ~Cooling(node)'
                    /\ pc'[b] = "acquiring" => SourceOf[b] \notin backoff'
  BY DEF Admitted, Current
<1>1. /\ pc'[b] = pc[b] /\ seenPtr'[b] = seenPtr[b] /\ seenPtr[b] <= ptr
      /\ seenPtr[b] \in Nat /\ ptr \in Nat
  BY DEF Inv, Observers, TypeOK
<1>2. UNCHANGED <<node, ptr>> /\ expired' \in {expired, node.cool}
      /\ (backoff' \subseteq backoff \/ node.state = "unsealing")
  BY <1>1
<1>3. Current(b) BY <1>1, <1>2 DEF Current
<1>4. ~Cooling(node)'
  <2>1. ~Cooling(node) BY <1>1, <1>3 DEF Admitted
  <2>2. expired \in Nat /\ node.cool \in Nat BY DEF Inv, TypeOK, Nodes
  <2>3. QED BY <1>2, <2>1, <2>2 DEF Cooling
<1>5. pc'[b] = "acquiring" => SourceOf[b] \notin backoff'
  <2> SUFFICES ASSUME pc[b] = "acquiring" PROVE SourceOf[b] \notin backoff' BY <1>1
  <2>1. SourceOf[b] \notin backoff BY <1>3 DEF Admitted
  <2>2. node.state # "unsealing" BY <1>3 DEF Inv, Askers, Observers, Blocked, Current
  <2>3. QED BY <1>2, <2>1, <2>2
<1>6. QED BY <1>4, <1>5

(* An attempt's step moves that attempt only.                              *)
LEMMA MovesAlone ==
  ASSUME Inv, NEW a \in Attempts, Load(a) \/ AttemptStep(a), NEW b \in Attempts, pc'[b] # pc[b]
  PROVE  b = a
<1>1. \E from, to : Go(a, from, to)
  BY DEF AttemptStep, Load, AskLimiter, Acquire, WriteReceived, AbortPrePrepare, BeginVerify,
         Verify, WriteAborted, AbortPostPrepare, WriteMaterialFailure, RecordMaterialFailure,
         MaterialFailure, AwaitStage2, WriteTimeout, TimedOut, Reap, WriteInitFailed,
         InitFailure, WriteSuccess, Publish, WritePublished, RecordSuccess, CloseGraph,
         ReleaseGraph, DrainTimesOut, ClearCleanup, Unpublished, WriteStep, CasStep
<1>2. QED BY <1>1 DEF Go, Inv, TypeOK

(* Short of a restart, nobody but the attempt itself moves its goroutine.  *)
LEMMA OwnStep ==
  ASSUME Inv, [Next]_vars, NEW a \in Attempts, pc'[a] # pc[a]
  PROVE  \/ Load(a) \/ AttemptStep(a)
         \/ Restart
<1>1. \/ \E b \in Attempts : Load(b) \/ AttemptStep(b)
      \/ Restart
  BY DEF Next, Stage2Returns, attemptVars, SealBegin, SealStep, SealCheck, SealRecord,
         SealClose, SealRelease, SealReport, SealEnd, Finish, Borrow, Elapse, vars, TypeOK
<1>2. ASSUME NEW b \in Attempts, Load(b) \/ AttemptStep(b) PROVE Load(a) \/ AttemptStep(a)
  BY <1>2, MovesAlone
<1>3. QED BY <1>1, <1>2

(* Where an attempt's step starts.                                         *)
LEMMA StepFrom ==
  ASSUME NEW a \in Attempts, Load(a) \/ AttemptStep(a)
  PROVE  /\ pc[a] = "acquiring" => Acquire(a)
         /\ pc[a] \in SettledPcs =>
              \/ Reap(a) \/ CloseGraph(a) \/ ReleaseGraph(a) \/ DrainTimesOut(a)
              \/ ClearCleanup(a) \/ WritePublished(a) \/ RecordSuccess(a)
  BY DEF AttemptStep, Load, AskLimiter, Acquire, WriteReceived, AbortPrePrepare, BeginVerify, Verify,
         WriteAborted, AbortPostPrepare, WriteMaterialFailure, RecordMaterialFailure,
         MaterialFailure, AwaitStage2, WriteTimeout, TimedOut, Reap, WriteInitFailed,
         InitFailure, WriteSuccess, Publish, WritePublished, RecordSuccess, CloseGraph,
         ReleaseGraph, DrainTimesOut, ClearCleanup, Unpublished, WriteStep, CasStep, Go, SettledPcs

(* Each attempt's step, then the others.                                   *)
LEMMA AdmittedAttempt ==
  ASSUME Inv, Admitted, NEW a \in Attempts, Load(a) \/ AttemptStep(a)
  PROVE  Admitted'
<1> USE DEF Go, nodeVars, limiterVars, Inv, TypeOK
<1>1. CASE Load(a)
  <2>1. pc' = [pc EXCEPT ![a] = IF Cooling(node) THEN "rejected" ELSE "loaded"]
        /\ UNCHANGED <<node, ptr, expired, backoff>>
        /\ \A b \in Attempts \ {a} : seenPtr'[b] = seenPtr[b]
    BY <1>1 DEF Load
  <2>2. QED BY <2>1 DEF Admitted, Current, Cooling
<1>2. CASE AskLimiter(a)
  <2>1. /\ pc[a] = "loaded"
        /\ pc' = [pc EXCEPT ![a] = IF SourceOf[a] \in backoff \/ Blocked(seen[a])
                                   THEN "rejected" ELSE "acquiring"]
        /\ UNCHANGED <<node, ptr, expired, backoff, seenPtr>>
    BY <1>2 DEF AskLimiter
  <2>2. QED BY <2>1 DEF Admitted, Current, Cooling
<1>3. CASE Acquire(a)
  <2>1. pc'[a] \in {"prepare", "rejected"} /\ \A b \in Attempts \ {a} : pc'[b] = pc[b] /\ seenPtr'[b] = seenPtr[b]
    BY <1>3 DEF Acquire
  <2>2. ptr' = ptr + 1 \/ UNCHANGED <<node, ptr, expired, backoff>>
    BY <1>3 DEF Acquire, Install
  <2>3. QED BY <2>1, <2>2, AdmittedStep
<1>4. ASSUME NEW from, NEW record, NEW acked, NEW lost,
             {acked, lost} \cap {"loaded", "acquiring"} = {},
             WriteStep(a, from, record, acked, lost)
      PROVE  Admitted'
  BY <1>4, AdmittedStep DEF WriteStep
<1>5. CASE \/ WriteReceived(a) \/ WriteAborted(a) \/ WriteMaterialFailure(a)
           \/ WriteTimeout(a) \/ WriteInitFailed(a) \/ WriteSuccess(a) \/ WritePublished(a)
  BY <1>4, <1>5 DEF WriteReceived, WriteAborted, WriteMaterialFailure, WriteTimeout,
                    WriteInitFailed, WriteSuccess, WritePublished
<1>6. ASSUME NEW from, NEW n, NEW to, to \notin {"loaded", "acquiring"}, CasStep(a, from, n, to)
      PROVE  Admitted'
  <2>1. ptr' = ptr + 1 \/ UNCHANGED <<node, ptr>> BY <1>6 DEF CasStep, Cas, Install
  <2>2. QED BY <1>6, <2>1, AdmittedStep DEF CasStep
<1>7. CASE \/ AbortPrePrepare(a) \/ AbortPostPrepare(a) \/ MaterialFailure(a) \/ TimedOut(a)
           \/ Reap(a) \/ InitFailure(a) \/ Publish(a) \/ Unpublished(a)
  <2>1. CASE AbortPrePrepare(a) BY <1>6, <2>1 DEF AbortPrePrepare
  <2>2. CASE AbortPostPrepare(a) BY <1>6, <2>2 DEF AbortPostPrepare
  <2>3. CASE MaterialFailure(a)
    <3>1. PICK from \in HolderPcs, armed \in BOOLEAN : CasStep(a, from, MaterialBad(seen[a], armed), "failed")
      BY <2>3 DEF MaterialFailure, HolderPcs
    <3>2. QED BY <1>6, <3>1
  <2>4. CASE TimedOut(a) BY <1>6, <2>4 DEF TimedOut
  <2>5. CASE Reap(a) BY <1>6, <2>5 DEF Reap
  <2>6. CASE InitFailure(a) BY <1>6, <2>6 DEF InitFailure
  <2>7. CASE Publish(a) BY <1>6, <2>7 DEF Publish
  <2>8. CASE Unpublished(a) BY <1>6, <2>8 DEF Unpublished
  <2>9. QED BY <1>7, <2>1, <2>2, <2>3, <2>4, <2>5, <2>6, <2>7, <2>8
<1>8. CASE \/ BeginVerify(a) \/ Verify(a) \/ AwaitStage2(a)
           \/ CloseGraph(a) \/ ReleaseGraph(a) \/ DrainTimesOut(a)
  <2>1. /\ pc'[a] \notin {"loaded", "acquiring"}
        /\ \A b \in Attempts \ {a} : pc'[b] = pc[b]
        /\ UNCHANGED <<node, ptr, expired, backoff, seenPtr>>
    BY <1>8 DEF BeginVerify, Verify, AwaitStage2, CloseGraph, ReleaseGraph, DrainTimesOut
  <2>2. QED BY <2>1, AdmittedStep
<1>9. CASE RecordMaterialFailure(a)
  <2>1. /\ pc[a] = "counting" /\ pc'[a] \notin {"loaded", "acquiring"}
        /\ \A b \in Attempts \ {a} : pc'[b] = pc[b]
        /\ UNCHANGED <<node, ptr, expired, seenPtr>>
    BY <1>9 DEF RecordMaterialFailure
  <2>2. node.state = "unsealing" BY <2>1 DEF HolderOwnsNode, Holder, HolderPcs
  <2>3. QED BY <2>1, <2>2, AdmittedStep
<1>10. CASE RecordSuccess(a)
  <2>1. /\ pc'[a] \notin {"loaded", "acquiring"}
        /\ \A b \in Attempts \ {a} : pc'[b] = pc[b]
        /\ UNCHANGED <<node, ptr, expired, seenPtr>> /\ backoff' \subseteq backoff
    BY <1>10 DEF RecordSuccess
  <2>2. QED BY <2>1, AdmittedStep
<1>11. CASE ClearCleanup(a)
  <2>1. ptr' = ptr + 1 \/ UNCHANGED <<node, ptr>>
    BY <1>11 DEF ClearCleanup, CompleteCleanup, Install
  <2>2. QED BY <1>11, <2>1, AdmittedStep DEF ClearCleanup
<1>12. QED BY <1>1, <1>2, <1>3, <1>5, <1>7, <1>8, <1>9, <1>10, <1>11 DEF AttemptStep

LEMMA AdmittedNext == Inv /\ Admitted /\ [Next]_vars => Admitted'
<1> SUFFICES ASSUME Inv, Admitted, [Next]_vars PROVE Admitted' OBVIOUS
<1> USE DEF nodeVars, attemptVars, limiterVars
<1>1. CASE \E a \in Attempts : Load(a) \/ AttemptStep(a) BY <1>1, AdmittedAttempt
<1>2. CASE \E s \in Sealers : SealBegin(s) \/ SealStep(s)
  <2>1. PICK s \in Sealers : SealBegin(s) \/ SealStep(s) BY <1>2
  <2>2. UNCHANGED <<pc, seenPtr, expired, backoff>>
    BY <2>1 DEF SealStep, SealBegin, SealCheck, SealRecord, SealClose, SealRelease,
                SealReport, SealEnd
  <2>3. ptr' = ptr + 1 \/ UNCHANGED <<node, ptr>>
    BY <2>1 DEF SealStep, SealBegin, SealCheck, SealRecord, SealClose, SealRelease,
                SealReport, SealEnd, CompleteCleanup, Install
  <2>4. QED BY <2>2, <2>3, AdmittedStep
<1>3. CASE \/ \E a \in Attempts : Stage2Returns(a)
           \/ \E u \in Users : Finish(u) \/ \E a \in Attempts : Borrow(u, a)
           \/ UNCHANGED vars
  BY <1>3, AdmittedStep DEF Stage2Returns, Finish, Borrow, vars
<1>4. CASE Elapse
  <2>1. UNCHANGED <<pc, seenPtr, node, ptr>> /\ expired' \in {expired, node.cool}
        /\ backoff' \subseteq backoff
    BY <1>4 DEF Elapse
  <2>2. QED BY <2>1, AdmittedStep
<1>5. CASE Restart
  BY <1>5, AdmittedStep DEF Restart, EndedPcs, Inv, TypeOK
<1>6. QED BY <1>1, <1>2, <1>3, <1>4, <1>5 DEF Next

LEMMA AdmittedInvariance == Spec => []Admitted
<1>1. Init => Admitted BY DEF Init, Admitted
<1>2. QED BY <1>1, AdmittedNext, Invariance, PTL DEF Spec

(* acquire reads node and limiter before its compare-and-swap; a swap that *)
(* succeeds still has them on its side.                                    *)
THEOREM LimiterIsHonoured == Spec => LimiterHonoured
<1>1. ASSUME Inv, Admitted, [Next]_vars, NEW a \in Attempts,
             pc[a] = "acquiring", pc'[a] = "prepare"
      PROVE  SourceOf[a] \notin backoff /\ ~Cooling(node)
  <2>1. Acquire(a)
    BY <1>1, OwnStep, StepFrom DEF Restart, EndedPcs, Inv, TypeOK
  <2>2. Current(a) BY <1>1, <2>1 DEF Acquire, Go, Inv, TypeOK
  <2>3. QED BY <1>1, <2>2 DEF Admitted
<1>2. Inv /\ Admitted /\ [Next]_vars =>
        [\A a \in Attempts : pc[a] = "acquiring" /\ pc'[a] = "prepare"
             => SourceOf[a] \notin backoff /\ ~Cooling(node)]_vars
  BY <1>1
<1>3. QED BY <1>2, Invariance, AdmittedInvariance, PTL DEF Spec, LimiterHonoured

(* What a goroutine, its zombie and its rollback still do once the machine *)
(* has moved on does not reach the node, but for the token they clear.     *)
THEOREM ZombiesDoNoHarm == Spec => ZombiesAreHarmless
<1> DEFINE Harmless(a) ==
             \/ node' = node
             \/ node.cleanup = Gen(a) /\ node' = [node EXCEPT !.cleanup = 0]
<1>1. ASSUME Inv, [Next]_vars, NEW a \in Attempts,
             pc[a] \in SettledPcs, pc'[a] # pc[a], boots' = boots
      PROVE  Harmless(a)
  <2>1. Load(a) \/ AttemptStep(a)
    <3>1. boots \in Nat BY <1>1 DEF Inv, TypeOK
    <3>2. ~Restart BY <1>1, <3>1 DEF Restart
    <3>3. QED BY <1>1, <3>2, OwnStep
  <2>2. CASE Reap(a)
    BY <1>1, <2>2 DEF Reap, CasStep, Cas, Go, Inv, Zombies, nodeVars
  <2>3. CASE ClearCleanup(a)
    BY <1>1, <2>3, CleanFields DEF ClearCleanup, CompleteCleanup, Install, nodeVars, Inv, TypeOK
  <2>4. CASE \/ CloseGraph(a) \/ ReleaseGraph(a) \/ DrainTimesOut(a)
             \/ WritePublished(a) \/ RecordSuccess(a)
    BY <2>4 DEF CloseGraph, ReleaseGraph, DrainTimesOut, WritePublished, WriteStep,
                RecordSuccess, nodeVars
  <2>5. QED BY <1>1, <2>1, <2>2, <2>3, <2>4, StepFrom
<1>2. Inv /\ [Next]_vars =>
        [\A a \in Attempts :
           pc[a] \in SettledPcs /\ pc'[a] # pc[a] /\ boots' = boots => Harmless(a)]_vars
  BY <1>1
<1>3. QED BY <1>2, Invariance, PTL DEF Spec, ZombiesAreHarmless

-----------------------------------------------------------------------------
(* One live graph.  While one attempt holds the unsealing, or one serves,  *)
(* or nothing is to be cleaned up, nobody else has a live graph.           *)
LEMMA HolderAlone ==
  ASSUME Inv, GraphInv, NEW a \in Attempts, Holder(a), NEW b \in Attempts, Live(b)
  PROVE  b = a
<1>1. node.state = "unsealing" /\ node.cleanup = 0
  BY DEF Inv, HolderOwnsNode, GraphInv, Tokens
<1>2. Gen(b) > 0 BY DEF GraphInv, Generations, Counted
<1>3. Holder(b) BY <1>1, <1>2 DEF GraphInv, Owned, UnderSeal
<1>4. QED BY <1>3 DEF Inv, HolderOwnsNode

(* Where nothing is to be cleaned up, only who serves has a live graph.    *)
LEMMA ServedAlone ==
  ASSUME Inv, GraphInv, node.state # "unsealing", node.cleanup = 0, NEW b \in Attempts, Live(b)
  PROVE  node.state = "unsealed" /\ node.services = b
<1>1. ~Holder(b) BY DEF Inv, HolderOwnsNode
<1>2. Gen(b) > 0 BY DEF GraphInv, Generations, Counted
<1>3. QED BY <1>1, <1>2 DEF GraphInv, Owned, UnderSeal

(* Most steps give no generation, take no graph over and leave the token.  *)
Aged ==
  /\ \A a \in Attempts : Counted(a)' => Counted(a) /\ seen'[a] = seen[a]
  /\ \A s \in Sealers : spc'[s] \in AfterClose => spc[s] \in AfterClose /\ sseen'[s] = sseen[s]
  /\ node'.gen \in Nat /\ node'.gen >= node.gen

(* Generations stay unique in a step that gives none.                      *)
LEMMA GenerationsKept ==
  ASSUME Inv, Generations, Aged
  PROVE  Generations'
<1>1. /\ \A a \in Attempts : Gen(a) \in Nat
      /\ \A s \in Sealers : sseen[s].gen \in Nat
      /\ node.gen \in Nat
  BY DEF Inv, TypeOK, Nodes, Gen
<1>2. \A a \in Attempts : Counted(a)' => Counted(a) /\ Gen(a)' = Gen(a) BY DEF Aged, Gen
<1>3. \A a \in Attempts : Counted(a)' => Gen(a)' > 0 /\ Gen(a)' <= node'.gen
  BY <1>1, <1>2 DEF Aged, Generations
<1>4. \A a, b \in Attempts : Counted(a)' /\ Counted(b)' /\ Gen(a)' = Gen(b)' => a = b
  BY <1>2 DEF Generations
<1>5. \A s \in Sealers : spc'[s] \in AfterClose =>
         /\ sseen'[s].gen + 1 <= node'.gen
         /\ \A a \in Attempts : Counted(a)' => Gen(a)' # sseen'[s].gen + 1
  BY <1>1, <1>2 DEF Aged, Generations
<1>6. QED BY <1>3, <1>4, <1>5 DEF Generations

Steady ==
  /\ Aged
  /\ node'.gen = node.gen /\ node'.cleanup = node.cleanup /\ node'.services = node.services
  /\ node'.state = node.state \/ {node.state, node'.state} \subseteq {"sealed", "sealed-faulted"}
  /\ \A a \in Attempts :
       /\ Holder(a)' <=> Holder(a)
       /\ pc'[a] \in SettledPcs => pc[a] \in SettledPcs
       /\ pc'[a] \in Serving <=> pc[a] \in Serving
       /\ Live(a)' => Live(a) \/ Holder(a)
       /\ node.state = "unsealed" /\ node.services = a => graph'[a] = graph[a]

(* A step that takes nothing over keeps the owners of the live graphs.     *)
LEMMA SteadyKeeps ==
  ASSUME Inv, GraphInv, Steady
  PROVE  Tokens' /\ Generations' /\ (\A a \in Attempts : Live(a)' => Owned(a)') /\ OneLiveGraph'
<1>1. Tokens' BY DEF GraphInv, Tokens, Steady
<1>2. Generations' BY GenerationsKept DEF GraphInv, Steady
<1>3. ASSUME NEW a \in Attempts, Live(a)' PROVE Owned(a)'
  <2>1. CASE Holder(a) BY <2>1 DEF Steady, Owned
  <2>2. CASE Live(a) /\ ~Holder(a)
    <3>1. Counted(a)' BY <1>3 DEF Counted
    <3>2. Gen(a)' = Gen(a) BY <3>1 DEF Steady, Aged, Gen
    <3>3. UnderSeal(a) => UnderSeal(a)'
      <4>1. \A b \in Attempts : pc'[b] \in SettledPcs => pc[b] \in SettledPcs /\ Gen(b)' = Gen(b)
        BY DEF Steady, Aged, Counted, Gen
      <4>2. QED BY <4>1 DEF UnderSeal, Steady, Aged
    <3>4. Owned(a) BY <2>2 DEF GraphInv
    <3>5. QED BY <2>2, <3>2, <3>3, <3>4 DEF Owned, Steady
  <2>3. QED BY <1>3, <2>1, <2>2 DEF Steady
<1>4. ASSUME NEW a \in Attempts, NEW b \in Attempts, Live(a)', Live(b)' PROVE a = b
  <2>1. CASE Live(a) /\ Live(b) BY <2>1 DEF GraphInv, OneLiveGraph
  <2>2. CASE Holder(a) \/ Holder(b)
    <3>1. Live(a) \/ Holder(a) BY <1>4 DEF Steady
    <3>2. Live(b) \/ Holder(b) BY <1>4 DEF Steady
    <3>3. QED BY <2>2, <3>1, <3>2, HolderAlone DEF Inv, HolderOwnsNode
  <2>3. QED BY <1>4, <2>1, <2>2 DEF Steady
<1>5. QED BY <1>1, <1>2, <1>3, <1>4 DEF OneLiveGraph

(* When nobody's graph is live any more, nothing is owed.                  *)
LEMMA NobodyLive ==
  ASSUME \A a \in Attempts : ~Live(a)'
  PROVE  (\A a \in Attempts : Live(a)' => Owned(a)') /\ OneLiveGraph'
  BY DEF OneLiveGraph

-----------------------------------------------------------------------------
(* An attempt's step, seen from the graphs.                                *)
Frame(a) ==
  /\ UNCHANGED <<spc, sseen, sseenPtr, sfailed, sealBusy>>
  /\ \A b \in Attempts \ {a} : /\ pc'[b] = pc[b] /\ seen'[b] = seen[b]
                               /\ stage2'[b] = stage2[b] /\ graph'[b] = graph[b]
                               /\ closed'[b] = closed[b]

(* An attempt's step leaves the other actors alone.                        *)
LEMMA AttemptFrame ==
  ASSUME Inv, NEW a \in Attempts, Load(a) \/ AttemptStep(a)
  PROVE  Frame(a)
<1> USE DEF Inv, TypeOK, sealerVars, graphVars, gateVars, Go, Frame
<1>1. ASSUME NEW from, NEW record, NEW acked, NEW lost, WriteStep(a, from, record, acked, lost)
      PROVE  Frame(a)
  BY <1>1 DEF WriteStep
<1>2. ASSUME NEW from, NEW n, NEW to, CasStep(a, from, n, to) PROVE Frame(a)
  BY <1>2 DEF CasStep
<1>3. CASE \/ WriteReceived(a) \/ WriteAborted(a) \/ WriteMaterialFailure(a)
           \/ WriteTimeout(a) \/ WriteInitFailed(a) \/ WriteSuccess(a) \/ WritePublished(a)
  BY <1>1, <1>3 DEF WriteReceived, WriteAborted, WriteMaterialFailure, WriteTimeout,
                    WriteInitFailed, WriteSuccess, WritePublished
<1>4. CASE \/ AbortPrePrepare(a) \/ AbortPostPrepare(a) \/ MaterialFailure(a) \/ TimedOut(a)
           \/ Reap(a) \/ InitFailure(a) \/ Publish(a) \/ Unpublished(a)
  <2> USE <1>2
  <2>1. CASE AbortPrePrepare(a) BY <2>1 DEF AbortPrePrepare
  <2>2. CASE AbortPostPrepare(a) BY <2>2 DEF AbortPostPrepare
  <2>3. CASE MaterialFailure(a)
    <3>1. PICK from \in HolderPcs, armed \in BOOLEAN : CasStep(a, from, MaterialBad(seen[a], armed), "failed")
      BY <2>3 DEF MaterialFailure, HolderPcs
    <3>2. QED BY <3>1
  <2>4. CASE TimedOut(a) BY <2>4 DEF TimedOut
  <2>5. CASE Reap(a) BY <2>5 DEF Reap
  <2>6. CASE InitFailure(a) BY <2>6 DEF InitFailure
  <2>7. CASE Publish(a) BY <2>7 DEF Publish
  <2>8. CASE Unpublished(a) BY <2>8 DEF Unpublished
  <2>9. QED BY <1>4, <2>1, <2>2, <2>3, <2>4, <2>5, <2>6, <2>7, <2>8
<1>5. CASE \/ Load(a) \/ AskLimiter(a) \/ Acquire(a) \/ BeginVerify(a) \/ Verify(a)
           \/ RecordMaterialFailure(a) \/ AwaitStage2(a) \/ RecordSuccess(a) \/ CloseGraph(a)
           \/ ReleaseGraph(a) \/ DrainTimesOut(a) \/ ClearCleanup(a)
  BY <1>5 DEF Load, AskLimiter, Acquire, BeginVerify, Verify, RecordMaterialFailure,
              AwaitStage2, RecordSuccess, CloseGraph, ReleaseGraph, DrainTimesOut, ClearCleanup
<1>6. QED BY <1>3, <1>4, <1>5 DEF AttemptStep

(* What of Graphs and Sealing is the attempt's own.                        *)
LEMMA GraphsKept ==
  ASSUME Graphs, NEW a \in Attempts, Frame(a),
         Built(pc'[a], stage2'[a], graph'[a], closed'[a])
  PROVE  Graphs'
<1>1. ASSUME NEW b \in Attempts PROVE Built(pc'[b], stage2'[b], graph'[b], closed'[b])
  BY DEF Graphs, Frame
<1>2. QED BY <1>1 DEF Graphs

(* What it leaves of the Seal requests.                                    *)
LEMMA SealingKept ==
  ASSUME Sealing, NEW a \in Attempts, Frame(a),
         pc[a] \in Serving => pc'[a] \in Serving /\ graph'[a] = graph[a] /\ closed'[a] = closed[a],
         \/ node'.services \in {node.services, None}
         \/ node'.services = a /\ pc[a] \notin Serving
  PROVE  Sealing'
<1>1. ASSUME NEW s \in Sealers, spc[s] \in AfterClose
      PROVE  LET g == sseen[s].services IN
             /\ g \in Attempts /\ pc'[g] \in Serving /\ graph'[g] = graph[g]
             /\ closed'[g] = closed[g] /\ node'.services # g
  BY <1>1, NoneAssumption DEF Sealing, Frame
<1>2. QED BY <1>1 DEF Sealing, Frame

-----------------------------------------------------------------------------
(* The steps of an attempt that leave the node alone.                      *)
LEMMA Moved ==
  ASSUME Inv, GraphInv, NEW a \in Attempts, Frame(a), UNCHANGED node,
         seen'[a] = seen[a] \/ (pc[a] = "idle" /\ pc'[a] \in {"loaded", "rejected"}),
         Holder(a)' <=> Holder(a),
         pc'[a] \in SettledPcs => pc[a] \in SettledPcs,
         pc'[a] \in Serving <=> pc[a] \in Serving,
         Live(a)' => Live(a) \/ Holder(a),
         pc[a] \in Serving => graph'[a] = graph[a] /\ closed'[a] = closed[a],
         Built(pc'[a], stage2'[a], graph'[a], closed'[a])
  PROVE  GraphInv'
<1>1. Graphs' BY GraphsKept DEF GraphInv
<1>2. Sealing' BY SealingKept DEF GraphInv
<1>3. Steady
  <2>1. Counted(a)' => Counted(a) /\ seen'[a] = seen[a]
    <3>1. CASE seen'[a] = seen[a] BY <3>1 DEF Counted, Holder
    <3>2. CASE pc[a] = "idle" /\ pc'[a] \in {"loaded", "rejected"}
      <4>1. graph'[a] = "none" BY <3>2 DEF Built, Unbuilt
      <4>2. QED BY <3>2, <4>1 DEF Counted, Live, HolderPcs, SettledPcs
    <3>3. QED BY <3>1, <3>2
  <2>2. Aged
    <3>1. node.gen \in Nat BY DEF Inv, TypeOK, Nodes
    <3>2. QED BY <2>1, <3>1 DEF Aged, Frame, Counted, Live
  <2>3. \A b \in Attempts :
          /\ Holder(b)' <=> Holder(b)
          /\ pc'[b] \in SettledPcs => pc[b] \in SettledPcs
          /\ pc'[b] \in Serving <=> pc[b] \in Serving
          /\ Live(b)' => Live(b) \/ Holder(b)
          /\ pc[b] \in Serving => graph'[b] = graph[b]
    BY DEF Frame, Holder, Live
  <2>4. QED BY <2>2, <2>3 DEF Steady, GraphInv, Tokens
<1>4. QED BY <1>1, <1>2, <1>3, SteadyKeeps DEF GraphInv

(* ... that move the goroutine and nothing else.                           *)
LEMMA GoMoves ==
  ASSUME Inv, GraphInv, NEW a \in Attempts, Frame(a), NEW from, NEW to, Go(a, from, to),
         UNCHANGED <<node, seen, graphVars, closed>>,
         from \in HolderPcs <=> to \in HolderPcs,
         to \in SettledPcs => from \in SettledPcs,
         to \in Serving <=> from \in Serving,
         Built(from, stage2[a], graph[a], closed[a]) => Built(to, stage2[a], graph[a], closed[a])
  PROVE  GraphInv'
<1>1. pc[a] = from /\ pc'[a] = to BY DEF Go, Inv, TypeOK
<1>2. stage2' = stage2 /\ graph' = graph BY DEF graphVars
<1>3. Built(pc'[a], stage2'[a], graph'[a], closed'[a]) BY <1>1, <1>2 DEF GraphInv, Graphs
<1>4. QED BY <1>1, <1>2, <1>3, Moved DEF Holder, Live

(* Each kind of step of an attempt: writes, moves, building, endings,      *)
(* clearing the token.                                                     *)
LEMMA WriteMoves ==
  ASSUME Inv, GraphInv, NEW a \in Attempts, Frame(a), NEW from, NEW record, NEW acked, NEW lost,
         WriteStep(a, from, record, acked, lost),
         \A to \in {acked, lost} :
           /\ from \in HolderPcs <=> to \in HolderPcs
           /\ to \in SettledPcs => from \in SettledPcs
           /\ to \in Serving <=> from \in Serving
           /\ Built(from, stage2[a], graph[a], closed[a]) => Built(to, stage2[a], graph[a], closed[a])
  PROVE  GraphInv'
<1>1. PICK ok \in BOOLEAN : Go(a, from, IF ok THEN acked ELSE lost) BY DEF WriteStep
<1>2. UNCHANGED <<node, seen, graphVars, closed>> BY DEF WriteStep, nodeVars, gateVars
<1>3. QED BY <1>1, <1>2, GoMoves

LEMMA GraphWrites ==
  ASSUME Inv, GraphInv, NEW a \in Attempts,
         \/ WriteReceived(a) \/ WriteAborted(a) \/ WriteMaterialFailure(a)
         \/ WriteTimeout(a) \/ WriteInitFailed(a) \/ WriteSuccess(a) \/ WritePublished(a)
  PROVE  GraphInv'
<1> USE DEF HolderPcs, SettledPcs, Serving, Built, Unbuilt, Building
<1>0. Frame(a) BY AttemptFrame DEF AttemptStep
<1>1. CASE WriteReceived(a) BY <1>0, <1>1, WriteMoves DEF WriteReceived
<1>2. CASE WriteAborted(a) BY <1>0, <1>2, WriteMoves DEF WriteAborted
<1>3. CASE WriteMaterialFailure(a) BY <1>0, <1>3, WriteMoves DEF WriteMaterialFailure
<1>4. CASE WriteTimeout(a) BY <1>0, <1>4, WriteMoves DEF WriteTimeout
<1>5. CASE WriteInitFailed(a) BY <1>0, <1>5, WriteMoves DEF WriteInitFailed
<1>6. CASE WriteSuccess(a) BY <1>0, <1>6, WriteMoves DEF WriteSuccess
<1>7. CASE WritePublished(a) BY <1>0, <1>7, WriteMoves DEF WritePublished
<1>8. QED BY <1>1, <1>2, <1>3, <1>4, <1>5, <1>6, <1>7

LEMMA GraphGoes ==
  ASSUME Inv, GraphInv, NEW a \in Attempts,
         \/ AskLimiter(a) \/ (Acquire(a) /\ ~Current(a)) \/ BeginVerify(a)
         \/ RecordMaterialFailure(a) \/ AwaitStage2(a) \/ Reap(a) \/ RecordSuccess(a)
         \/ DrainTimesOut(a)
  PROVE  GraphInv'
<1> USE DEF HolderPcs, SettledPcs, Serving, nodeVars, gateVars
<1>0. Frame(a) /\ Built(pc[a], stage2[a], graph[a], closed[a])
  BY AttemptFrame DEF AttemptStep, GraphInv, Graphs
<1>1. CASE AskLimiter(a)
  BY <1>0, <1>1, GoMoves DEF AskLimiter, Built, Unbuilt, Building
<1>2. CASE Acquire(a) /\ ~Current(a)
  BY <1>0, <1>2, GoMoves DEF Acquire, Built, Unbuilt, Building
<1>3. CASE BeginVerify(a)
  BY <1>0, <1>3, GoMoves DEF BeginVerify, Built, Unbuilt, Building
<1>4. CASE RecordMaterialFailure(a)
  BY <1>0, <1>4, GoMoves DEF RecordMaterialFailure, Built, Unbuilt, Building
<1>5. CASE AwaitStage2(a)
  <2>1. PICK to : /\ Go(a, "building", to) /\ to \in {"succeeding", "faulting", "timing"}
                  /\ to = "succeeding" => stage2[a] = "ok"
                  /\ to = "faulting" => stage2[a] = "err"
    BY <1>5 DEF AwaitStage2
  <2>2. UNCHANGED <<node, seen, graphVars, closed>> BY <1>5 DEF AwaitStage2
  <2>3. Built("building", stage2[a], graph[a], closed[a]) => Built(to, stage2[a], graph[a], closed[a])
    BY <2>1 DEF Built, Unbuilt, Building
  <2>4. QED BY <1>0, <2>1, <2>2, <2>3, GoMoves
<1>6. CASE Reap(a)
  <2>1. PICK n : CasStep(a, "zombie", n, "closing") /\ stage2[a] \in {"ok", "err"}
    BY <1>6 DEF Reap
  <2>2. Go(a, "zombie", "closing") /\ UNCHANGED <<node, seen, graphVars, closed>>
    BY <2>1 DEF CasStep, Cas, Go, Inv, Zombies
  <2>3. Built("zombie", stage2[a], graph[a], closed[a]) => Built("closing", stage2[a], graph[a], closed[a])
    BY <2>1 DEF Built, Unbuilt, Building
  <2>4. QED BY <1>0, <2>2, <2>3, GoMoves
<1>7. CASE RecordSuccess(a)
  BY <1>0, <1>7, GoMoves DEF RecordSuccess, Built, Unbuilt, Building
<1>8. CASE DrainTimesOut(a)
  <2>1. PICK from, to : Go(a, from, to) /\ <<from, to>> \in {<<"draining", "stuck">>, <<"retractDrain", "unretracted">>}
    BY <1>8 DEF DrainTimesOut
  <2>2. UNCHANGED <<node, seen, graphVars, closed>> BY <1>8 DEF DrainTimesOut
  <2>3. Built(from, stage2[a], graph[a], closed[a]) => Built(to, stage2[a], graph[a], closed[a])
    BY <2>1 DEF Built, Unbuilt, Building
  <2>4. QED BY <1>0, <2>1, <2>2, <2>3, GoMoves
<1>9. QED BY <1>1, <1>2, <1>3, <1>4, <1>5, <1>6, <1>7, <1>8

LEMMA GraphBuilds ==
  ASSUME Inv, GraphInv, NEW a \in Attempts,
         Load(a) \/ Verify(a) \/ CloseGraph(a) \/ ReleaseGraph(a)
  PROVE  GraphInv'
<1> USE DEF HolderPcs, SettledPcs, Serving, Unbuilt, Building, Wiped, Holder, Live, nodeVars, gateVars,
            graphVars, Go
<1>0. /\ Frame(a) /\ Built(pc[a], stage2[a], graph[a], closed[a])
      /\ pc \in [Attempts -> Pcs] /\ stage2[a] \in {"none", "running", "ok", "err"}
      /\ stage2 \in [Attempts -> {"none", "running", "ok", "err"}]
      /\ graph \in [Attempts -> {"none", "partial", "held", "orphaned", "leaked", "released"}]
      /\ closed \in [Attempts -> BOOLEAN] /\ seen \in [Attempts -> Nodes]
  BY AttemptFrame DEF AttemptStep, GraphInv, Graphs, Inv, TypeOK
<1>1. CASE Load(a)
  <2>1. pc[a] = "idle" /\ pc'[a] \in {"loaded", "rejected"} /\ UNCHANGED <<node, stage2, graph, closed>>
    BY <1>0, <1>1 DEF Load
  <2>2. Built(pc'[a], stage2'[a], graph'[a], closed'[a]) BY <1>0, <2>1 DEF Built
  <2>3. QED BY <1>0, <2>1, <2>2, Moved
<1>2. CASE Verify(a)
  <2>1. \/ /\ pc[a] = "verifying" /\ pc'[a] = "building" /\ UNCHANGED <<node, seen, closed>>
           /\ stage2'[a] = "running" /\ graph'[a] = "partial"
        \/ /\ pc[a] = "verifying" /\ pc'[a] \in {"aborting", "refuted"}
           /\ UNCHANGED <<node, seen, closed, stage2, graph>>
    BY <1>0, <1>2 DEF Verify
  <2>2. Built(pc'[a], stage2'[a], graph'[a], closed'[a]) BY <1>0, <2>1 DEF Built
  <2>3. QED BY <1>0, <2>1, <2>2, Moved
<1>3. CASE CloseGraph(a)
  <2>1. /\ UNCHANGED <<node, seen, stage2, graph>>
        /\ \/ /\ graph[a] \in {"none", "orphaned"} /\ closed' = closed
              /\ pc[a] = "closing" /\ pc'[a] = "clearing"
           \/ /\ graph[a] = "held" /\ closed'[a]
              /\ <<pc[a], pc'[a]>> \in {<<"closing", "draining">>, <<"retracting", "retractDrain">>}
    BY <1>0, <1>3 DEF CloseGraph
  <2>2. Built(pc'[a], stage2'[a], graph'[a], closed'[a]) BY <1>0, <2>1 DEF Built
  <2>3. QED BY <1>0, <2>1, <2>2, Moved
<1>4. CASE ReleaseGraph(a)
  <2>1. /\ UNCHANGED <<node, seen, stage2, closed>>
        /\ \/ /\ graph'[a] = "released"
              /\ <<pc[a], pc'[a]>> \in {<<"draining", "clearing">>, <<"retractDrain", "retracted">>}
           \/ /\ graph'[a] = "leaked"
              /\ <<pc[a], pc'[a]>> \in {<<"draining", "stuck">>, <<"retractDrain", "unretracted">>}
    BY <1>0, <1>4 DEF ReleaseGraph
  <2>2. Built(pc'[a], stage2'[a], graph'[a], closed'[a]) BY <1>0, <2>1 DEF Built
  <2>3. graph[a] = "held" BY <1>0, <2>1 DEF Built
  <2>4. QED BY <1>0, <2>1, <2>2, <2>3, Moved
<1>5. QED BY <1>1, <1>2, <1>3, <1>4

-----------------------------------------------------------------------------
(* An attempt wins the unsealing.  It was read when nothing stood in the   *)
(* way, so no graph is live; and its generation is new.                    *)
LEMMA GraphAcquired ==
  ASSUME Inv, GraphInv, NEW a \in Attempts, Acquire(a), Current(a)
  PROVE  GraphInv'
<1> DEFINE n == ApplyCell(seen[a], CellAcquire)
<1>1. /\ pc[a] = "acquiring" /\ pc'[a] = "prepare" /\ node' = n
      /\ seen'[a] = n /\ UNCHANGED <<stage2, graph, closed>> /\ Frame(a)
  BY AttemptFrame DEF Acquire, AttemptStep, Go, Install, graphVars, gateVars, Inv, TypeOK
<1>2. seen[a] = node /\ node \in Nodes /\ node.cleanup = 0
      /\ node.state \in {"sealed", "sealed-faulted"}
  BY <1>1 DEF Inv, TypeOK, Observers, Askers, Current, Blocked, Nodes, SealStates
<1>3. Fields(n, node.gen + 1, "unsealing", None, 0) BY <1>2, AcquireFields
<1>4. \A b \in Attempts : ~Live(b) BY <1>2, ServedAlone
<1> HIDE DEF n
<1>5. Built(pc[a], stage2[a], graph[a], closed[a]) BY DEF GraphInv, Graphs
<1>6. Graphs'
  <2>1. Built(pc'[a], stage2'[a], graph'[a], closed'[a]) BY <1>1, <1>5 DEF Built, Unbuilt, Building
  <2>2. QED BY <1>1, <2>1, GraphsKept DEF GraphInv
<1>7. Sealing'
  BY <1>1, <1>3, SealingKept DEF GraphInv, Fields, Serving
<1>8. Tokens' BY <1>1, <1>2, <1>3 DEF Tokens, Fields, Nodes
<1>9. Generations'
  <2>1. /\ \A b \in Attempts : Gen(b) \in Nat
        /\ \A s \in Sealers : sseen[s].gen \in Nat
        /\ node.gen \in Nat /\ node'.gen = node.gen + 1 /\ Gen(a)' = node.gen + 1
    BY <1>1, <1>3 DEF Inv, TypeOK, Nodes, Gen, Fields
  <2>2. \A b \in Attempts \ {a} : Gen(b)' = Gen(b) /\ (Counted(b)' => Counted(b))
    BY <1>1 DEF Frame, Gen, Counted, Live
  <2>3. \A b \in Attempts \ {a} : Counted(b)' => Gen(b)' > 0 /\ Gen(b)' <= node.gen
    BY <2>2 DEF GraphInv, Generations
  <2>4. \A b, c \in Attempts : Counted(b)' /\ Counted(c)' /\ Gen(b)' = Gen(c)' => b = c
    <3>1. ASSUME NEW b \in Attempts, NEW c \in Attempts, Counted(b)', Counted(c)', Gen(b)' = Gen(c)'
          PROVE  b = c
      <4>1. CASE b = a \/ c = a BY <2>1, <2>2, <2>3, <3>1, <4>1
      <4>2. CASE b # a /\ c # a BY <2>2, <3>1, <4>2 DEF GraphInv, Generations
      <4>3. QED BY <4>1, <4>2
    <3>2. QED BY <3>1
  <2>5. ASSUME NEW s \in Sealers, spc'[s] \in AfterClose
        PROVE  /\ sseen'[s].gen + 1 <= node'.gen
               /\ \A b \in Attempts : Counted(b)' => Gen(b)' # sseen'[s].gen + 1
    <3>1. spc[s] \in AfterClose /\ sseen'[s] = sseen[s] BY <1>1, <2>5 DEF Frame
    <3>2. /\ sseen[s].gen + 1 <= node.gen
          /\ \A b \in Attempts : Counted(b) => Gen(b) # sseen[s].gen + 1
      BY <3>1 DEF GraphInv, Generations
    <3>3. QED BY <2>1, <2>2, <3>1, <3>2
  <2>6. \A b \in Attempts : Counted(b)' => Gen(b)' > 0 /\ Gen(b)' <= node'.gen
    BY <2>1, <2>2, <2>3
  <2>7. QED BY <2>4, <2>5, <2>6 DEF Generations
<1>10. \A b \in Attempts : ~Live(b)' BY <1>1, <1>4 DEF Live
<1>11. QED BY <1>6, <1>7, <1>8, <1>9, <1>10, NobodyLive DEF GraphInv

(* It ends without a publication.  What its stage 2 has registered is then *)
(* nothing, or its own to clean up.                                        *)
LEMMA GivesUp ==
  ASSUME Inv, GraphInv, NEW a \in Attempts, Frame(a),
         NEW from \in HolderPcs, NEW n, NEW to \in {"failed", "zombie", "closing"},
         CasStep(a, from, n, to),
         (Keeps(seen[a], n) /\ ~Live(a)) \/ Marks(seen[a], n),
         Built(from, stage2[a], graph[a], closed[a]) => Built(to, stage2[a], graph[a], closed[a])
  PROVE  GraphInv'
<1>1. /\ Holder(a) /\ pc'[a] = to /\ UNCHANGED <<seen, stage2, graph, closed>> /\ Cas(a, n)
      /\ pc[a] = from
  BY DEF CasStep, Go, Holder, graphVars, gateVars, Inv, TypeOK
<1>2. Current(a) /\ seen[a] = node /\ node \in Nodes /\ node.cleanup = 0 /\ node.state = "unsealing"
      /\ node.source \in {"sealed", "sealed-faulted"}
  BY <1>1 DEF Inv, TypeOK, HolderOwnsNode, GraphInv, Tokens, NodeOK
<1>3. node' = n BY <1>1, <1>2 DEF Cas, Install
<1>4. /\ node'.gen = node.gen /\ node'.services = None
      /\ node'.state \in {"sealed", "sealed-faulted"}
      /\ node'.cleanup = IF Live(a) THEN node.gen ELSE node'.cleanup
      /\ node'.cleanup \in {0, node.gen}
  BY <1>2, <1>3 DEF Keeps, Marks, Fields
<1>5. Graphs' BY <1>1, GraphsKept DEF GraphInv, Graphs
<1>6. pc[a] \notin Serving /\ to \notin Serving BY <1>1 DEF Serving, HolderPcs
<1>7. Sealing' BY <1>4, <1>6, SealingKept DEF GraphInv
<1>8. Tokens' BY <1>2, <1>4 DEF Tokens, Nodes
<1>9. Generations'
  <2>1. Counted(a) BY <1>1 DEF Counted, Holder
  <2>2. Aged BY <1>1, <1>2, <1>4, <2>1 DEF Aged, Frame, Counted, Live, Nodes
  <2>3. QED BY <2>2, GenerationsKept DEF GraphInv
<1>10. ASSUME NEW b \in Attempts, Live(b)' PROVE b = a /\ Owned(b)'
  <2>1. Live(b) BY <1>1, <1>10 DEF Live
  <2>2. b = a BY <1>1, <2>1, HolderAlone
  <2>3. node'.cleanup = Gen(a)' BY <1>1, <1>2, <1>4, <2>1, <2>2 DEF Gen
  <2>4. QED BY <1>1, <1>6, <2>2, <2>3 DEF Owned
<1>11. OneLiveGraph' BY <1>10 DEF OneLiveGraph
<1>12. QED BY <1>5, <1>7, <1>8, <1>9, <1>10, <1>11 DEF GraphInv

LEMMA GraphEndings ==
  ASSUME Inv, GraphInv, NEW a \in Attempts,
         \/ AbortPrePrepare(a) \/ AbortPostPrepare(a) \/ MaterialFailure(a)
         \/ TimedOut(a) \/ InitFailure(a) \/ Unpublished(a)
  PROVE  GraphInv'
<1> USE DEF HolderPcs, Live, Wiped
<1>1. /\ Frame(a) /\ seen[a] \in Nodes
      /\ Built(pc[a], stage2[a], graph[a], closed[a])
  BY AttemptFrame DEF AttemptStep, Inv, TypeOK, GraphInv, Graphs
<1>2. \A from, n, to : CasStep(a, from, n, to) => pc[a] = from BY DEF CasStep, Go
<1>3. CASE AbortPrePrepare(a)
  BY <1>1, <1>2, <1>3, EndingFields, GivesUp DEF AbortPrePrepare, Built, Unbuilt, Building
<1>4. CASE AbortPostPrepare(a)
  BY <1>1, <1>2, <1>4, EndingFields, GivesUp DEF AbortPostPrepare, Built, Unbuilt, Building
<1>5. CASE MaterialFailure(a)
  <2>1. PICK from \in {"counted", "armed"}, armed \in BOOLEAN :
          CasStep(a, from, MaterialBad(seen[a], armed), "failed")
    BY <1>5 DEF MaterialFailure
  <2>2. Keeps(seen[a], MaterialBad(seen[a], armed)) BY <1>1, EndingFields
  <2>3. ~Live(a) BY <1>1, <1>2, <2>1 DEF Built, Unbuilt
  <2>4. Built(from, stage2[a], graph[a], closed[a]) => Built("failed", stage2[a], graph[a], closed[a])
    BY <2>1 DEF Built, Unbuilt, Building
  <2>5. QED BY <1>1, <2>1, <2>2, <2>3, <2>4, GivesUp
<1>6. CASE TimedOut(a)
  BY <1>1, <1>2, <1>6, EndingFields, GivesUp DEF TimedOut, Built, Unbuilt, Building
<1>7. CASE InitFailure(a)
  BY <1>1, <1>2, <1>7, EndingFields, GivesUp DEF InitFailure, Built, Unbuilt, Building
<1>8. CASE CasStep(a, "retracted", ApplyCell(seen[a], CellUnpublished), "failed")
  BY <1>1, <1>2, <1>8, EndingFields, GivesUp DEF Built, Unbuilt, Building
<1>9. CASE CasStep(a, "unretracted", ApplyCell(seen[a], CellInitFailed), "failed")
  BY <1>1, <1>2, <1>9, EndingFields, GivesUp DEF Built, Unbuilt, Building
<1>10. QED BY <1>3, <1>4, <1>5, <1>6, <1>7, <1>8, <1>9 DEF Unpublished

(* It is published: the attempt serves the graph that it held.             *)
LEMMA GraphPublished ==
  ASSUME Inv, GraphInv, NEW a \in Attempts, Publish(a)
  PROVE  GraphInv'
<1>1. pc[a] = "publishing" /\ Cas(a, Published(seen[a], a))
      /\ UNCHANGED <<seen, stage2, graph, closed>> /\ Frame(a)
  BY AttemptFrame DEF Publish, CasStep, Go, AttemptStep, graphVars, gateVars
<1>2. Current(a) /\ seen[a] = node /\ node \in Nodes /\ node.cleanup = 0 /\ Holder(a)
  BY <1>1 DEF Inv, TypeOK, HolderOwnsNode, Holder, HolderPcs, GraphInv, Tokens
<1>3. Fields(node', node.gen, "unsealed", a, 0)
  BY <1>1, <1>2, EndingFields DEF Cas, Install
<1>4. pc'[a] = "confirming" BY <1>2 DEF Publish, CasStep, Go, Inv, TypeOK
<1>5. Built(pc[a], stage2[a], graph[a], closed[a]) BY DEF GraphInv, Graphs
<1>6. Graphs'
  <2>1. Built(pc'[a], stage2'[a], graph'[a], closed'[a]) BY <1>1, <1>4, <1>5 DEF Built, Unbuilt, Building
  <2>2. QED BY <1>1, <2>1, GraphsKept DEF GraphInv
<1>7. Sealing' BY <1>1, <1>3, SealingKept DEF GraphInv, Fields, Serving
<1>8. Tokens'
  <2>1. graph'[a] = "held" BY <1>1, <1>5 DEF Built
  <2>2. QED BY <1>2, <1>3, <1>4, <2>1 DEF Tokens, Fields, Serving, Nodes
<1>9. Generations'
  <2>1. Counted(a) BY <1>2 DEF Counted, Holder
  <2>2. Aged BY <1>1, <1>2, <1>3, <2>1 DEF Aged, Frame, Counted, Live, Nodes, Fields
  <2>3. QED BY <2>2, GenerationsKept DEF GraphInv
<1>10. ASSUME NEW b \in Attempts, Live(b)' PROVE b = a /\ Owned(b)'
  <2>1. Live(b) BY <1>1, <1>10 DEF Live
  <2>2. b = a BY <1>2, <2>1, HolderAlone
  <2>3. QED BY <1>3, <2>2 DEF Owned, Fields
<1>11. OneLiveGraph' BY <1>10 DEF OneLiveGraph
<1>12. QED BY <1>6, <1>7, <1>8, <1>9, <1>10, <1>11 DEF GraphInv

(* A token is cleared by who releases the graph it stands for: nobody's    *)
(* graph is live then.                                                     *)
LEMMA TokenCleared ==
  ASSUME Inv, GraphInv, Aged, node' = ApplyCell(node, CellCleanupDone),
         node.state \in {"sealed", "sealed-faulted"}, node.cleanup # 0,
         \A a \in Attempts : Live(a)' => Live(a),
         \/ \E a \in Attempts : pc[a] = "clearing" /\ node.cleanup = Gen(a)
         \/ \E s \in Sealers : spc[s] = "clearing" /\ node.cleanup = sseen[s].gen + 1
  PROVE  /\ Tokens' /\ Generations' /\ (\A a \in Attempts : Live(a)' => Owned(a)') /\ OneLiveGraph'
         /\ node'.services = node.services
<1>1. node \in Nodes BY DEF Inv, TypeOK
<1>2. Fields(node', node.gen, node.state, node.services, 0) BY <1>1, CleanFields
<1>3. Tokens' BY <1>1, <1>2 DEF Tokens, Fields, Nodes
<1>4. Generations' BY GenerationsKept DEF GraphInv
<1>5. ASSUME NEW b \in Attempts, Live(b) PROVE FALSE
  <2>1. ~Holder(b) BY DEF Inv, HolderOwnsNode
  <2>2. Counted(b) BY <1>5 DEF Counted
  <2>3. CASE \E a \in Attempts : pc[a] = "clearing" /\ node.cleanup = Gen(a)
    <3>1. PICK a \in Attempts : pc[a] = "clearing" /\ node.cleanup = Gen(a) BY <2>3
    <3>2. Counted(a) /\ pc[a] \in SettledPcs BY <3>1 DEF Counted, SettledPcs
    <3>3. ~UnderSeal(b) BY <3>1, <3>2 DEF UnderSeal
    <3>4. node.cleanup = Gen(b) BY <1>5, <2>1, <3>3 DEF GraphInv, Owned
    <3>5. a = b BY <2>2, <3>1, <3>2, <3>4 DEF GraphInv, Generations
    <3>6. Built(pc[a], stage2[a], graph[a], closed[a]) BY DEF GraphInv, Graphs
    <3>7. QED BY <1>5, <3>1, <3>5, <3>6 DEF Built, Live
  <2>4. CASE \E s \in Sealers : spc[s] = "clearing" /\ node.cleanup = sseen[s].gen + 1
    <3>1. PICK s \in Sealers : spc[s] = "clearing" /\ node.cleanup = sseen[s].gen + 1 BY <2>4
    <3>2. Gen(b) # node.cleanup BY <2>2, <3>1 DEF GraphInv, Generations, AfterClose
    <3>3. UnderSeal(b) BY <1>5, <2>1, <3>2 DEF GraphInv, Owned
    <3>4. sseen[s].services = b BY <3>1, <3>3 DEF UnderSeal, AfterClose
    <3>5. graph[b] = "released" BY <3>1, <3>4 DEF GraphInv, Sealing, AfterClose
    <3>6. QED BY <1>5, <3>5 DEF Live
  <2>5. QED BY <2>3, <2>4
<1>6. \A b \in Attempts : ~Live(b)' BY <1>5
<1>7. QED BY <1>2, <1>3, <1>4, <1>6, NobodyLive DEF Fields

LEMMA GraphCleared ==
  ASSUME Inv, GraphInv, NEW a \in Attempts, ClearCleanup(a)
  PROVE  GraphInv'
<1>1. /\ pc[a] = "clearing" /\ pc'[a] = "failed" /\ Go(a, "clearing", "failed")
      /\ UNCHANGED <<seen, graphVars, stage2, graph, closed>> /\ Frame(a)
  BY AttemptFrame DEF ClearCleanup, Go, AttemptStep, graphVars, gateVars, Inv, TypeOK
<1>2. CASE UNCHANGED nodeVars
  BY <1>1, <1>2, GoMoves DEF nodeVars, HolderPcs, SettledPcs, Serving, Built, Unbuilt, Building
<1>3. CASE ~(UNCHANGED nodeVars)
  <2>1. /\ node' = ApplyCell(node, CellCleanupDone)
        /\ node.state \in {"sealed", "sealed-faulted"} /\ node.cleanup # 0 /\ node.cleanup = Gen(a)
    BY <1>3 DEF ClearCleanup, CompleteCleanup, Install
  <2>2. node'.gen = node.gen /\ node.gen \in Nat
    BY <2>1, CleanFields DEF Fields, Inv, TypeOK, Nodes
  <2>3. Aged BY <1>1, <2>2 DEF Aged, Frame, Counted, Live, HolderPcs, SettledPcs
  <2>4. \A b \in Attempts : Live(b)' => Live(b) BY <1>1 DEF Live
  <2>5. /\ Tokens' /\ Generations' /\ (\A b \in Attempts : Live(b)' => Owned(b)')
        /\ OneLiveGraph' /\ node'.services = node.services
    BY <1>1, <2>1, <2>3, <2>4, TokenCleared
  <2>6. Graphs'
    <3>1. Built(pc[a], stage2[a], graph[a], closed[a]) BY DEF GraphInv, Graphs
    <3>2. Built(pc'[a], stage2'[a], graph'[a], closed'[a])
      BY <1>1, <3>1 DEF Built, Unbuilt, Building
    <3>3. QED BY <1>1, <3>2, GraphsKept DEF GraphInv
  <2>7. Sealing' BY <1>1, <2>5, SealingKept DEF GraphInv, Serving
  <2>8. QED BY <2>5, <2>6, <2>7 DEF GraphInv
<1>4. QED BY <1>2, <1>3

(* All of them together, and a restart.                                    *)
LEMMA GraphAttempt ==
  ASSUME Inv, GraphInv, NEW a \in Attempts, Load(a) \/ AttemptStep(a)
  PROVE  GraphInv'
BY GraphWrites, GraphGoes, GraphBuilds, GraphAcquired, GraphEndings, GraphPublished, GraphCleared
   DEF AttemptStep

-----------------------------------------------------------------------------
(* Stage 2 returns while its attempt waits, times out or is a zombie.      *)
LEMMA GraphStage2 ==
  ASSUME Inv, GraphInv, NEW a \in Attempts, Stage2Returns(a)
  PROVE  GraphInv'
<1>1. PICK r \in {<<"ok", "held">>, <<"err", "held">>, <<"err", "none">>, <<"err", "orphaned">>} :
        stage2' = [stage2 EXCEPT ![a] = r[1]] /\ graph' = [graph EXCEPT ![a] = r[2]]
  BY DEF Stage2Returns
<1>2. /\ stage2[a] = "running" /\ stage2'[a] = r[1] /\ graph'[a] = r[2]
      /\ UNCHANGED <<node, pc, seen, closed>> /\ Frame(a)
  BY <1>1 DEF Stage2Returns, Frame, nodeVars, attemptVars, sealerVars, gateVars, Inv, TypeOK
<1>3. Built(pc[a], stage2[a], graph[a], closed[a]) BY DEF GraphInv, Graphs
<1>4. pc[a] \in Building /\ graph[a] = "partial" BY <1>2, <1>3 DEF Built
<1>5. Built(pc'[a], stage2'[a], graph'[a], closed'[a])
  BY <1>2, <1>3, <1>4 DEF Built, Building, Unbuilt, Wiped
<1>6. Live(a) /\ pc[a] \notin Serving BY <1>4 DEF Live, Building, Serving
<1>7. QED BY <1>2, <1>5, <1>6, Moved DEF Holder

(* Lending, returning and the passing of time leave all of this alone.     *)
LEMMA GraphIdle ==
  ASSUME Inv, GraphInv,
         UNCHANGED <<node, pc, seen, stage2, graph, closed, spc, sseen, sfailed, sealBusy>>
  PROVE  GraphInv'
BY DEF GraphInv, Graphs, Tokens, Sealing, Generations, Counted, Live, Holder, Gen, Owned, UnderSeal,
       OneLiveGraph

LEMMA GraphRestart ==
  ASSUME Inv, GraphInv, Restart
  PROVE  GraphInv'
<1>1. /\ \A a \in Attempts : /\ pc'[a] \in {"idle", "dead"} \cup EndedPcs
                             /\ pc'[a] = "idle" => pc[a] = "idle"
                             /\ stage2'[a] = "none" /\ graph'[a] = "none" /\ ~closed'[a]
      /\ \A s \in Sealers : spc'[s] \notin Busy
      /\ node' = BootNode
  BY DEF Restart, Busy, AfterClose
<1>2. Graphs' BY <1>1 DEF Graphs, Built, Building, Wiped, EndedPcs
<1>3. Tokens' BY <1>1 DEF Tokens, BootNode
<1>4. Sealing' BY <1>1 DEF Sealing, Busy
<1>5. \A a \in Attempts : ~Live(a)' BY <1>1 DEF Live
<1>6. Generations'
  <2>1. \A a \in Attempts : ~Counted(a)'
    BY <1>1, <1>5 DEF Counted, HolderPcs, SettledPcs, EndedPcs
  <2>2. QED BY <1>1, <2>1 DEF Generations, Busy
<1>7. QED BY <1>2, <1>3, <1>4, <1>5, <1>6, NobodyLive DEF GraphInv

-----------------------------------------------------------------------------
(* A Seal request's step: the attempts stand still, and so do the others.  *)
SealFrame(s) ==
  /\ UNCHANGED <<pc, seen, stage2>>
  /\ \A t \in Sealers \ {s} : spc'[t] = spc[t] /\ sseen'[t] = sseen[t] /\ sfailed'[t] = sfailed[t]

(* The Seal requests.                                                      *)
LEMMA SealerSteady ==
  ASSUME Inv, GraphInv, NEW s \in Sealers, SealFrame(s), UNCHANGED node,
         spc'[s] \in AfterClose => spc[s] \in AfterClose /\ sseen'[s] = sseen[s],
         \A a \in Attempts : Live(a)' => Live(a),
         \A a \in Attempts : node.state = "unsealed" /\ node.services = a => graph'[a] = graph[a]
  PROVE  Steady
<1>1. node.gen \in Nat BY DEF Inv, TypeOK, Nodes
<1>2. Aged BY <1>1 DEF Aged, SealFrame, Counted
<1>3. QED BY <1>2 DEF Steady, SealFrame, Holder

(* Before its gate closes a request only takes and gives back its turn.    *)
LEMMA TakesTurns ==
  ASSUME Inv, GraphInv, NEW s \in Sealers, SealFrame(s), UNCHANGED <<node, graph, closed>>,
         spc[s] \notin AfterClose, spc'[s] \notin AfterClose,
         spc'[s] \in Busy => (spc[s] \in Busy \/ ~sealBusy) /\ sealBusy',
         sealBusy => sealBusy' \/ spc[s] \in Busy
  PROVE  GraphInv'
<1>1. Steady BY SealerSteady DEF Live
<1>2. Graphs' BY DEF SealFrame, GraphInv, Graphs
<1>3. Sealing' BY DEF SealFrame, GraphInv, Sealing
<1>4. QED BY <1>1, <1>2, <1>3, SteadyKeeps DEF GraphInv

LEMMA GraphSealing ==
  ASSUME Inv, GraphInv, NEW s \in Sealers, SealBegin(s) \/ SealCheck(s) \/ SealRecord(s)
  PROVE  GraphInv'
<1> USE DEF SealFrame, SGo, attemptVars, graphVars, nodeVars, gateVars, Busy, AfterClose
<1>1. spc \in [Sealers -> SealerPcs] /\ sseen \in [Sealers -> Nodes] /\ sealBusy \in BOOLEAN
  BY DEF Inv, TypeOK
<1>2. CASE SealBegin(s)
  <2>1. /\ spc[s] = "idle" /\ spc'[s] = IF sealBusy THEN "refused" ELSE "checking"
        /\ sealBusy' = TRUE /\ SealFrame(s) /\ UNCHANGED <<node, graph, closed>>
    BY <1>1, <1>2 DEF SealBegin
  <2> HIDE DEF SealFrame
  <2>2. QED BY <2>1, TakesTurns
<1>3. CASE SealCheck(s)
  <2>1. /\ spc[s] = "checking" /\ SealFrame(s) /\ UNCHANGED <<node, graph, closed>>
        /\ \/ spc'[s] = "recording" /\ sealBusy' = sealBusy
           \/ spc'[s] = "refused"
    BY <1>1, <1>3 DEF SealCheck
  <2>2. sealBusy BY <2>1 DEF GraphInv, Sealing
  <2> HIDE DEF SealFrame
  <2>3. QED BY <2>1, <2>2, TakesTurns
<1>4. CASE SealRecord(s)
  <2>1. PICK ok \in BOOLEAN : SGo(s, "recording", IF ok THEN "closing" ELSE "refused") /\ sealBusy' = ok
    BY <1>4 DEF SealRecord
  <2>2. /\ spc[s] = "recording" /\ SealFrame(s) /\ UNCHANGED <<node, graph, closed>>
        /\ spc'[s] = IF ok THEN "closing" ELSE "refused"
    BY <1>1, <1>4, <2>1 DEF SealRecord
  <2> HIDE DEF SealFrame
  <2>3. QED BY <2>1, <2>2, TakesTurns
<1>5. QED BY <1>2, <1>3, <1>4

(* The gate closes and the node is sealed, in one critical section.  The   *)
(* token has a new generation, which no attempt can clear.                 *)
LEMMA GraphSealed ==
  ASSUME Inv, GraphInv, NEW s \in Sealers, SealClose(s)
  PROVE  GraphInv'
<1> DEFINE g == sseen[s].services
<1>1. spc \in [Sealers -> SealerPcs] /\ spc[s] = "closing" BY DEF SealClose, Inv, TypeOK
<1>2. CASE spc'[s] = "refused"
  <2>1. UNCHANGED <<node, graph, closed>> /\ SealFrame(s)
    BY <1>1, <1>2 DEF SealClose, SGo, SealFrame, nodeVars, graphVars, attemptVars
  <2>2. spc[s] \in Busy BY <1>1 DEF Busy
  <2>3. QED BY <1>1, <1>2, <2>1, <2>2, TakesTurns DEF Busy, AfterClose
<1>3. CASE spc'[s] # "refused"
  <2>1. /\ ~closed[g] /\ sseenPtr[s] = ptr /\ spc' = [spc EXCEPT ![s] = "draining"]
        /\ node' = ApplyCell(sseen[s], CellSeal) /\ closed' = [closed EXCEPT ![g] = TRUE]
        /\ UNCHANGED <<pc, seen, stage2, graph, sseen, sfailed, sealBusy>>
    BY <1>1, <1>3 DEF SealClose, SGo, Install, attemptVars, graphVars
  <2>2. node = sseen[s] /\ node \in Nodes /\ node.state = "unsealed" /\ node.cleanup = 0
    BY <1>1, <2>1 DEF Inv, TypeOK, SealObservers, BeforeClose
  <2>3. /\ g \in Attempts /\ pc[g] \in Serving /\ graph[g] = "held"
    BY <2>2 DEF GraphInv, Tokens
  <2>4. Fields(node', node.gen + 1, "sealed", None, node.gen + 1) /\ node.gen \in Nat
    BY <2>1, <2>2, SealFields DEF Nodes
  <2>5. closed'[g] /\ \A a \in Attempts : closed[a] => closed'[a]
    BY <2>1, <2>3 DEF Inv, TypeOK
  <2>6. \A t \in Sealers : spc'[t] \in Busy => t = s
    <3>1. spc[s] \in Busy BY <1>1 DEF Busy
    <3>2. \A t \in Sealers \ {s} : spc'[t] = spc[t] BY <1>1, <2>1
    <3>3. QED BY <3>1, <3>2 DEF GraphInv, Sealing
  <2>7. \A t \in Sealers : spc'[t] \in AfterClose => t = s BY <2>6 DEF Busy
  <2>8. spc'[s] = "draining" BY <1>1, <2>1
  <2>9. Graphs' BY <2>1, <2>5 DEF GraphInv, Graphs, Built
  <2>10. Sealing'
    <3>1. sealBusy' BY <1>1, <2>1 DEF GraphInv, Sealing, Busy
    <3>2. node'.services # g BY <2>3, <2>4, NoneAssumption DEF Fields
    <3>3. QED BY <2>1, <2>3, <2>5, <2>6, <2>7, <2>8, <3>1, <3>2 DEF Sealing
  <2>11. Tokens' BY <2>4 DEF Tokens, Fields
  <2>12. Generations'
    <3>1. \A a \in Attempts : /\ Counted(a)' <=> Counted(a)
                              /\ Gen(a)' = Gen(a) /\ Gen(a) \in Nat
      BY <2>1 DEF Counted, Live, Gen, Inv, TypeOK, Nodes
    <3>2. node'.gen = node.gen + 1 BY <2>4 DEF Fields
    <3>3. \A a \in Attempts : Counted(a)' => Gen(a)' > 0 /\ Gen(a)' <= node.gen
      BY <3>1 DEF GraphInv, Generations
    <3>4. \A t \in Sealers : spc'[t] \in AfterClose => sseen'[t].gen = node.gen
      BY <2>1, <2>2, <2>7
    <3>5. \A a, b \in Attempts : Counted(a)' /\ Counted(b)' /\ Gen(a)' = Gen(b)' => a = b
      BY <3>1 DEF GraphInv, Generations
    <3>6. QED BY <2>4, <3>1, <3>2, <3>3, <3>4, <3>5 DEF Generations
  <2>13. ASSUME NEW b \in Attempts, Live(b)' PROVE b = g /\ Owned(b)'
    <3>1. Live(b) BY <2>1, <2>13 DEF Live
    <3>2. b = g BY <2>2, <3>1, ServedAlone
    <3>3. UnderSeal(g)'
      <4>1. node'.cleanup = node.gen + 1 BY <2>4 DEF Fields
      <4>2. \A a \in Attempts : pc'[a] \in SettledPcs => Gen(a)' <= node.gen /\ Gen(a)' \in Nat
        BY <2>1 DEF GraphInv, Generations, Counted, Gen, Inv, TypeOK, Nodes
      <4>3. QED BY <2>1, <2>4, <2>7, <4>1, <4>2 DEF UnderSeal
    <3>4. QED BY <2>1, <2>3, <3>2, <3>3 DEF Owned
  <2>14. OneLiveGraph' BY <2>13 DEF OneLiveGraph
  <2>15. QED BY <2>9, <2>10, <2>11, <2>12, <2>13, <2>14 DEF GraphInv
<1>4. QED BY <1>2, <1>3

(* The request drains and releases the graph that it took down, ...        *)
LEMMA GraphDrained ==
  ASSUME Inv, GraphInv, NEW s \in Sealers, SealRelease(s)
  PROVE  GraphInv'
<1> DEFINE g == sseen[s].services
<1>1. /\ spc[s] = "draining" /\ spc' = [spc EXCEPT ![s] = "reporting"]
      /\ UNCHANGED <<node, pc, seen, stage2, sseen, sealBusy, closed>>
  BY DEF SealRelease, SGo, nodeVars, attemptVars, gateVars
<1>2. PICK ok \in BOOLEAN :
         /\ sfailed' = [sfailed EXCEPT ![s] = ~ok]
         /\ \/ graph' = [graph EXCEPT ![g] = IF ok THEN "released" ELSE "leaked"]
            \/ ~ok /\ graph' = graph
  BY DEF SealRelease
<1>3. /\ g \in Attempts /\ pc[g] \in Serving /\ closed[g] /\ graph[g] = "held"
      /\ node.services # g
  BY <1>1 DEF GraphInv, Sealing, AfterClose
<1>4. /\ \A t \in Sealers \ {s} : spc'[t] = spc[t] /\ sfailed'[t] = sfailed[t]
      /\ spc'[s] = "reporting" /\ (~sfailed'[s] => graph'[g] = "released")
      /\ \A a \in Attempts \ {g} : graph'[a] = graph[a]
      /\ graph'[g] \in {"held", "released", "leaked"}
  BY <1>1, <1>2, <1>3 DEF Inv, TypeOK
<1>5. Steady
  <2>1. SealFrame(s) BY <1>1, <1>4 DEF SealFrame
  <2>2. \A a \in Attempts : Live(a)' => Live(a) BY <1>3, <1>4 DEF Live
  <2>3. QED BY <1>1, <1>3, <1>4, <2>1, <2>2, SealerSteady DEF AfterClose
<1>6. Graphs'
  <2>1. \A a \in Attempts : Built(pc[a], stage2[a], graph[a], closed[a]) BY DEF GraphInv, Graphs
  <2>2. \A a \in Attempts \ {g} : Built(pc'[a], stage2'[a], graph'[a], closed'[a])
    BY <1>1, <1>4, <2>1
  <2>3. Built(pc'[g], stage2'[g], graph'[g], closed'[g])
    <3>1. Built(pc[g], stage2[g], graph[g], closed[g]) BY <1>3, <2>1
    <3>2. UNCHANGED <<pc, stage2, closed>> BY <1>1
    <3> HIDE DEF g
    <3>3. QED BY <1>3, <1>4, <3>1, <3>2 DEF Built, Serving, Unbuilt, Building, Wiped
  <2>4. QED BY <2>2, <2>3 DEF Graphs
<1>7. Sealing'
  <2>1. \A t \in Sealers : spc'[t] \in Busy <=> spc[t] \in Busy
    BY <1>1, <1>4 DEF Busy, AfterClose
  <2>2. \A t \in Sealers : spc'[t] \in AfterClose => t = s
    BY <1>1, <1>4, <2>1 DEF GraphInv, Sealing, Busy, AfterClose
  <2>3. QED BY <1>1, <1>3, <1>4, <2>1, <2>2 DEF GraphInv, Sealing
<1>8. QED BY <1>5, <1>6, <1>7, SteadyKeeps DEF GraphInv

(* ... reports, ...                                                        *)
LEMMA GraphReported ==
  ASSUME Inv, GraphInv, NEW s \in Sealers, SealReport(s)
  PROVE  GraphInv'
<1>1. PICK to \in {"failing", "clearing"} :
        /\ SGo(s, "reporting", to) /\ (sfailed[s] => to = "failing")
  BY DEF SealReport
<1>2. /\ spc[s] = "reporting" /\ spc'[s] = to /\ \A t \in Sealers \ {s} : spc'[t] = spc[t]
      /\ UNCHANGED <<node, pc, seen, stage2, graph, closed, sseen, sfailed, sealBusy>>
  BY <1>1 DEF SealReport, SGo, nodeVars, attemptVars, graphVars, gateVars, Inv, TypeOK
<1>3. Steady
  <2>1. SealFrame(s) BY <1>2 DEF SealFrame
  <2>2. QED BY <1>2, <2>1, SealerSteady DEF AfterClose, Live
<1>4. Graphs' BY <1>2 DEF GraphInv, Graphs
<1>5. Sealing'
  <2>1. \A t \in Sealers : spc'[t] \in Busy <=> spc[t] \in Busy BY <1>2 DEF Busy, AfterClose
  <2>2. \A t \in Sealers : spc'[t] \in AfterClose => t = s
    BY <1>2, <2>1 DEF GraphInv, Sealing, Busy, AfterClose
  <2>3. sfailed[s] \in BOOLEAN BY DEF Inv, TypeOK
  <2>4. QED BY <1>1, <1>2, <2>1, <2>2, <2>3 DEF GraphInv, Sealing, AfterClose
<1>6. QED BY <1>3, <1>4, <1>5, SteadyKeeps DEF GraphInv

(* ... and ends: it clears its token, or the machine is sealed-faulted.    *)
LEMMA GraphSealEnds ==
  ASSUME Inv, GraphInv, NEW s \in Sealers, SealEnd(s)
  PROVE  GraphInv'
<1>1. /\ spc[s] \in {"clearing", "failing"} /\ spc'[s] = "done"
      /\ \A t \in Sealers \ {s} : spc'[t] = spc[t]
      /\ UNCHANGED <<pc, seen, stage2, graph, closed, sseen, sfailed>> /\ sealBusy' = FALSE
  BY DEF SealEnd, SGo, attemptVars, graphVars, gateVars, Inv, TypeOK
<1>2. Graphs' BY <1>1 DEF GraphInv, Graphs
<1>3. sseen[s] \in Nodes /\ node \in Nodes BY DEF Inv, TypeOK
<1>4. SealFrame(s) /\ \A a \in Attempts : Live(a)' => Live(a) BY <1>1 DEF SealFrame, Live
<1>5. node'.services \in {node.services, None} => Sealing'
  <2>1. \A t \in Sealers : spc'[t] \notin Busy
    BY <1>1 DEF GraphInv, Sealing, Busy, AfterClose
  <2>2. QED BY <1>1, <2>1 DEF Sealing, Busy
<1>6. CASE UNCHANGED node
  <2>1. Steady BY <1>1, <1>4, <1>6, SealerSteady DEF AfterClose
  <2>2. QED BY <1>2, <1>5, <1>6, <2>1, SteadyKeeps DEF GraphInv
<1>7. CASE spc[s] = "clearing" /\ ~UNCHANGED node
  <2>1. /\ node' = ApplyCell(node, CellCleanupDone) /\ node.cleanup # 0
        /\ node.state \in {"sealed", "sealed-faulted"} /\ node.cleanup = SealedNode(s).gen
    BY <1>7 DEF SealEnd, SGo, CompleteCleanup, Install, nodeVars
  <2>2. SealedNode(s).gen = sseen[s].gen + 1 BY <1>3, SealFields DEF SealedNode, Fields
  <2>3. node'.gen = node.gen BY <1>3, <2>1, CleanFields DEF Fields
  <2>4. Aged BY <1>1, <1>3, <1>4, <2>3 DEF Aged, Counted, Nodes, AfterClose
  <2>5. QED BY <1>2, <1>4, <1>5, <1>7, <2>1, <2>2, <2>4, TokenCleared DEF GraphInv
<1>8. CASE spc[s] = "failing" /\ ~UNCHANGED node
  <2>1. sseenPtr[s] = ptr /\ node' = SealFailed(SealedNode(s))
    BY <1>8 DEF SealEnd, SGo, Install, nodeVars
  <2>2. node = SealedNode(s) BY <1>8, <2>1 DEF Inv, SealObservers, AfterClose
  <2>3. /\ node'.gen = node.gen /\ node'.cleanup = node.cleanup /\ node'.services = node.services
        /\ node.state = "sealed" /\ node'.state = "sealed-faulted" /\ node.gen \in Nat
    BY <1>3, <2>1, <2>2, SealFields DEF SealedNode, Fields, Nodes
  <2>4. Aged BY <1>1, <1>4, <2>3 DEF Aged, Counted, AfterClose
  <2>5. Steady BY <1>1, <1>4, <2>3, <2>4 DEF Steady, Holder
  <2>6. QED BY <1>2, <1>5, <2>3, <2>5, SteadyKeeps DEF GraphInv
<1>9. QED BY <1>1, <1>6, <1>7, <1>8

(* The induction.                                                          *)
LEMMA GraphNext == Inv /\ GraphInv /\ [Next]_vars => GraphInv'
<1> SUFFICES ASSUME Inv, GraphInv, [Next]_vars PROVE GraphInv' OBVIOUS
<1>1. CASE \E a \in Attempts : Load(a) \/ AttemptStep(a) \/ Stage2Returns(a)
  BY <1>1, GraphAttempt, GraphStage2
<1>2. CASE \E s \in Sealers : SealBegin(s) \/ SealStep(s)
  BY <1>2, GraphSealing, GraphSealed, GraphDrained, GraphReported, GraphSealEnds DEF SealStep
<1>3. CASE \/ \E u \in Users : Finish(u) \/ \E a \in Attempts : Borrow(u, a)
           \/ Elapse \/ UNCHANGED vars
  BY <1>3, GraphIdle DEF Finish, Borrow, Elapse, vars, nodeVars, attemptVars, graphVars, sealerVars,
                         gateVars
<1>4. CASE Restart BY <1>4, GraphRestart
<1>5. QED BY <1>1, <1>2, <1>3, <1>4 DEF Next

LEMMA GraphInvariance == Spec => []GraphInv
<1>1. Init => GraphInv
  BY DEF Init, GraphInv, Graphs, Built, Building, Unbuilt, Wiped, Tokens, Sealing, Busy, AfterClose,
         Generations, Counted, Live, HolderPcs, SettledPcs, OneLiveGraph, BootNode
<1>2. QED BY <1>1, GraphNext, Invariance, PTL DEF Spec

(* "No two service graphs", for any number of attempts, time-outs and      *)
(* Seal requests.                                                          *)
THEOREM OneGraphAtATime == Spec => []OneLiveGraph
<1>1. GraphInv => OneLiveGraph BY DEF GraphInv
<1>2. QED BY <1>1, GraphInvariance, PTL

-----------------------------------------------------------------------------
(* Every graph's gate lends as LeaseGate says.                             *)
LEMMA GateSame ==
  ASSUME NEW a \in Attempts, closed'[a] = closed[a], lease' = lease,
         graph'[a] \in Wiped <=> graph[a] \in Wiped
  PROVE  UNCHANGED Gate(a)!vars
BY DEF Gate!vars, NoLease, Wiped

(* Closing, wiping, lending and giving back, as steps of one gate.         *)
LEMMA GateCloses ==
  ASSUME NEW a \in Attempts, ~closed[a], closed'[a], lease' = lease, graph'[a] = graph[a]
  PROVE  Gate(a)!Next
<1>1. NoLease(a)' <=> NoLease(a) BY DEF NoLease
<1>2. NoLease(a) <=> {u \in Users : lease[u] = a} = {} BY DEF NoLease
<1>3. Gate(a)!Close BY <1>1, <1>2 DEF Gate!Close
<1>4. QED BY <1>3 DEF Gate!Next

LEMMA GateWipes ==
  ASSUME NEW a \in Attempts, closed[a], closed'[a], NoLease(a), lease' = lease,
         graph'[a] \in Wiped
  PROVE  Gate(a)!Next
<1>1. NoLease(a)' BY DEF NoLease
<1>2. Gate(a)!Wipe BY <1>1 DEF Gate!Wipe, Wiped
<1>3. QED BY <1>2 DEF Gate!Next

LEMMA GateLends ==
  ASSUME Inv, NEW u \in Users, NEW b \in Attempts, Borrow(u, b), NEW a \in Attempts
  PROVE  Gate(a)!Next \/ UNCHANGED Gate(a)!vars
<1>1. /\ lease[u] = None /\ lease' = [lease EXCEPT ![u] = b] /\ ~closed[b]
      /\ UNCHANGED <<closed, graph>> /\ lease \in [Users -> Attempts \cup {None}]
  BY DEF Borrow, graphVars, Inv, TypeOK
<1>2. CASE a = b
  <2>1. u \notin {v \in Users : lease[v] = a} BY <1>1, NoneAssumption
  <2>2. {v \in Users : lease'[v] = a} = {v \in Users : lease[v] = a} \cup {u} BY <1>1, <1>2
  <2>3. Gate(a)!Borrow(u) BY <1>1, <1>2, <2>1, <2>2 DEF Gate!Borrow
  <2>4. QED BY <2>3 DEF Gate!Next
<1>3. CASE a # b
  <2>1. \A v \in Users : lease'[v] = a <=> lease[v] = a BY <1>1, <1>3, NoneAssumption
  <2>2. QED BY <1>1, <2>1 DEF Gate!vars, NoLease
<1>4. QED BY <1>2, <1>3

LEMMA GateGetsBack ==
  ASSUME Inv, NEW u \in Users, Finish(u), NEW a \in Attempts
  PROVE  Gate(a)!Next \/ UNCHANGED Gate(a)!vars
<1>1. /\ lease[u] # None /\ lease' = [lease EXCEPT ![u] = None]
      /\ UNCHANGED <<closed, graph>> /\ lease \in [Users -> Attempts \cup {None}]
  BY DEF Finish, graphVars, Inv, TypeOK
<1>2. CASE lease[u] = a
  <2> DEFINE loans == {v \in Users : lease[v] = a}
  <2>1. u \in loans BY <1>2
  <2>2. {v \in Users : lease'[v] = a} = loans \ {u} BY <1>1, <1>2, NoneAssumption
  <2>3. ~NoLease(a) /\ (NoLease(a)' <=> loans = {u})
    <3>1. NoLease(a)' <=> {v \in Users : lease'[v] = a} = {} BY DEF NoLease
    <3>2. QED BY <1>2, <2>1, <2>2, <3>1 DEF NoLease
  <2>4. Gate(a)!Return(u) BY <1>1, <2>1, <2>2, <2>3 DEF Gate!Return
  <2>5. QED BY <2>4 DEF Gate!Next
<1>3. CASE lease[u] # a
  <2>1. \A v \in Users : lease'[v] = a <=> lease[v] = a BY <1>1, <1>3, NoneAssumption
  <2>2. QED BY <1>1, <2>1 DEF Gate!vars, NoLease
<1>4. QED BY <1>2, <1>3

(* Who touches a gate or its material.                                     *)
LEMMA GateAttempt ==
  ASSUME Inv, GraphInv, NEW b \in Attempts, Load(b) \/ AttemptStep(b), NEW a \in Attempts
  PROVE  Gate(a)!Next \/ UNCHANGED Gate(a)!vars
<1>1. Frame(b) BY AttemptFrame
<1>2. lease' = lease /\ (Verify(b) \/ CloseGraph(b) \/ ReleaseGraph(b) \/ UNCHANGED <<graph, closed>>)
  BY DEF AttemptStep, Load, AskLimiter, Acquire, WriteReceived, AbortPrePrepare, BeginVerify,
         Verify, WriteAborted, AbortPostPrepare, WriteMaterialFailure, RecordMaterialFailure,
         MaterialFailure, AwaitStage2, WriteTimeout, TimedOut, Reap, WriteInitFailed,
         InitFailure, WriteSuccess, Publish, WritePublished, RecordSuccess, CloseGraph,
         ReleaseGraph, DrainTimesOut, ClearCleanup, Unpublished, WriteStep, CasStep, gateVars, graphVars
<1>3. CASE a # b \/ UNCHANGED <<graph, closed>>
  <2>1. graph'[a] = graph[a] /\ closed'[a] = closed[a] BY <1>1, <1>3 DEF Frame
  <2>2. QED BY <1>2, <2>1, GateSame
<1>4. Built(pc[a], stage2[a], graph[a], closed[a]) BY DEF GraphInv, Graphs
<1>5. CASE a = b /\ Verify(b)
  <2>1. pc[a] = "verifying" /\ graph'[a] \in {graph[a], "partial"} /\ closed' = closed
    BY <1>5 DEF Verify, Go, gateVars, graphVars, Inv, TypeOK
  <2>2. graph[a] \notin Wiped BY <1>4, <2>1 DEF Built, Unbuilt, Wiped
  <2>3. QED BY <1>2, <2>1, <2>2, GateSame DEF Wiped
<1>6. CASE a = b /\ CloseGraph(b)
  <2>1. graph' = graph /\ (closed'[a] = closed[a] \/ closed'[a] = TRUE)
    BY <1>6 DEF CloseGraph, graphVars, gateVars, Inv, TypeOK
  <2>2. closed[a] \in BOOLEAN BY DEF Inv, TypeOK
  <2>3. QED BY <1>2, <2>1, <2>2, GateSame, GateCloses
<1>7. CASE a = b /\ ReleaseGraph(b)
  <2>1. /\ NoLease(a) /\ closed' = closed /\ graph'[a] \in Wiped
        /\ pc[a] \in {"draining", "retractDrain"}
    BY <1>7 DEF ReleaseGraph, Go, gateVars, Wiped, Inv, TypeOK
  <2>2. closed[a] BY <1>4, <2>1 DEF Built
  <2>3. QED BY <1>2, <2>1, <2>2, GateWipes
<1>8. QED BY <1>2, <1>3, <1>5, <1>6, <1>7

(* What Seal requests and stage 2 do to a gate.                            *)
LEMMA GateSealer ==
  ASSUME Inv, GraphInv, NEW s \in Sealers, SealBegin(s) \/ SealStep(s), NEW a \in Attempts
  PROVE  Gate(a)!Next \/ UNCHANGED Gate(a)!vars
<1> DEFINE g == sseen[s].services
<1>1. CASE SealBegin(s) \/ SealCheck(s) \/ SealRecord(s) \/ SealReport(s) \/ SealEnd(s)
  BY <1>1, GateSame DEF SealBegin, SealCheck, SealRecord, SealReport, SealEnd, gateVars, graphVars
<1>2. CASE SealClose(s)
  <2>1. /\ UNCHANGED <<graph, lease>>
        /\ closed' = closed \/ closed' = [closed EXCEPT ![g] = TRUE]
    BY <1>2 DEF SealClose, graphVars
  <2>2. closed[a] \in BOOLEAN /\ (closed'[a] = closed[a] \/ closed'[a] = TRUE)
    BY <2>1 DEF Inv, TypeOK
  <2>3. QED BY <2>1, <2>2, GateSame, GateCloses
<1>3. CASE SealRelease(s)
  <2>1. UNCHANGED <<closed, lease>> /\ spc[s] = "draining"
    BY <1>3 DEF SealRelease, SGo, gateVars
  <2>2. g \in Attempts /\ closed[g] BY <2>1 DEF GraphInv, Sealing, AfterClose
  <2>3. \/ graph' = graph
        \/ /\ NoLease(g) /\ graph'[g] \in Wiped
           /\ \A b \in Attempts \ {g} : graph'[b] = graph[b]
    BY <1>3, <2>2 DEF SealRelease, Wiped, Inv, TypeOK
  <2>4. CASE graph'[a] = graph[a] BY <2>1, <2>4, GateSame
  <2>5. CASE a = g /\ NoLease(g) /\ graph'[g] \in Wiped BY <2>1, <2>2, <2>5, GateWipes
  <2>6. QED BY <2>3, <2>4, <2>5
<1>4. QED BY <1>1, <1>2, <1>3 DEF SealStep

LEMMA GateStage2 ==
  ASSUME Inv, GraphInv, NEW b \in Attempts, Stage2Returns(b), NEW a \in Attempts
  PROVE  Gate(a)!Next \/ UNCHANGED Gate(a)!vars
<1>1. /\ UNCHANGED <<closed, lease>> /\ stage2[b] = "running"
      /\ graph'[b] \in {"held", "none", "orphaned"}
      /\ \A c \in Attempts \ {b} : graph'[c] = graph[c]
  BY DEF Stage2Returns, gateVars, Inv, TypeOK
<1>2. graph[b] = "partial" BY <1>1 DEF GraphInv, Graphs, Built
<1>3. graph'[a] \in Wiped <=> graph[a] \in Wiped BY <1>1, <1>2 DEF Wiped
<1>4. QED BY <1>1, <1>3, GateSame

(* Each step of a gate is a step of the lending gate, whoever takes it, as *)
(* long as the process lives.                                              *)
THEOREM GatesLendAsPromised == Spec => GatesLend
<1>1. ASSUME Init, NEW a \in Attempts PROVE Gate(a)!Init
  <2>1. closed[a] = FALSE /\ \A u \in Users : lease[u] # a BY <1>1, NoneAssumption DEF Init
  <2>2. graph[a] \notin {"released", "leaked"} BY <1>1 DEF Init
  <2>3. (graph[a] \in {"released", "leaked"}) = FALSE BY <2>2
  <2>4. {u \in Users : lease[u] = a} = {} BY <2>1
  <2>5. QED BY <2>1, <2>3, <2>4 DEF Gate!Init
<1>2. ASSUME Inv, GraphInv, [Next]_vars, boots' = boots, NEW a \in Attempts
      PROVE  Gate(a)!Next \/ UNCHANGED Gate(a)!vars
  <2>1. ~Restart
    <3>1. boots \in Nat BY <1>2 DEF Inv, TypeOK
    <3>2. QED BY <1>2, <3>1 DEF Restart
  <2>2. CASE Elapse \/ UNCHANGED vars
    BY <2>2, GateSame DEF Elapse, vars, gateVars, graphVars
  <2>3. QED BY <1>2, <2>1, <2>2, GateAttempt, GateSealer, GateStage2, GateLends, GateGetsBack DEF Next
<1>3. Inv /\ GraphInv /\ [Next]_vars =>
        [boots' = boots => \A a \in Attempts : Gate(a)!Next \/ UNCHANGED Gate(a)!vars]_vars
  BY <1>2
<1>4. Init => \A a \in Attempts : Gate(a)!Init BY <1>1
<1>5. QED BY <1>3, <1>4, Invariance, GraphInvariance, PTL DEF Spec, GatesLend

-----------------------------------------------------------------------------
(* The server around the machine takes no liberty with it: what is proved  *)
(* of the machine holds in the server.                                     *)
LEMMA RoutingSteps == [RoutingNext]_allVars => [Next]_vars
<1>1. MachineStep => Next BY DEF MachineStep, Next
<1>2. RestartServer => Next BY DEF RestartServer, Next
<1>3. (\E a \in Attempts : Arrive(a) \/ HandlerStep(a)) => UNCHANGED vars
  BY DEF Arrive, HandlerStep, Admit, ReleaseTicket, PublishRouter
<1>4. UNCHANGED allVars => UNCHANGED vars BY DEF allVars
<1>5. QED BY <1>1, <1>2, <1>3, <1>4 DEF RoutingNext

(* A step of the server is a step of the machine or leaves it alone: what  *)
(* is proved of the machine holds behind ticket, handlers and router       *)
(* (sealwire.go, seal_handler.go).                                         *)
THEOREM RoutingRunsTheMachine == RoutingSpec => Spec
<1>1. RoutingInit => Init BY DEF RoutingInit
<1>2. QED BY <1>1, RoutingSteps, PTL DEF RoutingSpec, Spec

(* Behind the endpoint too: one attempt holds the unsealing, records are   *)
(* written ahead and outcomes once, one graph is live.                     *)
COROLLARY ServerKeepsPromises ==
  RoutingSpec => [](HolderOwnsNode /\ WriteAhead /\ OneOutcome /\ OneLiveGraph)
BY RoutingRunsTheMachine, UnsealingExclusive, WrittenAhead, OneOutcomeEach, OneGraphAtATime, PTL

(* No Seal request of this or an earlier process has been recorded.        *)
NeverSealed == \A s \in Sealers : "seal_received" \notin journal[s]

(* Who is verified and served is on offer, and so is who is routed to.     *)
Routed ==
  /\ handler \in [Attempts -> {"idle", "waiting", "inside", "publishing", "answered", "dead"}]
  /\ \A a \in Attempts :
       /\ handler[a] \in {"idle", "waiting"} => pc[a] = "idle"
       /\ \/ handler[a] = "publishing" \/ router = a
          \/ handler[a] = "inside" /\ pc[a] \in Serving
          => node.state = "unsealed" /\ node.services = a
  /\ router \in Attempts \cup {None}

(* The journal only grows.                                                 *)
LEMMA JournalGrows ==
  ASSUME Inv, Next, NEW p \in Attempts \cup Sealers
  PROVE  journal[p] \subseteq journal'[p]
<1>1. ASSUME NEW q, NEW record, NEW ok, Write(q, record, ok) PROVE journal[p] \subseteq journal'[p]
  <2>1. PICK landed \in BOOLEAN :
          journal' = [journal EXCEPT ![q] = IF landed THEN journal[q] \cup {record} ELSE journal[q]]
    BY <1>1 DEF Write
  <2>2. QED BY <2>1 DEF Inv, TypeOK
<1>2. ASSUME NEW a, NEW from, NEW record, NEW acked, NEW lost, WriteStep(a, from, record, acked, lost)
      PROVE  journal[p] \subseteq journal'[p]
  BY <1>1, <1>2 DEF WriteStep
<1>3. CASE \E a \in Attempts : \/ WriteReceived(a) \/ WriteAborted(a) \/ WriteMaterialFailure(a)
                              \/ WriteTimeout(a) \/ WriteInitFailed(a) \/ WriteSuccess(a)
                              \/ WritePublished(a)
  BY <1>2, <1>3 DEF WriteReceived, WriteAborted, WriteMaterialFailure, WriteTimeout,
                    WriteInitFailed, WriteSuccess, WritePublished
<1>4. CASE \E s \in Sealers : SealRecord(s) \/ SealReport(s)
  BY <1>1, <1>4 DEF SealRecord, SealReport
<1>5. CASE UNCHANGED journal BY <1>5
<1>6. Next => \/ UNCHANGED journal
              \/ \E s \in Sealers : SealRecord(s) \/ SealReport(s)
              \/ \E a \in Attempts : \/ WriteReceived(a) \/ WriteAborted(a) \/ WriteMaterialFailure(a)
                                     \/ WriteTimeout(a) \/ WriteInitFailed(a) \/ WriteSuccess(a)
                                     \/ WritePublished(a)
  BY DEF Next, AttemptStep, SealStep, Load, AskLimiter, Acquire, AbortPrePrepare, BeginVerify,
         Verify, AbortPostPrepare, RecordMaterialFailure, MaterialFailure, AwaitStage2, TimedOut,
         Reap, InitFailure, Publish, RecordSuccess, CloseGraph, ReleaseGraph, DrainTimesOut,
         ClearCleanup, Unpublished, CasStep, Stage2Returns, SealBegin, SealCheck, SealClose,
         SealRelease, SealEnd, Finish, Borrow, Elapse, Restart
<1>7. QED BY <1>3, <1>4, <1>5, <1>6

(* Until the machine is sealed at runtime an unsealed node stays.          *)
LEMMA UnsealedStays ==
  ASSUME Inv, node.state = "unsealed", NEW a \in Attempts, Load(a) \/ AttemptStep(a)
  PROVE  node' = node
<1>1. ~Holder(a) BY DEF Inv, HolderOwnsNode
<1>2. ASSUME NEW from \in HolderPcs, NEW n, NEW to, CasStep(a, from, n, to) PROVE FALSE
  BY <1>1, <1>2 DEF CasStep, Go, Holder
<1>3. CASE Acquire(a)
  <2>1. pc[a] = "acquiring" BY <1>3 DEF Acquire, Go
  <2>2. ~Current(a) BY <2>1 DEF Inv, Askers, Observers, Current, Blocked
  <2>3. QED BY <1>3, <2>2 DEF Acquire, nodeVars
<1>4. CASE Reap(a) BY <1>4 DEF Reap, CasStep, Go, Cas, Inv, Zombies, nodeVars
<1>5. CASE ClearCleanup(a) BY <1>5 DEF ClearCleanup, CompleteCleanup, nodeVars
<1>6. CASE \/ AbortPrePrepare(a) \/ AbortPostPrepare(a) \/ MaterialFailure(a) \/ TimedOut(a)
           \/ InitFailure(a) \/ Publish(a) \/ Unpublished(a)
  <2> USE DEF HolderPcs
  <2>1. ~AbortPrePrepare(a) BY <1>2 DEF AbortPrePrepare
  <2>2. ~AbortPostPrepare(a) BY <1>2 DEF AbortPostPrepare
  <2>3. ~MaterialFailure(a) BY <1>1 DEF MaterialFailure, CasStep, Go, Holder
  <2>4. ~TimedOut(a) BY <1>2 DEF TimedOut
  <2>5. ~InitFailure(a) BY <1>2 DEF InitFailure
  <2>6. ~Publish(a) BY <1>2 DEF Publish
  <2>7. ~Unpublished(a) BY <1>1 DEF Unpublished, CasStep, Go, Holder
  <2>8. QED BY <1>6, <2>1, <2>2, <2>3, <2>4, <2>5, <2>6, <2>7
<1>7. CASE \/ WriteReceived(a) \/ WriteAborted(a) \/ WriteMaterialFailure(a) \/ WriteTimeout(a)
           \/ WriteInitFailed(a) \/ WriteSuccess(a) \/ WritePublished(a)
  BY <1>7 DEF WriteReceived, WriteAborted, WriteMaterialFailure, WriteTimeout, WriteInitFailed,
              WriteSuccess, WritePublished, WriteStep, nodeVars
<1>8. CASE \/ Load(a) \/ AskLimiter(a) \/ BeginVerify(a) \/ Verify(a) \/ RecordMaterialFailure(a)
           \/ AwaitStage2(a) \/ RecordSuccess(a) \/ CloseGraph(a) \/ ReleaseGraph(a)
           \/ DrainTimesOut(a)
  BY <1>8 DEF Load, AskLimiter, BeginVerify, Verify, RecordMaterialFailure, AwaitStage2,
              RecordSuccess, CloseGraph, ReleaseGraph, DrainTimesOut, nodeVars
<1>9. QED BY <1>3, <1>4, <1>5, <1>6, <1>7, <1>8 DEF AttemptStep

(* Only its own publication makes an attempt one that is served.           *)
LEMMA ServedByPublishing ==
  ASSUME Inv, NEW a \in Attempts, Load(a) \/ AttemptStep(a), NEW b \in Attempts,
         pc'[b] \in Serving, pc[b] \notin Serving
  PROVE  node'.state = "unsealed" /\ node'.services = b
<1>1. b = a BY MovesAlone
<1>2. pc[a] = "publishing" /\ pc'[a] \in Serving
      /\ Publish(a)
  BY <1>1 DEF AttemptStep, Load, AskLimiter, Acquire, WriteReceived, AbortPrePrepare, BeginVerify,
         Verify, WriteAborted, AbortPostPrepare, WriteMaterialFailure, RecordMaterialFailure,
         MaterialFailure, AwaitStage2, WriteTimeout, TimedOut, Reap, WriteInitFailed,
         InitFailure, WriteSuccess, Publish, WritePublished, RecordSuccess, CloseGraph,
         ReleaseGraph, DrainTimesOut, ClearCleanup, Unpublished, WriteStep, CasStep, Go, Serving,
         Inv, TypeOK
<1>3. Current(a) /\ seen[a] \in Nodes
  BY <1>2 DEF Inv, HolderOwnsNode, Holder, HolderPcs, TypeOK
<1>4. Fields(node', seen[a].gen, "unsealed", a, seen[a].cleanup)
  BY <1>2, <1>3, EndingFields DEF Publish, CasStep, Cas, Install
<1>5. QED BY <1>1, <1>4 DEF Fields

(* The router in force, step by step, before the first Seal.               *)
LEMMA RoutedNext ==
  ASSUME NeverSealed, Inv, JournalInv, Routed, [RoutingNext]_allVars
  PROVE  Routed'
<1>0. ASSUME NEW s \in Sealers, SealBegin(s) \/ SealStep(s) PROVE UNCHANGED <<pc, node>>
  <2>1. spc[s] \notin {"closing"} \cup AfterClose BY DEF NeverSealed, JournalInv, SealRecorded
  <2>2. QED BY <1>0, <2>1 DEF SealStep, SealBegin, SealCheck, SealRecord, SealClose, SealRelease,
                              SealReport, SealEnd, SGo, AfterClose, attemptVars, nodeVars
<1>1. CASE \E a \in Attempts : Arrive(a) \/ HandlerStep(a)
  <2>1. PICK a \in Attempts : Arrive(a) \/ HandlerStep(a) BY <1>1
  <2>2. UNCHANGED <<pc, node>>
    BY <2>1 DEF Arrive, HandlerStep, Admit, ReleaseTicket, PublishRouter, vars, nodeVars, attemptVars
  <2>3. \A b \in Attempts \ {a} : handler'[b] = handler[b]
    BY <2>1 DEF Arrive, HandlerStep, Admit, ReleaseTicket, PublishRouter, Step, Routed
  <2>4. \/ /\ handler[a] \in {"idle", "waiting"} /\ router' = router
           /\ handler'[a] \in {"waiting", "inside", "answered"}
           /\ handler'[a] = "waiting" => handler[a] = "idle"
        \/ handler[a] = "inside" /\ handler'[a] = "publishing" /\ pc[a] = "served" /\ router' = router
        \/ handler'[a] = "answered" /\ router' = router
        \/ handler[a] = "publishing" /\ handler'[a] = "answered" /\ router' = a
    BY <2>1 DEF Arrive, HandlerStep, Admit, ReleaseTicket, PublishRouter, Step, Routed
  <2>5. handler' \in [Attempts -> {"idle", "waiting", "inside", "publishing", "answered", "dead"}]
    BY <2>1 DEF Arrive, HandlerStep, Admit, ReleaseTicket, PublishRouter, Step, Routed
  <2>6. QED BY <2>2, <2>3, <2>4, <2>5 DEF Routed, Serving
<1>2. CASE MachineStep
  <2>1. UNCHANGED <<handler, router>> BY <1>2 DEF MachineStep, routingVars
  <2>2. CASE \E a \in Attempts : (handler[a] = "inside" /\ Load(a)) \/ AttemptStep(a)
    <3>1. PICK a \in Attempts : (handler[a] = "inside" /\ Load(a)) \/ AttemptStep(a) BY <2>2
    <3>2. \A b \in Attempts : pc[b] = "idle" /\ pc'[b] # "idle" => handler[b] = "inside"
      <4>1. SUFFICES ASSUME NEW b \in Attempts, pc[b] = "idle", pc'[b] # "idle"
                     PROVE  handler[b] = "inside"
        OBVIOUS
      <4>2. b = a BY <3>1, <4>1, MovesAlone
      <4>3. ~AttemptStep(a)
        BY <4>1, <4>2 DEF AttemptStep, AskLimiter, Acquire, WriteReceived, AbortPrePrepare,
           BeginVerify, Verify, WriteAborted, AbortPostPrepare, WriteMaterialFailure,
           RecordMaterialFailure, MaterialFailure, AwaitStage2, WriteTimeout, TimedOut, Reap,
           WriteInitFailed, InitFailure, WriteSuccess, Publish, WritePublished, RecordSuccess,
           CloseGraph, ReleaseGraph, DrainTimesOut, ClearCleanup, Unpublished, WriteStep, CasStep, Go
      <4>4. QED BY <3>1, <4>2, <4>3
    <3>3. \A b \in Attempts : pc'[b] \in Serving /\ pc[b] \notin Serving =>
             node'.state = "unsealed" /\ node'.services = b
      BY <3>1, ServedByPublishing
    <3>4. node.state = "unsealed" => node' = node BY <3>1, UnsealedStays
    <3>5. QED BY <2>1, <3>2, <3>3, <3>4 DEF Routed
  <2>3. CASE \/ \E a \in Attempts : Stage2Returns(a)
             \/ \E s \in Sealers : SealBegin(s) \/ SealStep(s)
             \/ \E u \in Users : Finish(u) \/ \E a \in Attempts : Borrow(u, a)
             \/ Elapse
    <3>1. UNCHANGED <<pc, node>> BY <1>0, <2>3 DEF Stage2Returns, Finish, Borrow, Elapse, attemptVars, nodeVars
    <3>2. QED BY <2>1, <3>1 DEF Routed
  <2>4. QED BY <1>2, <2>2, <2>3 DEF MachineStep
<1>3. CASE RestartServer
  <2>1. /\ router' = None
        /\ \A a \in Attempts : /\ handler'[a] = IF handler[a] \in {"idle", "answered"} THEN handler[a] ELSE "dead"
                               /\ pc[a] = "idle" => pc'[a] = "idle"
        /\ handler' \in [Attempts -> {"idle", "waiting", "inside", "publishing", "answered", "dead"}]
    BY <1>3 DEF RestartServer, Restart, Routed
  <2>2. QED BY <2>1, NoneAssumption DEF Routed
<1>4. CASE UNCHANGED allVars
  BY <1>4 DEF Routed, allVars, routingVars, vars, nodeVars, attemptVars
<1>5. QED BY <1>1, <1>2, <1>3, <1>4 DEF RoutingNext

(* A business request that passes the gate is routed to the graph on       *)
(* offer, through any number of failed attempts, time-outs and restarts,   *)
(* until a runtime Seal is recorded.  From then on it need not be: the     *)
(* router of the first graph stays while the machine is unsealed again.    *)
THEOREM GateIsTheGraphs == RoutingSpec => [](NeverSealed => GateMatchesGraph)
<1>1. RoutingInit => Routed BY NoneAssumption DEF RoutingInit, Init, Routed
<1>2. RoutingSpec => [](Inv /\ JournalInv)
  BY RoutingRunsTheMachine, Invariance, JournalInvariance, PTL
<1>3. ASSUME Inv, JournalInv, NeverSealed => Routed, [RoutingNext]_allVars
      PROVE  (NeverSealed => Routed)'
  <2>1. SUFFICES ASSUME NeverSealed' PROVE Routed' OBVIOUS
  <2>2. NeverSealed
    <3>1. [Next]_vars BY <1>3, RoutingSteps
    <3>2. \A s \in Sealers : journal[s] \subseteq journal'[s]
      BY <1>3, <3>1, JournalGrows DEF vars
    <3>3. QED BY <2>1, <3>2 DEF NeverSealed
  <2>3. QED BY <1>3, <2>2, RoutedNext
<1>4. Routed => GateMatchesGraph BY DEF Routed, GateMatchesGraph, Passes
<1>5. QED BY <1>1, <1>2, <1>3, <1>4, PTL DEF RoutingSpec
=============================================================================
