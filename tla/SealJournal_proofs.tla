------------------------- MODULE SealJournal_proofs -------------------------
(***************************************************************************)
(* What the journal promises its caller, proved for rings of any size and  *)
(* any number of records, crashes and failing writes: the header in force  *)
(* is never the one that tears, a record that was acknowledged is found    *)
(* until the ring comes round to it, Open never refuses a journal that     *)
(* acknowledged something, no number is given twice and no rejection       *)
(* counted twice.  Until the first write that fails, the checkpoint stays  *)
(* behind what the audit log holds.                                        *)
(***************************************************************************)
EXTENDS SealJournal, TLAPS

(* Records of the right fields, whatever the counters hold.                *)
Shape(h) ==
  h \in [gen : Nat, idx : Nat, seqNext : {h.seqNext}, ckpt : {h.ckpt}, live : {h.live},
         snap : {h.snap}, rejected : {h.rejected}, first : {h.first}, last : {h.last}]
OpShape ==
  op \in [kind : {op.kind}, stage : {op.stage}, waiting : {op.waiting},
          slot : {op.slot}, next : {op.next}]

Shapes ==
  /\ ring = [i \in 0 .. Slots - 1 |-> ring[i]]
  /\ ringD = [i \in 0 .. Slots - 1 |-> ringD[i]]
  /\ heads = [i \in 0 .. 1 |-> heads[i]] /\ headsD = [i \in 0 .. 1 |-> headsD[i]]
  /\ \A i \in 0 .. 1 : Shape(heads[i]) /\ Shape(headsD[i])
  /\ Shape(hdr) /\ OpShape /\ Shape(op.next) /\ op.slot.idx \in Nat
  /\ \A s \in acked : s.idx \in Nat

(* A header lies in the slot of its generation.                            *)
Parity ==
  \A i \in 0 .. 1 : /\ heads[i].gen > 0 => HeaderSlot(heads[i].gen) = i
                    /\ headsD[i].gen > 0 => HeaderSlot(headsD[i].gen) = i

Files ==
  /\ status \in {"down", "creating", "up", "refused"}
  /\ file \in {"absent", "new", "kept"}
  /\ status = "up" => file = "kept"
  /\ status = "creating" => file = "new"
  /\ status = "down" => file # "new" /\ ring = ringD /\ heads = headsD
  /\ acked # {} => file = "kept"
  /\ status = "creating" /\ headsD[HeaderSlot(1)] = FirstHeader
       => heads[HeaderSlot(1)] = FirstHeader

(* Only a running process has an operation in hand.                        *)
Quiet == status # "up" => op = Idle

(* What lies in the other header slot is older, or the one being written,  *)
(* or one whose write was reported as failed.                              *)
Ahead(h) == h.gen > hdr.gen => h.idx >= hdr.idx
NoneBehind == status = "up" => \A i \in 0 .. 1 : Ahead(heads[i]) /\ Ahead(headsD[i])

(* What the operation in hand has done so far.                             *)
OpInv ==
  status = "up" /\ op.kind # "none" =>
    /\ op.stage # "slot" => op.next.gen = hdr.gen + 1 /\ op.next.idx >= hdr.idx
    /\ op.stage = "headerSync" => heads[HeaderSlot(op.next.gen)] = op.next
    /\ op.kind \in Records =>
         /\ op.slot.idx = hdr.idx
         /\ op.stage # "slot" =>
              /\ op.next.idx = hdr.idx + 1
              /\ ring[Ring(hdr.idx)] = op.slot
              /\ op.stage # "slotSync" => ringD[Ring(hdr.idx)] = op.slot

Survives(h) ==
  \A s \in acked :
    /\ s.idx < h.idx
    /\ s.idx + Slots > h.idx => ring[Ring(s.idx)] = s /\ ringD[Ring(s.idx)] = s

JInv ==
  /\ Shapes /\ Parity /\ Files /\ HeaderDurable /\ NoneBehind /\ Quiet /\ OpInv
  /\ status = "up" => Survives(hdr)
  /\ status = "down" /\ acked # {} => Newest.gen > 0 /\ Survives(Newest)
  /\ status = "refused" => acked = {}

-----------------------------------------------------------------------------
(* Successive generations go to different header slots.                    *)
LEMMA HeaderSlots ==
  ASSUME NEW g \in Nat
  PROVE  /\ HeaderSlot(g) \in 0 .. 1
         /\ HeaderSlot(g + 1) # HeaderSlot(g)
  BY DEF HeaderSlot

(* Two indexes less than a round apart lie in different slots of the ring. *)
LEMMA RingSlots ==
  ASSUME NEW i \in Nat
  PROVE  /\ Ring(i) \in 0 .. Slots - 1
         /\ \A j \in Nat : i < j /\ j < i + Slots => Ring(j) # Ring(i)
<1>1. Ring(i) \in 0 .. Slots - 1
  BY ConstantsAssumption DEF Ring
<1>2. ASSUME NEW j \in Nat, i < j, j < i + Slots, Ring(j) = Ring(i) PROVE FALSE
  <2> DEFINE q == j \div Slots
             p == i \div Slots
  <2>1. /\ i = Slots * p + Ring(i) /\ j = Slots * q + Ring(j)
        /\ p \in Int /\ q \in Int
    BY ConstantsAssumption DEF Ring
  <2> HIDE DEF p, q
  <2>2. j - i = Slots * q - Slots * p
    BY <1>2, <2>1, ConstantsAssumption DEF Ring
  <2>3. j - i = Slots * (q - p)
    BY <2>1, <2>2, ConstantsAssumption
  <2>4. CASE q - p <= 0
    <3>1. Slots * (q - p) <= 0
      BY <2>4, <2>1, ConstantsAssumption
    <3> QED BY <3>1, <2>3, <1>2
  <2>5. CASE q - p >= 1
    <3>1. Slots * (q - p) >= Slots
      BY <2>5, <2>1, ConstantsAssumption
    <3> QED BY <3>1, <2>3, <1>2, ConstantsAssumption
  <2> QED BY <2>1, <2>4, <2>5
<1> QED BY <1>1, <1>2

(* A step that touches neither the file nor the header, and leaves an      *)
(* operation in hand that its owner can account for.                       *)
LEMMA OpOnly ==
  ASSUME JInv, UNCHANGED <<fileVars, status, hdr, acked>>,
         OpShape', Shape(op.next)', op.slot.idx' \in Nat, OpInv', Quiet'
  PROVE  JInv'
<1>1. Shapes'
  BY DEF JInv, Shapes, Shape, fileVars
<1>2. Parity' /\ Files' /\ HeaderDurable' /\ NoneBehind'
  BY DEF JInv, Parity, Files, HeaderDurable, NoneBehind, Ahead, fileVars
<1>3. /\ (status = "up" => Survives(hdr))'
      /\ (status = "down" /\ acked # {} => Newest.gen > 0 /\ Survives(Newest))'
      /\ (status = "refused" => acked = {})'
  BY DEF JInv, Survives, Newest, fileVars
<1> QED BY <1>1, <1>2, <1>3 DEF JInv

LEMMA Untouched ==
  ASSUME JInv, UNCHANGED <<fileVars, status, hdr, op, acked>>
  PROVE  JInv'
<1>1. OpShape' /\ Shape(op.next)' /\ op.slot.idx' \in Nat
  BY DEF JInv, Shapes, Shape, OpShape
<1>2. OpInv' /\ Quiet'
  BY DEF JInv, OpInv, Quiet, fileVars
<1> QED BY <1>1, <1>2, OpOnly

(* The operation the owner goes back to.                                   *)
LEMMA IdleShape ==
  /\ Shape(Idle.next) /\ Idle.slot.idx \in Nat /\ Idle.kind = "none"
  /\ Idle \in [kind : {Idle.kind}, stage : {Idle.stage}, waiting : {Idle.waiting},
               slot : {Idle.slot}, next : {Idle.next}]
  BY DEF Idle, Operation, NoHeader, Empty, Shape

-----------------------------------------------------------------------------
LEMMA InitEstablishes == Init => JInv
<1> SUFFICES ASSUME Init PROVE JInv
  OBVIOUS
<1>1. Shape(NoHeader)
  BY DEF NoHeader, Shape
<1>2. Shapes
  BY <1>1, IdleShape DEF Init, Shapes, OpShape
<1>3. Parity
  BY DEF Init, Parity, NoHeader
<1> QED
  BY <1>2, <1>3 DEF Init, JInv, Files, Quiet, HeaderDurable, NoneBehind, OpInv, FirstHeader, NoHeader,
     HeaderSlot, Idle, Operation

LEMMA FirstShapes ==
  /\ Shape(NoHeader) /\ Shape(FirstHeader) /\ NoHeader.gen = 0 /\ FirstHeader.gen = 1
  /\ HeaderSlot(1) = 1
  BY DEF NoHeader, FirstHeader, Shape, HeaderSlot

LEMMA CreateFileStep == JInv /\ CreateFile => JInv'
<1> SUFFICES ASSUME JInv, CreateFile PROVE JInv'
  OBVIOUS
<1>1. acked = {} /\ acked' = {} /\ status' = "creating" /\ file' = "new"
      /\ UNCHANGED <<hdr, op>> /\ op = Idle
  BY DEF CreateFile, JInv, Files, Quiet, callerVars
<1>2. Shapes'
  BY <1>1, FirstShapes DEF CreateFile, JInv, Shapes, Shape, OpShape
<1>3. Parity' /\ headsD[HeaderSlot(1)]' = NoHeader
  BY FirstShapes DEF CreateFile, Parity
<1>4. Files'
  BY <1>1, <1>3, FirstShapes DEF Files
<1> QED
  BY <1>1, <1>2, <1>3, <1>4 DEF JInv, HeaderDurable, NoneBehind, OpInv, Quiet

LEMMA WriteFirstHeaderStep == JInv /\ WriteFirstHeader => JInv'
<1> SUFFICES ASSUME JInv, WriteFirstHeader PROVE JInv'
  OBVIOUS
<1>1. /\ status = "creating" /\ UNCHANGED <<file, ring, ringD, headsD, status, hdr, op, acked>>
      /\ heads' = [heads EXCEPT ![1] = FirstHeader]
  BY FirstShapes DEF WriteFirstHeader, ownerVars, callerVars
<1>2. heads[1]' = FirstHeader /\ heads[0]' = heads[0]
  BY <1>1 DEF JInv, Shapes
<1>3. Shapes'
  BY <1>1, <1>2, FirstShapes DEF JInv, Shapes, Shape, OpShape
<1>4. Parity'
  BY <1>1, <1>2, FirstShapes DEF JInv, Parity
<1>5. Files'
  BY <1>1, <1>2, FirstShapes DEF JInv, Files
<1> QED
  BY <1>1, <1>3, <1>4, <1>5 DEF JInv, HeaderDurable, NoneBehind, OpInv, Quiet

LEMMA SyncFirstHeaderStep == JInv /\ SyncFirstHeader => JInv'
<1> SUFFICES ASSUME JInv, SyncFirstHeader PROVE JInv'
  OBVIOUS
<1>1. /\ status = "creating" /\ UNCHANGED <<file, ring, ringD, heads, status, hdr, op, acked>>
      /\ headsD' = heads
  BY DEF SyncFirstHeader, ownerVars, callerVars
<1>2. Shapes'
  BY <1>1 DEF JInv, Shapes, Shape, OpShape
<1>3. Parity'
  BY <1>1 DEF JInv, Parity
<1>4. Files'
  BY <1>1 DEF JInv, Files
<1> QED
  BY <1>1, <1>2, <1>3, <1>4 DEF JInv, HeaderDurable, NoneBehind, OpInv, Quiet

LEMMA SyncDirectoryStep == JInv /\ SyncDirectory => JInv'
<1> SUFFICES ASSUME JInv, SyncDirectory PROVE JInv'
  OBVIOUS
<1>1. /\ status = "creating" /\ UNCHANGED <<ring, ringD, heads, headsD, op, acked>>
      /\ headsD[1] = FirstHeader /\ file' = "kept" /\ status' = "up" /\ hdr' = FirstHeader
      /\ op = Idle
  BY FirstShapes DEF SyncDirectory, Started, JInv, Quiet
<1>2. acked = {} /\ heads[1] = FirstHeader
  BY <1>1, FirstShapes DEF JInv, Files
<1>3. Shapes'
  BY <1>1, FirstShapes DEF JInv, Shapes, Shape, OpShape
<1>4. Parity' /\ Files'
  BY <1>1, <1>2 DEF JInv, Parity, Files
<1>5. HeaderDurable'
  BY <1>1, <1>2, FirstShapes DEF HeaderDurable
<1>6. NoneBehind'
  <2> SUFFICES ASSUME NEW i \in 0 .. 1
               PROVE  Ahead(heads[i])' /\ Ahead(headsD[i])'
    BY DEF NoneBehind
  <2>1. heads[i].idx \in Nat /\ headsD[i].idx \in Nat /\ FirstHeader.idx = 0
    BY DEF JInv, Shapes, Shape, FirstHeader
  <2> QED BY <1>1, <2>1 DEF Ahead
<1>7. OpInv'
  BY <1>1, IdleShape DEF OpInv
<1> QED
  BY <1>1, <1>2, <1>3, <1>4, <1>5, <1>6, <1>7 DEF JInv, Survives, Quiet

(* The header Open takes is the newer one, and lies where it should.       *)
LEMMA NewestIs ==
  ASSUME JInv
  PROVE  \E c \in 0 .. 1 :
           /\ Newest = heads[c]
           /\ \A i \in 0 .. 1 : heads[i].gen <= heads[c].gen
           /\ Newest.gen > 0 => HeaderSlot(Newest.gen) = c
<1>1. heads[0].gen \in Nat /\ heads[1].gen \in Nat
  BY DEF JInv, Shapes, Shape
<1>2. CASE heads[0].gen > heads[1].gen
  BY <1>1, <1>2 DEF Newest, JInv, Parity
<1>3. CASE ~(heads[0].gen > heads[1].gen)
  BY <1>1, <1>3 DEF Newest, JInv, Parity
<1> QED BY <1>2, <1>3

LEMMA OpenExistingStep == JInv /\ OpenExisting => JInv'
<1> SUFFICES ASSUME JInv, OpenExisting PROVE JInv'
  OBVIOUS
<1>1. status = "down" /\ file # "absent" /\ UNCHANGED fileVars /\ op' = op /\ acked' = acked
      /\ ring = ringD /\ heads = headsD /\ file = "kept" /\ op = Idle
  BY DEF OpenExisting, Started, JInv, Files, Quiet, callerVars
<1>2. Parity'
  BY <1>1 DEF JInv, Parity, fileVars
<1>3. CASE Newest.gen = 0
  <2>1. status' = "refused" /\ hdr' = hdr
    BY <1>3 DEF OpenExisting
  <2>2. acked = {}
    BY <1>1, <1>3 DEF JInv
  <2>3. Shapes'
    BY <1>1, <2>1 DEF JInv, Shapes, Shape, OpShape, fileVars
  <2>4. Files'
    BY <1>1, <2>1, <2>2 DEF JInv, Files, fileVars
  <2> QED
    BY <1>1, <1>2, <2>1, <2>2, <2>3, <2>4 DEF JInv, HeaderDurable, NoneBehind, OpInv, Quiet
<1>4. CASE Newest.gen # 0
  <2>1. status' = "up" /\ hdr' = Newest
    BY <1>4 DEF OpenExisting, Started
  <2>2. PICK c \in 0 .. 1 :
           /\ Newest = heads[c]
           /\ \A i \in 0 .. 1 : heads[i].gen <= heads[c].gen
           /\ Newest.gen > 0 => HeaderSlot(Newest.gen) = c
    BY NewestIs
  <2>3. \A i \in 0 .. 1 : heads[i].gen \in Nat
    BY DEF JInv, Shapes, Shape
  <2>4. Newest.gen > 0
    BY <1>4, <2>2, <2>3
  <2>5. Shapes'
    BY <1>1, <2>1, <2>2 DEF JInv, Shapes, Shape, OpShape, fileVars
  <2>6. Files'
    BY <1>1, <2>1 DEF JInv, Files, fileVars
  <2>7. HeaderDurable'
    BY <1>1, <2>1, <2>2, <2>4 DEF HeaderDurable, fileVars
  <2>8. NoneBehind'
    BY <1>1, <2>1, <2>2, <2>3 DEF NoneBehind, Ahead, fileVars
  <2>9. OpInv'
    BY <1>1, IdleShape DEF OpInv
  <2>10. Survives(hdr)'
    BY <1>1, <2>1 DEF JInv, Survives, fileVars
  <2> QED
    BY <1>2, <2>1, <2>5, <2>6, <2>7, <2>8, <2>9, <2>10 DEF JInv, Quiet
<1> QED BY <1>3, <1>4

-----------------------------------------------------------------------------
(* The caller's steps and the replay's.                                    *)
LEMMA OperationShape ==
  ASSUME NEW k, NEW stage, NEW waiting, NEW slot, NEW next,
         op' = Operation(k, stage, waiting, slot, next)
  PROVE  /\ OpShape'
         /\ op'.kind = k /\ op'.stage = stage /\ op'.waiting = waiting
         /\ op'.slot = slot /\ op'.next = next
  BY DEF Operation, OpShape

LEMMA SubmitStep ==
  ASSUME JInv, NEW k \in Records, Submit(k)
  PROVE  JInv'
<1>1. UNCHANGED <<fileVars, status, hdr, acked>>
  BY DEF Submit, callerVars
<1> DEFINE slot == [kind |-> k, seq |-> Number(k), idx |-> hdr.idx]
<1>2. op' = Operation(k, "slot", TRUE, slot, NoHeader) /\ status = "up" /\ slot.idx = hdr.idx
  BY DEF Submit, MayWrite
<1> HIDE DEF slot
<1>3. /\ OpShape' /\ op'.kind = k /\ op'.stage = "slot" /\ op'.slot = slot
      /\ op'.next = NoHeader
  BY <1>2, OperationShape
<1>4. Shape(op.next)' /\ op.slot.idx' \in Nat
  BY <1>1, <1>2, <1>3, FirstShapes DEF JInv, Shapes, Shape
<1>5. OpInv' /\ Quiet'
  BY <1>1, <1>2, <1>3 DEF OpInv, Quiet
<1> QED BY <1>1, <1>3, <1>4, <1>5, OpOnly

LEMMA JobStep ==
  ASSUME JInv, NEW k \in {"flush", "probe", "checkpoint"}, NEW next, Job(k, next),
         Shape(next), next.gen = hdr.gen + 1, next.idx = hdr.idx, op = Idle, status = "up",
         UNCHANGED <<fileVars, status, hdr, acked>>
  PROVE  JInv'
<1>1. /\ OpShape' /\ op'.kind = k /\ op'.stage = "header" /\ op'.slot = Empty
      /\ op'.next = next
  BY OperationShape DEF Job
<1>2. Shape(op.next)' /\ op.slot.idx' \in Nat
  BY <1>1 DEF Shape, Empty
<1>3. hdr.idx \in Nat /\ k \notin Records
  BY DEF JInv, Shapes, Shape, Records, Protocol
<1>4. OpInv' /\ Quiet'
  BY <1>1, <1>3 DEF OpInv, Quiet
<1> QED BY <1>1, <1>2, <1>4, OpOnly

LEMMA JobHeader ==
  ASSUME JInv, NEW r, NEW l, NEW n, NEW c
  PROVE  LET next == NextGeneration(r, l, n, c)
         IN  Shape(next) /\ next.gen = hdr.gen + 1 /\ next.idx = hdr.idx
<1>1. hdr.gen \in Nat /\ hdr.idx \in Nat
  BY DEF JInv, Shapes, Shape
<1> QED BY <1>1 DEF Shape, NextGeneration

LEMMA FlushRejectedStep == JInv /\ FlushRejected => JInv'
<1> SUFFICES ASSUME JInv, FlushRejected PROVE JInv'
  OBVIOUS
<1>1. UNCHANGED <<fileVars, status, hdr, acked>> /\ op = Idle /\ status = "up"
  BY DEF FlushRejected, callerVars
<1>2. CASE UNCHANGED op
  BY <1>1, <1>2, Untouched
<1> DEFINE next == NextGeneration(hdr.rejected + pending, hdr.live + pending, hdr.snap, hdr.ckpt)
<1>3. CASE Job("flush", next)
  <2>1. Shape(next) /\ next.gen = hdr.gen + 1 /\ next.idx = hdr.idx
    BY JobHeader
  <2> HIDE DEF next
  <2> QED BY <1>1, <1>3, <2>1, JobStep
<1> QED BY <1>2, <1>3 DEF FlushRejected

LEMMA ProbeRecoveryStep == JInv /\ ProbeRecovery => JInv'
<1> SUFFICES ASSUME JInv, ProbeRecovery PROVE JInv'
  OBVIOUS
<1> DEFINE next == NextGeneration(hdr.rejected, hdr.live, hdr.snap, hdr.ckpt)
<1>1. UNCHANGED <<fileVars, status, hdr, acked>> /\ op = Idle /\ status = "up"
      /\ Job("probe", next)
  BY DEF ProbeRecovery, callerVars
<1>2. Shape(next) /\ next.gen = hdr.gen + 1 /\ next.idx = hdr.idx
  BY JobHeader
<1> HIDE DEF next
<1> QED BY <1>1, <1>2, JobStep

LEMMA CheckpointStep == JInv /\ Checkpoint => JInv'
<1> SUFFICES ASSUME JInv, Checkpoint PROVE JInv'
  OBVIOUS
<1> DEFINE ckpt == IF replay.end > hdr.ckpt THEN replay.end ELSE hdr.ckpt
           next == NextGeneration(hdr.rejected, hdr.live, replay.live, ckpt)
<1>1. UNCHANGED <<fileVars, status, hdr, acked>> /\ op = Idle /\ status = "up"
      /\ Job("checkpoint", next)
  BY DEF Checkpoint, callerVars
<1> HIDE DEF ckpt
<1>2. Shape(next) /\ next.gen = hdr.gen + 1 /\ next.idx = hdr.idx
  BY JobHeader
<1> HIDE DEF next
<1> QED BY <1>1, <1>2, JobStep

LEMMA GiveUpStep == JInv /\ GiveUp => JInv'
<1> SUFFICES ASSUME JInv, GiveUp PROVE JInv'
  OBVIOUS
<1>1. UNCHANGED <<fileVars, status, hdr, acked>> /\ op' = [op EXCEPT !.waiting = FALSE]
      /\ status = "up"
  BY IdleShape DEF GiveUp, Waits, JInv, Quiet, Records, Protocol
<1>2. OpShape' /\ op'.kind = op.kind /\ op'.stage = op.stage /\ op'.slot = op.slot
      /\ op'.next = op.next
  BY <1>1 DEF JInv, Shapes, OpShape
<1>3. Shape(op.next)' /\ op.slot.idx' \in Nat
  BY <1>2 DEF JInv, Shapes, Shape
<1>4. OpInv' /\ Quiet'
  BY <1>1, <1>2 DEF JInv, OpInv, Quiet, fileVars
<1> QED BY <1>1, <1>2, <1>3, <1>4, OpOnly

-----------------------------------------------------------------------------
(* The owner's steps.  A step that fails ends the operation and changes    *)
(* nothing the invariant speaks of; only a header that is on the medium    *)
(* acknowledges.                                                           *)
LEMMA FaultFacts == Fault => op' = Idle /\ acked' = acked
  BY DEF Fault, Finish, callerVars

LEMMA BackToIdle ==
  ASSUME op' = Idle
  PROVE  OpShape' /\ Shape(op.next)' /\ op.slot.idx' \in Nat /\ OpInv' /\ Quiet'
  BY IdleShape DEF OpShape, OpInv, Quiet

(* An operation in hand that moves on to its next stage.                   *)
LEMMA NextStage ==
  ASSUME JInv, NEW stage, op' = [op EXCEPT !.stage = stage]
  PROVE  /\ OpShape' /\ Shape(op.next)' /\ op.slot.idx' \in Nat
         /\ op'.kind = op.kind /\ op'.stage = stage /\ op'.slot = op.slot
         /\ op'.next = op.next
<1>1. /\ OpShape' /\ op'.kind = op.kind /\ op'.stage = stage /\ op'.slot = op.slot
      /\ op'.next = op.next
  BY DEF JInv, Shapes, OpShape
<1> QED BY <1>1 DEF JInv, Shapes, Shape

LEMMA NextHeaderShape ==
  ASSUME JInv, NEW k, NEW n
  PROVE  /\ Shape(NextHeader(k, n))
         /\ NextHeader(k, n).gen = hdr.gen + 1 /\ NextHeader(k, n).idx = hdr.idx + 1
<1>1. hdr.gen \in Nat /\ hdr.idx \in Nat
  BY DEF JInv, Shapes, Shape
<1> QED BY <1>1 DEF Shape, NextHeader

LEMMA WriteSlotStep == JInv /\ WriteSlot => JInv'
<1> SUFFICES ASSUME JInv, WriteSlot PROVE JInv'
  OBVIOUS
<1> DEFINE c == Ring(hdr.idx)
           next == NextHeader(op.kind, op.slot.seq)
           Went == op' = [op EXCEPT !.stage = "slotSync", !.next = next]
<1>1. /\ status = "up" /\ op.kind \in Records /\ op.stage = "slot"
      /\ UNCHANGED <<file, heads, ringD, headsD, status, hdr>>
  BY DEF WriteSlot, At
<1>2. PICK x : /\ ring' = [ring EXCEPT ![c] = x]
               /\ acked' = acked
               /\ op' = Idle \/ (Went /\ x = op.slot)
  BY FaultFacts DEF WriteSlot, callerVars
<1>3. hdr.idx \in Nat /\ hdr.gen \in Nat /\ c \in 0 .. Slots - 1
  BY RingSlots DEF JInv, Shapes, Shape
<1> HIDE DEF c, next
<1>4. /\ ring' = [i \in 0 .. Slots - 1 |-> ring'[i]] /\ ring'[c] = x
      /\ \A i \in 0 .. Slots - 1 : i # c => ring'[i] = ring[i]
  BY <1>2, <1>3 DEF JInv, Shapes
<1>5. Survives(hdr)'
  <2> SUFFICES ASSUME NEW s \in acked, s.idx + Slots > hdr.idx
               PROVE  ring'[Ring(s.idx)] = ring[Ring(s.idx)]
    BY <1>1, <1>2 DEF JInv, Survives
  <2>1. s.idx \in Nat /\ s.idx < hdr.idx
    BY <1>1 DEF JInv, Shapes, Survives
  <2>2. Ring(s.idx) \in 0 .. Slots - 1 /\ Ring(s.idx) # c
    BY <2>1, <1>3, RingSlots DEF c
  <2> QED BY <2>2, <1>4
<1>6. OpShape' /\ Shape(op.next)' /\ op.slot.idx' \in Nat /\ OpInv' /\ Quiet'
  <2>1. CASE op' = Idle
    BY <2>1, BackToIdle
  <2>2. CASE Went /\ x = op.slot
    <3>1. Shape(next) /\ next.gen = hdr.gen + 1 /\ next.idx = hdr.idx + 1
      BY NextHeaderShape DEF next
    <3>2. /\ OpShape' /\ op'.kind = op.kind /\ op'.stage = "slotSync"
          /\ op'.slot = op.slot /\ op'.next = next
      BY <2>2 DEF JInv, Shapes, OpShape
    <3>3. Shape(op.next)' /\ op.slot.idx' \in Nat
      BY <3>1, <3>2 DEF JInv, Shapes, Shape
    <3>4. op.slot.idx = hdr.idx
      BY <1>1 DEF JInv, OpInv, Records, Protocol
    <3>5. OpInv' /\ Quiet'
      BY <1>1, <1>3, <1>4, <2>2, <3>1, <3>2, <3>4 DEF OpInv, Quiet, c
    <3> QED BY <3>2, <3>3, <3>5
  <2> QED BY <2>1, <2>2, <1>2
<1>7. Shapes'
  BY <1>1, <1>2, <1>4, <1>6 DEF JInv, Shapes, Shape
<1>8. Parity' /\ Files' /\ HeaderDurable' /\ NoneBehind'
  BY <1>1, <1>2 DEF JInv, Parity, Files, HeaderDurable, NoneBehind, Ahead
<1> QED BY <1>1, <1>5, <1>6, <1>7, <1>8 DEF JInv

LEMMA SyncSlotStep == JInv /\ SyncSlot => JInv'
<1> SUFFICES ASSUME JInv, SyncSlot PROVE JInv'
  OBVIOUS
<1>1. /\ status = "up" /\ op.kind # "none" /\ op.stage = "slotSync"
      /\ UNCHANGED <<file, ring, heads, status, hdr, acked>>
  BY FaultFacts DEF SyncSlot, At, callerVars
<1>2. CASE Fault /\ UNCHANGED <<ringD, headsD>>
  <2>1. UNCHANGED <<fileVars, status, hdr, acked>>
    BY <1>1, <1>2 DEF fileVars
  <2> QED BY <2>1, <1>2, FaultFacts, BackToIdle, OpOnly
<1>3. CASE ringD' = ring /\ headsD' = heads /\ op' = [op EXCEPT !.stage = "header"]
  <2>1. /\ OpShape' /\ Shape(op.next)' /\ op.slot.idx' \in Nat
        /\ op'.kind = op.kind /\ op'.stage = "header" /\ op'.slot = op.slot
        /\ op'.next = op.next
    BY <1>3, NextStage
  <2>2. Shapes'
    BY <1>1, <1>3, <2>1 DEF JInv, Shapes, Shape
  <2>3. Parity' /\ Files' /\ HeaderDurable' /\ NoneBehind'
    BY <1>1, <1>3 DEF JInv, Parity, Files, HeaderDurable, NoneBehind, Ahead
  <2>4. OpInv' /\ Quiet'
    BY <1>1, <1>3, <2>1 DEF JInv, OpInv, Quiet
  <2>5. Survives(hdr)'
    BY <1>1, <1>3 DEF JInv, Survives
  <2> QED BY <1>1, <2>2, <2>3, <2>4, <2>5 DEF JInv
<1> QED BY <1>2, <1>3 DEF SyncSlot

LEMMA WriteHeaderStep == JInv /\ WriteHeader => JInv'
<1> SUFFICES ASSUME JInv, WriteHeader PROVE JInv'
  OBVIOUS
<1> DEFINE c == HeaderSlot(op.next.gen)
           Went == op' = [op EXCEPT !.stage = "headerSync"]
<1>1. /\ status = "up" /\ op.kind # "none" /\ op.stage = "header"
      /\ UNCHANGED <<file, ring, ringD, headsD, status, hdr>>
  BY DEF WriteHeader, At
<1>2. PICK h \in {heads[c], op.next, NoHeader} :
         /\ heads' = [heads EXCEPT ![c] = h] /\ acked' = acked
         /\ op' = Idle \/ (Went /\ h = op.next)
  BY FaultFacts DEF WriteHeader, callerVars
<1>3. op.next.gen = hdr.gen + 1 /\ op.next.idx >= hdr.idx
  BY <1>1 DEF JInv, OpInv
<1>4. hdr.gen \in Nat /\ hdr.idx \in Nat /\ hdr.gen > 0
  BY <1>1 DEF JInv, Shapes, Shape, HeaderDurable
<1>5. c \in 0 .. 1 /\ c # HeaderSlot(hdr.gen) /\ HeaderSlot(hdr.gen) \in 0 .. 1
  BY <1>3, <1>4, HeaderSlots
<1>6. /\ Shape(h) /\ (h.gen > 0 => HeaderSlot(h.gen) = c) /\ Ahead(h)
  <2>1. CASE h = heads[c]
    BY <2>1, <1>1, <1>5 DEF JInv, Shapes, Parity, NoneBehind
  <2>2. CASE h = op.next
    BY <2>2, <1>3 DEF JInv, Shapes, Ahead
  <2>3. CASE h = NoHeader
    BY <2>3, <1>4, FirstShapes DEF Ahead
  <2> QED BY <1>2, <2>1, <2>2, <2>3
<1>7. /\ heads' = [i \in 0 .. 1 |-> heads'[i]] /\ heads'[c] = h
      /\ \A i \in 0 .. 1 : i # c => heads'[i] = heads[i]
  BY <1>2, <1>5 DEF JInv, Shapes
<1>8. OpShape' /\ Shape(op.next)' /\ op.slot.idx' \in Nat /\ OpInv' /\ Quiet'
  <2>1. CASE op' = Idle
    BY <2>1, BackToIdle
  <2>2. CASE Went /\ h = op.next
    <3>1. /\ OpShape' /\ Shape(op.next)' /\ op.slot.idx' \in Nat
          /\ op'.kind = op.kind /\ op'.stage = "headerSync" /\ op'.slot = op.slot
          /\ op'.next = op.next
      BY <2>2, NextStage
    <3>2. OpInv' /\ Quiet'
      BY <1>1, <1>7, <2>2, <3>1 DEF JInv, OpInv, Quiet
    <3> QED BY <3>1, <3>2
  <2> QED BY <2>1, <2>2, <1>2
<1> HIDE DEF c
<1>9. Shapes'
  <2>1. \A i \in 0 .. 1 : Shape(heads[i])'
    BY <1>6, <1>7 DEF JInv, Shapes, Shape
  <2> QED BY <1>1, <1>2, <1>7, <1>8, <2>1 DEF JInv, Shapes, Shape
<1>10. Parity'
  BY <1>1, <1>6, <1>7 DEF JInv, Parity
<1>11. HeaderDurable' /\ Files'
  BY <1>1, <1>2, <1>5, <1>7 DEF JInv, HeaderDurable, Files
<1>12. NoneBehind'
  BY <1>1, <1>6, <1>7 DEF JInv, NoneBehind, Ahead
<1>13. Survives(hdr)'
  BY <1>1, <1>2 DEF JInv, Survives
<1> QED BY <1>1, <1>8, <1>9, <1>10, <1>11, <1>12, <1>13 DEF JInv

LEMMA SyncHeaderStep == JInv /\ SyncHeader => JInv'
<1> SUFFICES ASSUME JInv, SyncHeader PROVE JInv'
  OBVIOUS
<1>1. /\ status = "up" /\ op.kind # "none" /\ op.stage = "headerSync"
      /\ UNCHANGED <<file, ring, heads, status>>
  BY DEF SyncHeader, At
<1>2. CASE Fault /\ UNCHANGED <<ringD, headsD, hdr>>
  <2>1. UNCHANGED <<fileVars, status, hdr, acked>>
    BY <1>1, <1>2, FaultFacts DEF fileVars
  <2> QED BY <2>1, <1>2, FaultFacts, BackToIdle, OpOnly
<1>3. CASE ringD' = ring /\ headsD' = heads /\ hdr' = op.next /\ Finish(TRUE)
  <2>1. /\ op.next.gen = hdr.gen + 1 /\ op.next.idx >= hdr.idx
        /\ heads[HeaderSlot(op.next.gen)] = op.next
    BY <1>1 DEF JInv, OpInv
  <2>2. /\ hdr.gen \in Nat /\ hdr.idx \in Nat /\ hdr.gen > 0
        /\ op.next.gen \in Nat /\ op.next.idx \in Nat
    BY <1>1 DEF JInv, Shapes, Shape, HeaderDurable
  <2>3. op' = Idle /\ (acked' = acked \/ (op.kind \in Records /\ acked' = acked \cup {op.slot}))
    BY <1>3 DEF Finish, Waits, callerVars
  <2>4. /\ OpShape' /\ Shape(op.next)' /\ op.slot.idx' \in Nat /\ OpInv' /\ Quiet'
    BY <2>3, BackToIdle
  <2>5. Shapes'
    <3>1. Shape(hdr)'
      BY <1>3 DEF JInv, Shapes, Shape
    <3>2. \A s \in acked' : s.idx \in Nat
      BY <2>3 DEF JInv, Shapes
    <3> QED BY <1>1, <1>3, <2>4, <3>1, <3>2 DEF JInv, Shapes, Shape
  <2>6. Parity' /\ Files'
    BY <1>1, <1>3 DEF JInv, Parity, Files
  <2>7. HeaderDurable'
    BY <1>1, <1>3, <2>1, <2>2 DEF HeaderDurable
  <2>8. NoneBehind'
    <3> SUFFICES ASSUME NEW i \in 0 .. 1
                 PROVE  Ahead(heads[i])' /\ Ahead(headsD[i])'
      BY DEF NoneBehind
    <3>1. heads[HeaderSlot(hdr.gen)] = hdr
      BY <1>1 DEF JInv, HeaderDurable
    <3>2. /\ HeaderSlot(hdr.gen) \in 0 .. 1 /\ HeaderSlot(op.next.gen) \in 0 .. 1
          /\ HeaderSlot(hdr.gen) # HeaderSlot(op.next.gen)
      BY <2>1, <2>2, HeaderSlots
    <3>3. i = HeaderSlot(hdr.gen) \/ i = HeaderSlot(op.next.gen)
      BY <3>2
    <3>4. heads[i] = hdr \/ heads[i] = op.next
      BY <3>1, <3>3, <2>1
    <3> QED BY <1>1, <1>3, <2>1, <2>2, <3>4 DEF Ahead
  <2>9. Survives(hdr)'
    <3> SUFFICES ASSUME NEW s \in acked'
                 PROVE  /\ s.idx < op.next.idx
                        /\ s.idx + Slots > op.next.idx => ring[Ring(s.idx)] = s
      BY <1>1, <1>3 DEF Survives
    <3>1. CASE s \in acked
      <4>1. s.idx \in Nat /\ s.idx < hdr.idx
            /\ (s.idx + Slots > hdr.idx => ring[Ring(s.idx)] = s)
        BY <1>1, <3>1 DEF JInv, Shapes, Survives
      <4> QED BY <4>1, <2>1, <2>2, ConstantsAssumption
    <3>2. CASE op.kind \in Records /\ s = op.slot
      <4>1. op.slot.idx = hdr.idx /\ op.next.idx = hdr.idx + 1 /\ ring[Ring(hdr.idx)] = op.slot
        BY <1>1, <3>2 DEF JInv, OpInv
      <4> QED BY <3>2, <4>1, <2>2
    <3> QED BY <3>1, <3>2, <2>3
  <2> QED BY <1>1, <2>4, <2>5, <2>6, <2>7, <2>8, <2>9 DEF JInv
<1> QED BY <1>2, <1>3 DEF SyncHeader

-----------------------------------------------------------------------------
(* The crash.  The header in force is on the medium, so it is found; the   *)
(* other slot holds something older, or a header that commits at least the *)
(* same slots.  The slots of the window are on the medium too.             *)
LEMMA SurvivorIs ==
  ASSUME NEW was, NEW is, NEW torn, NEW how
  PROVE  /\ Survivor(was, is, torn, how) \in {was, is, torn}
         /\ was = is => Survivor(was, is, torn, how) = is
  BY DEF Survivor

LEMMA CrashStep == JInv /\ Crash => JInv'
<1> SUFFICES ASSUME JInv, Crash PROVE JInv'
  OBVIOUS
<1>1. /\ status \in {"up", "creating"} /\ status' = "down" /\ hdr' = NoHeader /\ op' = Idle
      /\ acked' = acked /\ ringD' = ring' /\ headsD' = heads'
      /\ file' \in IF file = "new" THEN {"absent", "kept"} ELSE {file}
  BY DEF Crash
<1>2. /\ ring' = [i \in 0 .. Slots - 1 |-> ring'[i]]
      /\ \A i \in 0 .. Slots - 1 : ring[i] = ringD[i] => ring'[i] = ring[i]
  <2>1. PICK r : ring' = [i \in 0 .. Slots - 1 |->
                            IF ring[i] = ringD[i] THEN ring[i]
                            ELSE Survivor(ringD[i], ring[i], Torn, r[i])]
    BY DEF Crash
  <2> QED BY <2>1
<1>3. PICK h : heads' = [i \in 0 .. 1 |-> Survivor(headsD[i], heads[i], NoHeader, h[i])]
  BY DEF Crash
<1>4. \A i \in 0 .. 1 : /\ heads'[i] = headsD[i] \/ heads'[i] = heads[i] \/ heads'[i] = NoHeader
                        /\ headsD[i] = heads[i] => heads'[i] = heads[i]
  BY <1>3, SurvivorIs
<1>5. heads' = [i \in 0 .. 1 |-> heads'[i]]
  BY <1>3
<1>6. Shapes'
  <2>1. \A i \in 0 .. 1 : Shape(heads[i])'
    <3> SUFFICES ASSUME NEW i \in 0 .. 1 PROVE Shape(heads[i])'
      OBVIOUS
    <3>1. Shape(heads[i]) /\ Shape(headsD[i])
      BY DEF JInv, Shapes
    <3>2. heads'[i] = headsD[i] \/ heads'[i] = heads[i] \/ heads'[i] = NoHeader
      BY <1>4
    <3> QED BY <3>1, <3>2, FirstShapes
  <2>2. OpShape' /\ Shape(op.next)' /\ op.slot.idx' \in Nat
    BY <1>1, BackToIdle
  <2> QED BY <1>1, <1>2, <1>5, <2>1, <2>2, FirstShapes DEF JInv, Shapes, Shape
<1>7. Parity'
  <2> SUFFICES ASSUME NEW i \in 0 .. 1, heads'[i].gen > 0
               PROVE  HeaderSlot(heads'[i].gen) = i
    BY <1>1 DEF Parity
  <2>1. heads'[i] # NoHeader
    BY FirstShapes
  <2>2. /\ heads[i].gen > 0 => HeaderSlot(heads[i].gen) = i
        /\ headsD[i].gen > 0 => HeaderSlot(headsD[i].gen) = i
    BY DEF JInv, Parity
  <2>3. heads'[i] = headsD[i] \/ heads'[i] = heads[i] \/ heads'[i] = NoHeader
    BY <1>4
  <2> QED BY <2>1, <2>2, <2>3
<1>8. Files'
  BY <1>1 DEF JInv, Files
<1>9. ASSUME acked # {} PROVE (Newest.gen > 0 /\ Survives(Newest))'
  <2> DEFINE c == HeaderSlot(hdr.gen)
  <2>1. status = "up"
    BY <1>1, <1>9 DEF JInv, Files
  <2>2. hdr.gen \in Nat /\ hdr.gen > 0 /\ hdr.idx \in Nat /\ c \in 0 .. 1
    BY <2>1, HeaderSlots DEF JInv, Shapes, Shape, HeaderDurable
  <2>3. heads'[c] = hdr
    <3>1. heads[c] = hdr /\ headsD[c] = hdr
      BY <2>1 DEF JInv, HeaderDurable
    <3> HIDE DEF c
    <3> QED BY <3>1, <2>2, <1>4
  <2>4. \A i \in 0 .. 1 : heads'[i].gen \in Nat /\ heads'[i].idx \in Nat
    BY <1>6 DEF Shapes, Shape
  <2>5. \A i \in 0 .. 1 : heads'[i].gen > hdr.gen => heads'[i].idx >= hdr.idx
    BY <1>4, <2>1, <2>2, FirstShapes DEF JInv, NoneBehind, Ahead
  <2>6. \A i \in 0 .. 1 : heads'[i].gen = hdr.gen => heads'[i] = hdr
    BY <1>7, <2>2, <2>3 DEF Parity
  <2> HIDE DEF c
  <2>7. PICK j \in 0 .. 1 : Newest' = heads'[j] /\ heads'[j].gen >= hdr.gen
    <3>1. heads'[0].gen >= hdr.gen \/ heads'[1].gen >= hdr.gen
      BY <2>2, <2>3
    <3> QED BY <3>1, <2>2, <2>4 DEF Newest
  <2>8. Newest'.gen > 0 /\ Newest'.idx \in Nat /\ Newest'.idx >= hdr.idx
    BY <2>2, <2>4, <2>5, <2>6, <2>7
  <2>9. Survives(Newest)'
    <3> SUFFICES ASSUME NEW s \in acked
                 PROVE  /\ s.idx < Newest'.idx
                        /\ s.idx + Slots > Newest'.idx => ring'[Ring(s.idx)] = s
      BY <1>1 DEF Survives
    <3>1. /\ s.idx \in Nat /\ s.idx < hdr.idx /\ Ring(s.idx) \in 0 .. Slots - 1
          /\ s.idx + Slots > hdr.idx => ring[Ring(s.idx)] = s /\ ringD[Ring(s.idx)] = s
      BY <2>1, RingSlots DEF JInv, Shapes, Survives
    <3> QED BY <3>1, <2>2, <2>8, <1>2, ConstantsAssumption
  <2> QED BY <2>8, <2>9
<1> QED
  BY <1>1, <1>6, <1>7, <1>8, <1>9 DEF JInv, HeaderDurable, NoneBehind, Quiet, OpInv

-----------------------------------------------------------------------------
LEMMA Inductive == JInv /\ [Next]_vars => JInv'
<1> SUFFICES ASSUME JInv, [Next]_vars PROVE JInv'
  OBVIOUS
<1>1. CASE UNCHANGED vars
  BY <1>1, Untouched DEF vars, fileVars, ownerVars, callerVars
<1>2. CASE CreateFile \/ WriteFirstHeader \/ SyncFirstHeader \/ SyncDirectory \/ OpenExisting
  BY <1>2, CreateFileStep, WriteFirstHeaderStep, SyncFirstHeaderStep, SyncDirectoryStep,
     OpenExistingStep
<1>3. ASSUME NEW k \in Records, Submit(k) PROVE JInv'
  BY <1>3, SubmitStep
<1>4. ASSUME NEW k \in Records, NotAccepted(k) PROVE JInv'
  BY <1>4, Untouched DEF NotAccepted, ownerVars
<1>5. CASE GiveUp
  BY <1>5, GiveUpStep
<1>6. CASE CloseGate \/ RecordRejected
  BY <1>6, Untouched DEF CloseGate, RecordRejected, ownerVars, callerVars
<1>7. CASE OwnerStep
  BY <1>7, WriteSlotStep, SyncSlotStep, WriteHeaderStep, SyncHeaderStep DEF OwnerStep
<1>8. CASE FlushRejected \/ ProbeRecovery
  BY <1>8, FlushRejectedStep, ProbeRecoveryStep
<1>9. CASE ReserveWrite \/ Snapshot \/ Commit
  BY <1>9, Untouched DEF ReserveWrite, Snapshot, Commit, ownerVars, callerVars
<1>10. CASE Checkpoint
  BY <1>10, CheckpointStep
<1>11. CASE Crash
  BY <1>11, CrashStep
<1> QED
  BY <1>1, <1>2, <1>3, <1>4, <1>5, <1>6, <1>7, <1>8, <1>9, <1>10, <1>11
     DEF Next, ReplayStep

(* The invariant the three promises follow from.                           *)
THEOREM JournalInvariance == Spec => []JInv
  BY InitEstablishes, Inductive, PTL DEF Spec

(* The header that acknowledged the last record is on the medium and the   *)
(* next one goes to the other slot, so a torn write never hits it          *)
(* (open.go:310, journal.go:315).                                          *)
THEOREM HeaderStays == Spec => []HeaderDurable
<1>1. JInv => HeaderDurable
  BY DEF JInv
<1> QED BY <1>1, JournalInvariance, PTL

(* Open never refuses a journal that acknowledged a record: of any number  *)
(* of crashes and failed writes, none leaves both headers invalid          *)
(* (open.go:268).                                                          *)
THEOREM NeverRefused == Spec => []NeverLocksOut
<1>1. JInv => NeverLocksOut
  BY DEF JInv, NeverLocksOut
<1> QED BY <1>1, JournalInvariance, PTL

(* What WriteReceived, WriteOutcome and WritePublished reported as done is *)
(* found, in a running process and on the medium, until the ring comes     *)
(* round to its slot (journal.go:237).                                     *)
THEOREM RecordsSurvive == Spec => []AckedSurvives
<1>1. JInv => AckedSurvives
  BY DEF JInv, AckedSurvives, Survives
<1> QED BY <1>1, JournalInvariance, PTL
-----------------------------------------------------------------------------
(* Numbers and counters.  Every header there is, wherever it lies, was     *)
(* there before, is empty or the first one, or is being made by this step. *)
Headers == {hdr, op.next, heads[0], heads[1], headsD[0], headsD[1]}

Made(h) ==
  \/ WriteSlot /\ h = NextHeader(op.kind, op.slot.seq)
  \/ FlushRejected /\ h = NextGeneration(hdr.rejected + pending, hdr.live + pending,
                                         hdr.snap, hdr.ckpt)
  \/ ProbeRecovery /\ h = NextGeneration(hdr.rejected, hdr.live, hdr.snap, hdr.ckpt)
  \/ Checkpoint /\ h = NextGeneration(hdr.rejected, hdr.live, replay.live,
                                      IF replay.end > hdr.ckpt THEN replay.end ELSE hdr.ckpt)
Known(h) == h \in Headers \cup {NoHeader, FirstHeader} \/ Made(h)

(* Where the headers of the next state come from, first for a step that    *)
(* leaves the file's alone.                                                *)
LEMMA HeadersKept ==
  ASSUME heads' = heads, headsD' = headsD, Known(hdr'), Known(op'.next)
  PROVE  \A h \in Headers' : Known(h)
BY DEF Headers, Known

(* The same for the owner's four steps, and for the file's creation,       *)
(* opening and loss.                                                       *)
LEMMA OwnerHeaders ==
  ASSUME JInv, OwnerStep
  PROVE  \A h \in Headers' : Known(h)
<1>1. OpShape BY DEF JInv, Shapes
<1>2. Idle.next = NoHeader BY DEF Idle, Operation
<1>3. Fault => op' = Idle BY DEF Fault, Finish
<1>4. CASE WriteSlot
  <2>1. UNCHANGED <<heads, headsD, hdr>> BY <1>4 DEF WriteSlot
  <2>2. op' = Idle \/ op' = [op EXCEPT !.stage = "slotSync", !.next = NextHeader(op.kind, op.slot.seq)]
    BY <1>3, <1>4 DEF WriteSlot
  <2>3. op'.next = NoHeader \/ op'.next = NextHeader(op.kind, op.slot.seq)
    BY <1>1, <1>2, <2>2 DEF OpShape
  <2>4. QED BY <1>4, <2>1, <2>3 DEF Headers, Known, Made
<1>5. CASE SyncSlot
  <2>1. UNCHANGED <<heads, hdr>> /\ (headsD' = headsD \/ headsD' = heads) BY <1>5 DEF SyncSlot
  <2>2. op' = Idle \/ op' = [op EXCEPT !.stage = "header"] BY <1>3, <1>5 DEF SyncSlot
  <2>3. op'.next = NoHeader \/ op'.next = op.next BY <1>1, <1>2, <2>2 DEF OpShape
  <2>4. QED BY <2>1, <2>3 DEF Headers, Known
<1>6. CASE WriteHeader
  <2> DEFINE c == HeaderSlot(op.next.gen)
  <2>1. UNCHANGED <<headsD, hdr>> BY <1>6 DEF WriteHeader
  <2>2. op' = Idle \/ op' = [op EXCEPT !.stage = "headerSync"] BY <1>3, <1>6 DEF WriteHeader
  <2>3. op'.next = NoHeader \/ op'.next = op.next BY <1>1, <1>2, <2>2 DEF OpShape
  <2>4. PICK h \in {heads[c], op.next, NoHeader} : heads' = [heads EXCEPT ![c] = h]
    BY <1>6 DEF WriteHeader
  <2>5. \A i \in 0 .. 1 : heads'[i] = heads[i] \/ heads'[i] \in {op.next, NoHeader}
    BY <2>4 DEF JInv, Shapes
  <2>6. QED BY <2>1, <2>3, <2>5 DEF Headers, Known
<1>7. CASE SyncHeader
  <2>1. /\ heads' = heads /\ (headsD' = headsD \/ headsD' = heads)
        /\ (hdr' = hdr \/ hdr' = op.next) /\ op' = Idle
    BY <1>3, <1>7 DEF SyncHeader, Finish
  <2>2. QED BY <1>2, <2>1 DEF Headers, Known
<1>8. QED BY <1>4, <1>5, <1>6, <1>7 DEF OwnerStep

LEMMA FileHeaders ==
  ASSUME JInv, CreateFile \/ WriteFirstHeader \/ SyncFirstHeader \/ SyncDirectory
               \/ OpenExisting \/ Crash
  PROVE  \A h \in Headers' : Known(h)
<1>1. CASE CreateFile
  <2>1. UNCHANGED <<hdr, op>> /\ heads' = [i \in 0 .. 1 |-> NoHeader] /\ headsD' = heads'
    BY <1>1 DEF CreateFile
  <2>2. QED BY <2>1 DEF Headers, Known
<1>2. CASE WriteFirstHeader
  <2>1. UNCHANGED <<hdr, op, headsD>> /\ heads' = [heads EXCEPT ![1] = FirstHeader]
    BY <1>2, FirstShapes DEF WriteFirstHeader, ownerVars
  <2>2. \A i \in 0 .. 1 : heads'[i] \in {heads[i], FirstHeader} BY <2>1 DEF JInv, Shapes
  <2>3. QED BY <2>1, <2>2 DEF Headers, Known
<1>3. CASE SyncFirstHeader
  <2>1. UNCHANGED <<hdr, op, heads>> /\ headsD' = heads
    BY <1>3 DEF SyncFirstHeader, ownerVars
  <2>2. QED BY <2>1 DEF Headers, Known
<1>4. CASE SyncDirectory
  <2>1. UNCHANGED <<heads, op, headsD>> /\ hdr' = FirstHeader
    BY <1>4 DEF SyncDirectory, Started
  <2>2. QED BY <2>1 DEF Headers, Known
<1>5. CASE OpenExisting
  <2>1. UNCHANGED <<heads, op, headsD>> /\ hdr' \in {hdr, heads[0], heads[1]}
    BY <1>5 DEF OpenExisting, Started, Newest, fileVars
  <2>2. QED BY <2>1 DEF Headers, Known
<1>6. CASE Crash
  <2>1. hdr' = NoHeader /\ op' = Idle /\ Idle.next = NoHeader /\ headsD' = heads'
    BY <1>6 DEF Crash, Idle, Operation
  <2>2. PICK h : heads' = [i \in 0 .. 1 |-> Survivor(headsD[i], heads[i], NoHeader, h[i])]
    BY <1>6 DEF Crash
  <2>3. \A i \in 0 .. 1 : heads'[i] \in {headsD[i], heads[i], NoHeader} BY <2>2, SurvivorIs
  <2>4. QED BY <2>1, <2>3 DEF Headers, Known
<1>7. QED BY <1>1, <1>2, <1>3, <1>4, <1>5, <1>6

(* Every header of the next state was there, is the first, or is made now. *)
LEMMA HeadersKnown ==
  ASSUME JInv, [Next]_vars
  PROVE  \A h \in Headers' : Known(h)
<1>1. CASE UNCHANGED <<heads, headsD, hdr, op>>
  BY <1>1 DEF Headers, Known
<1>2. ASSUME UNCHANGED <<heads, headsD, hdr>>, NEW k, NEW stage, NEW waiting, NEW slot, NEW next,
             op' = Operation(k, stage, waiting, slot, next), Known(next)
      PROVE  \A h \in Headers' : Known(h)
  BY <1>2, OperationShape DEF Headers, Known
<1>3. ASSUME NEW k \in Records, Submit(k) \/ NotAccepted(k) PROVE \A h \in Headers' : Known(h)
  <2>1. CASE Submit(k)
    <3>1. Known(NoHeader) /\ UNCHANGED <<heads, headsD, hdr>> BY <2>1 DEF Known, Submit, fileVars
    <3>2. op' = Operation(k, "slot", TRUE, [kind |-> k, seq |-> Number(k), idx |-> hdr.idx], NoHeader)
      BY <2>1 DEF Submit
    <3>3. QED BY <1>2, <3>1, <3>2
  <2>2. CASE NotAccepted(k) BY <1>1, <2>2 DEF NotAccepted, fileVars, ownerVars
  <2>3. QED BY <1>3, <2>1, <2>2
<1>4. CASE GiveUp
  <2>1. UNCHANGED <<heads, headsD, hdr>> /\ op' = [op EXCEPT !.waiting = FALSE]
    BY <1>4 DEF GiveUp, fileVars
  <2>2. op'.next = op.next BY <2>1 DEF JInv, Shapes, OpShape
  <2>3. QED BY <2>1, <2>2 DEF Headers, Known
<1>5. CASE CloseGate \/ RecordRejected \/ ReserveWrite \/ Snapshot \/ Commit
  BY <1>1, <1>5 DEF CloseGate, RecordRejected, ReserveWrite, Snapshot, Commit, fileVars, ownerVars
<1>6. CASE FlushRejected
  <2>1. UNCHANGED <<heads, headsD, hdr>> BY <1>6 DEF FlushRejected, fileVars
  <2>2. CASE UNCHANGED op BY <1>1, <2>1, <2>2
  <2> DEFINE next == NextGeneration(hdr.rejected + pending, hdr.live + pending, hdr.snap, hdr.ckpt)
  <2>3. CASE Job("flush", next)
    <3>1. Known(next) BY <1>6 DEF Known, Made
    <3>2. QED BY <1>2, <2>1, <2>3, <3>1 DEF Job
  <2>4. QED BY <1>6, <2>2, <2>3 DEF FlushRejected
<1>7. CASE ProbeRecovery
  <2> DEFINE next == NextGeneration(hdr.rejected, hdr.live, hdr.snap, hdr.ckpt)
  <2>1. UNCHANGED <<heads, headsD, hdr>> /\ Job("probe", next) BY <1>7 DEF ProbeRecovery, fileVars
  <2>2. Known(next) BY <1>7 DEF Known, Made
  <2>3. QED BY <1>2, <2>1, <2>2 DEF Job
<1>8. CASE Checkpoint
  <2> DEFINE next == NextGeneration(hdr.rejected, hdr.live, replay.live,
                                    IF replay.end > hdr.ckpt THEN replay.end ELSE hdr.ckpt)
  <2>1. UNCHANGED <<heads, headsD, hdr>> /\ Job("checkpoint", next) BY <1>8 DEF Checkpoint, fileVars
  <2>2. Known(next) BY <1>8 DEF Known, Made
  <2>3. QED BY <1>2, <2>1, <2>2 DEF Job
<1>9. QED
  BY <1>1, <1>3, <1>4, <1>5, <1>6, <1>7, <1>8, OwnerHeaders, FileHeaders
     DEF Next, ReplayStep, vars, fileVars, ownerVars
-----------------------------------------------------------------------------
(* What becomes of the operation in hand: it ends, stays, goes on to its   *)
(* next stage, has its slot written, or is a new record or a new job.      *)
OpSame == /\ op'.kind = op.kind /\ op'.stage = op.stage
          /\ op'.slot = op.slot /\ op'.next = op.next
          /\ op'.waiting = op.waiting \/ (GiveUp /\ op'.waiting = FALSE)
OpGoesOn == /\ op.kind # "none" /\ op.stage # "slot" /\ op'.stage # "slot"
            /\ op'.kind = op.kind /\ op'.slot = op.slot /\ op'.next = op.next
            /\ op'.waiting = op.waiting
OpWritten == /\ WriteSlot /\ op.kind \in Records /\ op.stage = "slot" /\ op'.stage # "slot"
             /\ op'.kind = op.kind /\ op'.slot = op.slot /\ op'.waiting = op.waiting
             /\ op'.next = NextHeader(op.kind, op.slot.seq)
OpSubmitted(k) == /\ Submit(k) /\ op'.kind = k /\ op'.stage = "slot" /\ op'.next = NoHeader
                  /\ op'.slot = [kind |-> k, seq |-> Number(k), idx |-> hdr.idx]
OpJob(next) ==
  /\ op = Idle /\ op'.stage # "slot" /\ op'.next = next
  /\ \/ /\ FlushRejected /\ op'.kind = "flush"
        /\ next = NextGeneration(hdr.rejected + pending, hdr.live + pending, hdr.snap, hdr.ckpt)
     \/ /\ ProbeRecovery /\ op'.kind = "probe"
        /\ next = NextGeneration(hdr.rejected, hdr.live, hdr.snap, hdr.ckpt)
     \/ /\ Checkpoint /\ op'.kind = "checkpoint"
        /\ next = NextGeneration(hdr.rejected, hdr.live, replay.live,
                                 IF replay.end > hdr.ckpt THEN replay.end ELSE hdr.ckpt)
OpMove == OpSame \/ OpGoesOn \/ OpWritten \/ (\E k \in Records : OpSubmitted(k))
          \/ OpJob(op'.next)

(* What a step may do to the operation in hand: drop it, keep it, move it  *)
(* on, write its slot, submit it or make it a job of the owner's own.      *)
LEMMA OwnerOp ==
  ASSUME JInv, OwnerStep
  PROVE  op' = Idle \/ (UNCHANGED <<status, hdr, pending>> /\ (OpGoesOn \/ OpWritten))
<1>1. OpShape /\ status' = status BY DEF JInv, Shapes, OwnerStep, WriteSlot, SyncSlot, WriteHeader, SyncHeader
<1>2. CASE WriteSlot
  <2>1. hdr' = hdr /\ op.kind \in Records /\ op.stage = "slot" BY <1>2 DEF WriteSlot, At
  <2>2. \/ op' = Idle
        \/ /\ op' = [op EXCEPT !.stage = "slotSync", !.next = NextHeader(op.kind, op.slot.seq)]
           /\ pending' = pending
    BY <1>2, FaultFacts DEF WriteSlot
  <2>3. CASE op' = [op EXCEPT !.stage = "slotSync", !.next = NextHeader(op.kind, op.slot.seq)]
    BY <1>1, <1>2, <2>1, <2>2, <2>3 DEF OpShape, OpWritten
  <2>4. QED BY <1>1, <2>1, <2>2, <2>3
<1>3. CASE SyncSlot \/ WriteHeader \/ SyncHeader
  <2>1. op.kind # "none" /\ op.stage # "slot"
    BY <1>3 DEF SyncSlot, WriteHeader, SyncHeader, At
  <2>2. \/ op' = Idle
        \/ /\ op' = [op EXCEPT !.stage = "header"] \/ op' = [op EXCEPT !.stage = "headerSync"]
           /\ UNCHANGED <<hdr, pending>>
    BY <1>3, FaultFacts DEF SyncSlot, WriteHeader, SyncHeader, Finish
  <2>3. CASE op' = [op EXCEPT !.stage = "header"] BY <1>1, <2>1, <2>2, <2>3 DEF OpShape, OpGoesOn
  <2>4. CASE op' = [op EXCEPT !.stage = "headerSync"]
    BY <1>1, <2>1, <2>2, <2>4 DEF OpShape, OpGoesOn
  <2>5. QED BY <2>2, <2>3, <2>4
<1>4. QED BY <1>2, <1>3 DEF OwnerStep

LEMMA OpMoves ==
  ASSUME JInv, [Next]_vars
  PROVE  \/ op' = Idle
         \/ /\ UNCHANGED <<status, hdr>> /\ OpMove
            /\ pending' = pending \/ (RecordRejected /\ OpSame)
<1>1. CASE CreateFile \/ WriteFirstHeader \/ SyncFirstHeader \/ SyncDirectory \/ OpenExisting
  BY <1>1 DEF JInv, Quiet, CreateFile, WriteFirstHeader, SyncFirstHeader, SyncDirectory,
     OpenExisting, Started, ownerVars
<1>2. ASSUME NEW k \in Records, Submit(k)
      PROVE  UNCHANGED <<status, hdr, pending>> /\ OpSubmitted(k)
  BY <1>2 DEF Submit, OpSubmitted, Operation
<1>3. CASE GiveUp
  <2>1. UNCHANGED <<status, hdr, pending>> /\ op' = [op EXCEPT !.waiting = FALSE]
    BY <1>3 DEF GiveUp
  <2>2. OpSame BY <1>3, <2>1 DEF JInv, Shapes, OpShape, OpSame
  <2>3. QED BY <2>1, <2>2 DEF OpMove
<1>4. CASE FlushRejected \/ ProbeRecovery \/ Checkpoint
  <2>1. UNCHANGED <<status, hdr, pending>> /\ op = Idle
    BY <1>4 DEF FlushRejected, ProbeRecovery, Checkpoint
  <2>2. op' = op \/ OpJob(op'.next)
    BY <1>4, <2>1 DEF FlushRejected, ProbeRecovery, Checkpoint, Job, Operation, OpJob
  <2>3. QED BY <2>1, <2>2 DEF OpMove
<1>5. UNCHANGED vars \/ (\E k \in Records : NotAccepted(k)) \/ CloseGate \/ RecordRejected
      \/ ReserveWrite \/ Snapshot \/ Commit
      => UNCHANGED <<status, hdr, op>> /\ (pending' = pending \/ RecordRejected)
  BY DEF NotAccepted, CloseGate, RecordRejected, ReserveWrite, Snapshot, Commit, vars, ownerVars
<1>6. UNCHANGED op => OpSame BY DEF OpSame
<1>7. CASE Crash BY <1>7 DEF Crash
<1>8. QED
  BY <1>1, <1>2, <1>3, <1>4, <1>5, <1>6, <1>7, OwnerOp DEF Next, ReplayStep, OpMove

(* Numbers and counters are natural numbers, and only a running process    *)
(* has any of its own.                                                     *)
Counted(h) == {h.seqNext, h.live, h.snap, h.rejected} \subseteq Nat
              /\ (h.gen > 0 => h.seqNext > 0)
SlotNumbers == \A i \in 0 .. Slots - 1 : ring[i].seq \in Nat /\ ringD[i].seq \in Nat
Amounts ==
  /\ {seq, pending, rejected, crashes, faults, op.slot.seq, replay.live} \subseteq Nat
  /\ replay.delta \in Int /\ db.counted \in Int
  /\ \A s \in acked : s.seq \in Nat
Asleep == status # "up" => hdr = NoHeader /\ pending = 0 /\ replay = Off /\ client = "down"

Counters == (\A h \in Headers : Counted(h)) /\ SlotNumbers /\ Amounts /\ Asleep

(* Rejections: no header counts more than there were, and the header in    *)
(* force and the batch not flushed yet make up all of them until a crash.  *)
BatchInHand ==
  status = "up" /\ op.kind # "none" /\ op.stage # "slot" =>
    IF op.kind = "flush" THEN /\ hdr.rejected <= op.next.rejected
                              /\ op.next.rejected <= hdr.rejected + pending
    ELSE op.next.rejected = hdr.rejected
RejectedInv ==
  /\ \A h \in Headers : h.rejected <= rejected
  /\ RejectedOnce
  /\ crashes = 0 /\ status # "up" => rejected = 0
  /\ BatchInHand

-----------------------------------------------------------------------------
LEMMA OffFields ==
  /\ Off.at = "off" /\ Off.live = 0 /\ Off.delta = 0
  /\ [Off EXCEPT !.at = "due"].live = 0 /\ [Off EXCEPT !.at = "due"].delta = 0
  /\ [Off EXCEPT !.at = "due"].at = "due"
  /\ [Off EXCEPT !.at = "reserved"].live = 0 /\ [Off EXCEPT !.at = "reserved"].delta = 0
  /\ [Off EXCEPT !.at = "reserved"].at = "reserved"
BY DEF Off

(* The fields of the constants, for provers that do not look into records. *)
LEMMA IdleFields ==
  /\ Idle.kind = "none" /\ Idle.stage = "slot" /\ Idle.waiting = FALSE /\ Idle.slot = Empty
  /\ Idle.next = NoHeader /\ Empty.seq = 0 /\ Torn.seq = 0 /\ Empty.kind = "empty" /\ Torn.kind = "torn"
BY DEF Idle, Operation, Empty, Torn

LEMMA FirstCounts == Counted(NoHeader) /\ Counted(FirstHeader)
                     /\ NoHeader.rejected = 0 /\ FirstHeader.rejected = 0
BY DEF Counted, NoHeader, FirstHeader

(* The counters of the header in force and of the one in hand.             *)
LEMMA InForceCounts ==
  ASSUME JInv, Counters
  PROVE  /\ Counted(hdr) /\ Counted(op.next)
         /\ status = "up" => hdr.seqNext > 0 /\ hdr.gen > 0 /\ hdr.gen \in Nat
         /\ hdr.idx \in Nat
BY DEF JInv, Shapes, Shape, HeaderDurable, Counters, Headers, Counted

(* What a failing step leaves, and what a finished one changes.            *)
LEMMA FaultLeaves ==
  Fault => /\ op' = Idle /\ UNCHANGED <<acked, seq, pending>> /\ faults' = faults + 1
           /\ replay' \in {replay, Off, [Off EXCEPT !.at = "due"]}
BY DEF Fault, Finish, callerVars, Continue

LEMMA FinishDoes ==
  Finish(TRUE) =>
    /\ op' = Idle /\ seq' \in {seq, op.slot.seq} /\ acked \subseteq acked'
    /\ acked' \subseteq acked \cup {op.slot}
    /\ replay' \in {replay, Off, [Off EXCEPT !.at = "due"]}
    /\ pending' = IF op.kind = "flush" THEN pending - (op.next.rejected - hdr.rejected)
                  ELSE pending
BY DEF Finish, callerVars, Continue

(* A new header has natural counters, and rejections only a flush adds.    *)
LEMMA MadeUp ==
  ASSUME JInv, NEW h, Made(h)
  PROVE  status = "up" /\ ((op.kind \in Records /\ op.stage = "slot") \/ op = Idle)
BY DEF Made, WriteSlot, At, FlushRejected, ProbeRecovery, Checkpoint

LEMMA MadeCounts ==
  ASSUME JInv, Counters, NEW h, Made(h)
  PROVE  /\ Counted(h)
         /\ h.rejected = hdr.rejected \/ (FlushRejected /\ h.rejected = hdr.rejected + pending)
<1>1. /\ Counted(hdr) /\ hdr.seqNext > 0
      /\ {pending, op.slot.seq, replay.live} \subseteq Nat
  BY MadeUp, InForceCounts DEF Counters, Amounts
<1>2. CASE h = NextHeader(op.kind, op.slot.seq)
  BY <1>1, <1>2 DEF NextHeader, Counted
<1>3. CASE FlushRejected /\ h = NextGeneration(hdr.rejected + pending, hdr.live + pending,
                                               hdr.snap, hdr.ckpt)
  BY <1>1, <1>3 DEF NextGeneration, Counted
<1>4. CASE h = NextGeneration(hdr.rejected, hdr.live, hdr.snap, hdr.ckpt)
  BY <1>1, <1>4 DEF NextGeneration, Counted
<1>5. CASE h = NextGeneration(hdr.rejected, hdr.live, replay.live,
                              IF replay.end > hdr.ckpt THEN replay.end ELSE hdr.ckpt)
  BY <1>1, <1>5 DEF NextGeneration, Counted
<1>6. QED BY <1>2, <1>3, <1>4, <1>5 DEF Made

(* All headers keep natural counters.                                      *)
LEMMA HeadersCounted ==
  ASSUME JInv, Counters, [Next]_vars, NEW h \in Headers'
  PROVE  Counted(h)
<1>1. Known(h) BY HeadersKnown
<1>2. QED BY <1>1, MadeCounts, FirstCounts DEF Known, Counters

-----------------------------------------------------------------------------
LEMMA RingsKept ==
  ASSUME JInv, [Next]_vars, NEW i \in 0 .. Slots - 1
  PROVE  /\ ring'[i] \in {ring[i], ringD[i], Empty, Torn} \/ (WriteSlot /\ ring'[i] = op.slot)
         /\ ringD'[i] \in {ring[i], ringD[i], Empty, Torn}
<1>1. CASE UNCHANGED <<ring, ringD>> BY <1>1
<1>2. CASE CreateFile BY <1>2 DEF CreateFile
<1>3. CASE WriteSlot
  <2>1. PICK s \in {ring[Ring(hdr.idx)], op.slot, Torn} :
           ring' = [ring EXCEPT ![Ring(hdr.idx)] = s] /\ ringD' = ringD
    BY <1>3 DEF WriteSlot
  <2>2. ring'[i] = ring[i] \/ (ring'[i] = s /\ i = Ring(hdr.idx)) BY <2>1 DEF JInv, Shapes
  <2>3. QED BY <1>3, <2>1, <2>2
<1>4. CASE SyncSlot \/ SyncHeader BY <1>4 DEF SyncSlot, SyncHeader
<1>5. CASE Crash
  <2>1. PICK r : ring' = [j \in 0 .. Slots - 1 |->
                            IF ring[j] = ringD[j] THEN ring[j]
                            ELSE Survivor(ringD[j], ring[j], Torn, r[j])]
    BY <1>5 DEF Crash
  <2>2. ring'[i] = ring[i] \/ ring'[i] = Survivor(ringD[i], ring[i], Torn, r[i]) BY <2>1
  <2>3. ring'[i] \in {ringD[i], ring[i], Torn} BY <2>2, SurvivorIs
  <2>4. QED BY <1>5, <2>3 DEF Crash
<1>6. ASSUME ~CreateFile, ~WriteSlot, ~SyncSlot, ~SyncHeader, ~Crash
      PROVE  UNCHANGED <<ring, ringD>>
  BY <1>6 DEF Next, OwnerStep, ReplayStep, WriteFirstHeader, SyncFirstHeader, SyncDirectory,
     OpenExisting, Submit, NotAccepted, GiveUp, CloseGate, RecordRejected, WriteHeader,
     FlushRejected, ProbeRecovery, ReserveWrite, Snapshot, Commit, Checkpoint, vars, fileVars
<1>7. QED BY <1>1, <1>2, <1>3, <1>4, <1>5, <1>6

(* So do the slots, and the amounts of owner, caller and replay.           *)
LEMMA SlotsNumbered ==
  ASSUME JInv, Counters, [Next]_vars
  PROVE  SlotNumbers'
<1>1. op.slot.seq \in Nat BY DEF Counters, Amounts
<1>2. QED BY <1>1, RingsKept, IdleFields DEF Counters, SlotNumbers

LEMMA ReplayAmounts ==
  ASSUME Counters, replay' \in {replay, Off, [Off EXCEPT !.at = "due"]}
  PROVE  replay'.live \in Nat /\ replay'.delta \in Int
<1>1. CASE replay' = replay BY <1>1 DEF Counters, Amounts
<1>2. CASE replay' = Off BY <1>2, OffFields
<1>3. CASE replay' = [Off EXCEPT !.at = "due"] BY <1>3, OffFields
<1>4. QED BY <1>1, <1>2, <1>3

LEMMA AmountsSame ==
  ASSUME Counters, UNCHANGED <<seq, pending, rejected, crashes, faults, acked, db>>,
         op'.slot.seq \in Nat, replay'.live \in Nat, replay'.delta \in Int
  PROVE  Amounts'
BY DEF Counters, Amounts

LEMMA OwnerAmounts ==
  ASSUME JInv, Counters, RejectedInv, OwnerStep
  PROVE  Amounts'
<1>1. /\ UNCHANGED <<rejected, crashes, db>> /\ status = "up" /\ op.kind # "none" 
  BY DEF OwnerStep, WriteSlot, SyncSlot, WriteHeader, SyncHeader, At
<1>2. OpShape BY DEF JInv, Shapes
<1>3. CASE Fault
  <2>1. faults' \in Nat BY <1>3, FaultLeaves DEF Counters, Amounts
  <2>2. replay'.live \in Nat /\ replay'.delta \in Int BY <1>3, FaultLeaves, ReplayAmounts
  <2>3. op'.slot.seq \in Nat BY <1>3, FaultLeaves, IdleFields
  <2>4. QED BY <1>1, <1>3, <2>1, <2>2, <2>3, FaultLeaves DEF Counters, Amounts
<1>4. CASE SyncHeader /\ Finish(TRUE) /\ UNCHANGED faults
  <2>1. op.stage = "headerSync" BY <1>4 DEF SyncHeader, At
  <2>2. {op.next.rejected, hdr.rejected, pending} \subseteq Nat
    BY InForceCounts DEF Counters, Amounts, Counted
  <2>3. pending' \in Nat
    BY <1>1, <1>4, <2>1, <2>2, FinishDoes DEF RejectedInv, BatchInHand
  <2>4. replay'.live \in Nat /\ replay'.delta \in Int BY <1>4, FinishDoes, ReplayAmounts
  <2>5. op'.slot.seq \in Nat BY <1>4, FinishDoes, IdleFields
  <2>6. QED BY <1>1, <1>4, <2>3, <2>4, <2>5, FinishDoes DEF Counters, Amounts
<1>5. CASE /\ \/ op' = [op EXCEPT !.stage = "slotSync", !.next = NextHeader(op.kind, op.slot.seq)]
              \/ op' = [op EXCEPT !.stage = "header"]
              \/ op' = [op EXCEPT !.stage = "headerSync"]
           /\ UNCHANGED <<pending, callerVars, replay, faults>>
  <2>1. op'.slot = op.slot BY <1>2, <1>5 DEF OpShape
  <2>2. QED BY <1>1, <1>5, <2>1, AmountsSame DEF callerVars, Counters, Amounts
<1>6. QED BY <1>3, <1>4, <1>5 DEF OwnerStep, WriteSlot, SyncSlot, WriteHeader, SyncHeader

LEMMA AmountsKept ==
  ASSUME JInv, Counters, RejectedInv, [Next]_vars
  PROVE  Amounts'
<1> USE AmountsSame, OperationShape, IdleFields, OffFields
<1>1. Amounts BY DEF Counters
<1>2. CASE UNCHANGED vars \/ CreateFile \/ WriteFirstHeader \/ SyncFirstHeader \/ SyncDirectory
           \/ OpenExisting \/ CloseGate
  <2>1. UNCHANGED <<seq, pending, rejected, crashes, faults, acked, db, op, replay>>
    BY <1>2 DEF vars, fileVars, ownerVars, callerVars, CreateFile, WriteFirstHeader, SyncFirstHeader,
       SyncDirectory, OpenExisting, CloseGate, Started
  <2>2. QED BY <1>1, <2>1 DEF Amounts
<1>3. ASSUME NEW k \in Records, Submit(k) \/ NotAccepted(k) PROVE Amounts'
  <2>1. CASE Submit(k)
    <3>1. /\ UNCHANGED <<seq, pending, rejected, crashes, faults, acked, db, replay>>
          /\ op'.slot = [kind |-> k, seq |-> Number(k), idx |-> hdr.idx]
      BY <2>1 DEF Submit, callerVars, Operation
    <3>2. Number(k) \in Nat BY <1>1, InForceCounts DEF Number, Counted, Amounts
    <3>3. QED BY <1>1, <3>1, <3>2 DEF Amounts
  <2>2. CASE NotAccepted(k)
    BY <1>1, <2>2 DEF NotAccepted, Continue, ownerVars, Amounts
  <2>3. QED BY <1>3, <2>1, <2>2
<1>4. CASE GiveUp
  <2>1. UNCHANGED <<seq, pending, rejected, crashes, faults, acked, db>>
        /\ op' = [op EXCEPT !.waiting = FALSE]
        /\ replay' \in {replay, [Off EXCEPT !.at = "due"]}
    BY <1>4 DEF GiveUp, Continue
  <2>2. op'.slot = op.slot BY <2>1 DEF JInv, Shapes, OpShape
  <2>3. replay'.live \in Nat /\ replay'.delta \in Int BY <2>1, ReplayAmounts
  <2>4. QED BY <1>1, <2>1, <2>2, <2>3 DEF Amounts
<1>5. CASE RecordRejected
  BY <1>1, <1>5 DEF RecordRejected, callerVars, Amounts
<1>6. CASE OwnerStep BY <1>6, OwnerAmounts
<1>7. CASE FlushRejected \/ ProbeRecovery \/ Checkpoint
  <2>1. /\ UNCHANGED <<seq, pending, rejected, crashes, acked, db>>
        /\ op'.slot \in {op.slot, Empty} /\ faults' \in {faults, faults + 1}
        /\ replay' \in {replay, [replay EXCEPT !.at = "saving"]}
    BY <1>7 DEF FlushRejected, ProbeRecovery, Checkpoint, callerVars, Job, Operation
  <2>2. replay'.live \in Nat /\ replay'.delta \in Int
    <3>1. CASE replay' = replay BY <1>1, <3>1 DEF Amounts
    <3>2. CASE replay' = [replay EXCEPT !.at = "saving"]
      BY <1>1, <3>2 DEF Amounts
    <3>3. QED BY <2>1, <3>1, <3>2
  <2>3. QED BY <1>1, <2>1, <2>2 DEF Amounts
<1>8. CASE ReserveWrite
  BY <1>1, <1>8 DEF ReserveWrite, ownerVars, callerVars, Amounts
<1>9. CASE Snapshot
  <2>1. UNCHANGED <<seq, pending, rejected, crashes, faults, acked, db, op>>
    BY <1>9 DEF Snapshot, ownerVars, callerVars
  <2>2. \/ replay' = Off
        \/ replay'.live = hdr.live /\ replay'.delta = hdr.live - hdr.snap
    BY <1>9 DEF Snapshot
  <2>3. QED BY <1>1, <2>1, <2>2, InForceCounts DEF Amounts, Counted
<1>10. CASE Commit
  <2>1. UNCHANGED <<seq, pending, rejected, crashes, faults, acked, op>>
    BY <1>10 DEF Commit, ownerVars, callerVars
  <2>2. /\ db'.counted \in {db.counted, db.counted + 0, db.counted + replay.delta}
        /\ replay' \in {Off, [replay EXCEPT !.at = "committed"]}
    BY <1>10 DEF Commit
  <2>3. db'.counted \in Int BY <1>1, <2>2 DEF Amounts
  <2>4. replay'.live \in Nat /\ replay'.delta \in Int
    <3>1. CASE replay' = [replay EXCEPT !.at = "committed"] BY <1>1, <3>1 DEF Amounts
    <3>2. QED BY <2>2, <3>1
  <2>5. QED BY <1>1, <2>1, <2>3, <2>4 DEF Amounts
<1>11. CASE Crash
  BY <1>1, <1>11 DEF Crash, Amounts
<1>12. QED
  BY <1>2, <1>3, <1>4, <1>5, <1>6, <1>7, <1>8, <1>9, <1>10, <1>11 DEF Next, ReplayStep

(* A process that does not run has nothing in hand.                        *)
LEMMA AsleepKept ==
  ASSUME JInv, Counters, [Next]_vars
  PROVE  Asleep'
<1> SUFFICES ASSUME status' # "up"
             PROVE  hdr' = NoHeader /\ pending' = 0 /\ replay' = Off /\ client' = "down"
  BY DEF Asleep
<1>1. CASE Crash BY <1>1 DEF Crash
<1>2. CASE /\ status # "up" /\ replay' = replay
           /\ UNCHANGED vars \/ CreateFile \/ WriteFirstHeader \/ SyncFirstHeader \/ OpenExisting
  <2>1. UNCHANGED <<hdr, pending, client, replay>>
    BY <1>2 DEF vars, fileVars, ownerVars, callerVars, CreateFile, WriteFirstHeader, SyncFirstHeader,
       OpenExisting, Started
  <2>2. QED BY <1>2, <2>1 DEF Counters, Asleep
<1>3. ASSUME ~Crash
      PROVE  /\ UNCHANGED vars \/ CreateFile \/ WriteFirstHeader \/ SyncFirstHeader \/ OpenExisting
             /\ status # "up" /\ replay' = replay
  <2>1. CASE UNCHANGED vars BY <2>1 DEF vars, ownerVars
  <2>2. CASE CreateFile \/ WriteFirstHeader \/ SyncFirstHeader \/ OpenExisting
    BY <2>2 DEF CreateFile, WriteFirstHeader, SyncFirstHeader, OpenExisting
  <2>3. ~SyncDirectory BY DEF SyncDirectory, Started
  <2>4. ASSUME NEW k \in Records PROVE ~Submit(k) /\ ~NotAccepted(k)
    BY DEF Submit, NotAccepted, MayWrite, ownerVars
  <2>5. ~RecordRejected /\ ~OwnerStep /\ ~FlushRejected /\ ~ProbeRecovery /\ ~Checkpoint
    BY DEF RecordRejected, OwnerStep, WriteSlot, SyncSlot, WriteHeader, SyncHeader, At, FlushRejected,
       ProbeRecovery, Checkpoint
  <2>6. ~GiveUp
    BY IdleFields DEF GiveUp, Waits, JInv, Quiet, Records, Protocol
  <2>7. ~CloseGate /\ ~ReserveWrite /\ ~Snapshot /\ ~Commit
    BY OffFields DEF CloseGate, ReserveWrite, Snapshot, Commit, Counters, Asleep, ownerVars
  <2>8. QED BY <1>3, <2>1, <2>2, <2>3, <2>4, <2>5, <2>6, <2>7 DEF Next, ReplayStep
<1>4. QED BY <1>1, <1>2, <1>3

LEMMA CountersKept ==
  ASSUME JInv, Counters, RejectedInv, [Next]_vars
  PROVE  Counters'
<1>1. \A h \in Headers' : Counted(h) BY HeadersCounted
<1>2. QED BY <1>1, SlotsNumbered, AmountsKept, AsleepKept DEF Counters

-----------------------------------------------------------------------------
(* The batch in hand.                                                      *)
LEMMA BatchLeft ==
  ASSUME JInv, Counters, RejectedInv, [Next]_vars
  PROVE  BatchInHand'
<1>1. {hdr.rejected, op.next.rejected, pending} \subseteq Nat
  BY InForceCounts DEF Counted, Counters, Amounts
<1>2. CASE op' = Idle BY <1>2, IdleFields DEF BatchInHand
<1> SUFFICES ASSUME UNCHANGED <<status, hdr>>, OpMove, pending' = pending \/ (RecordRejected /\ OpSame)
             PROVE  BatchInHand'
  BY <1>2, OpMoves
<1>3. pending' \in Nat /\ pending' >= pending BY <1>1 DEF RecordRejected
<1>4. CASE OpSame \/ OpGoesOn
  BY <1>1, <1>3, <1>4 DEF RejectedInv, BatchInHand, OpSame, OpGoesOn
<1>5. CASE OpWritten
  <2>1. op.kind # "flush" BY <1>5 DEF OpWritten, Records, Protocol
  <2>2. QED BY <1>5, <2>1 DEF OpWritten, NextHeader, BatchInHand
<1>6. ASSUME NEW k \in Records, OpSubmitted(k) PROVE BatchInHand'
  BY <1>6 DEF OpSubmitted, BatchInHand
<1>7. CASE OpJob(op'.next)
  <2>1. CASE RecordRejected /\ OpSame BY <1>4, <2>1
  <2>2. CASE pending' = pending
    BY <1>1, <1>7, <2>2 DEF OpJob, NextGeneration, BatchInHand
  <2>3. QED BY <2>1, <2>2
<1>8. QED BY <1>4, <1>5, <1>6, <1>7 DEF OpMove

(* Every rejection is in the header in force or in the batch, through a    *)
(* flush too: what its header adds is what the batch loses.                *)
LEMMA RejectionsKept ==
  ASSUME JInv, Counters, RejectedInv, [Next]_vars
  PROVE  RejectedInv'
<1>1. {hdr.rejected, op.next.rejected, pending, rejected, crashes} \subseteq Nat
  BY InForceCounts DEF Counted, Counters, Amounts
<1>2. \/ UNCHANGED <<rejected, crashes>>
      \/ RecordRejected /\ rejected' = rejected + 1 /\ crashes' = crashes
      \/ Crash /\ rejected' = rejected /\ crashes' = crashes + 1
  BY DEF Next, OwnerStep, ReplayStep, CreateFile, WriteFirstHeader, SyncFirstHeader, SyncDirectory,
     OpenExisting, Submit, NotAccepted, GiveUp, CloseGate, RecordRejected, WriteSlot, SyncSlot,
     WriteHeader, SyncHeader, FlushRejected, ProbeRecovery, ReserveWrite, Snapshot, Commit,
     Checkpoint, Crash, vars
<1>3. rejected' \in Nat /\ rejected' >= rejected BY <1>1, <1>2
<1>4. ASSUME NEW h \in Headers' PROVE h.rejected <= rejected'
  <2>1. Known(h) BY HeadersKnown
  <2>2. CASE h \in Headers
    <3>1. h.rejected <= rejected /\ h.rejected \in Nat BY <2>2 DEF RejectedInv, Counters, Counted
    <3>2. QED BY <1>1, <1>3, <3>1
  <2>3. CASE h \in {NoHeader, FirstHeader} BY <1>3, <2>3, FirstCounts
  <2>4. CASE Made(h) BY <1>1, <1>3, <2>4, MadeCounts DEF RejectedInv, RejectedOnce
  <2>5. QED BY <2>1, <2>2, <2>3, <2>4 DEF Known
<1>5. RejectedOnce' /\ (crashes' = 0 /\ status' # "up" => rejected' = 0)
  <2>1. CASE Crash
    <3>1. hdr' = NoHeader /\ pending' = 0 /\ crashes' = crashes + 1 BY <2>1 DEF Crash
    <3>2. QED BY <1>1, <1>3, <3>1, FirstCounts DEF RejectedOnce
  <2>2. CASE RecordRejected
    <3>1. UNCHANGED <<hdr, status, crashes>> /\ pending' = pending + 1 /\ rejected' = rejected + 1
          /\ status = "up"
      BY <2>2 DEF RecordRejected
    <3>2. QED BY <1>1, <3>1 DEF RejectedInv, RejectedOnce
  <2>3. CASE UNCHANGED <<hdr, status, crashes, pending, rejected>>
    BY <2>3 DEF RejectedInv, RejectedOnce
  <2>4. CASE SyncHeader /\ Finish(TRUE) /\ hdr' = op.next
    <3>1. status = "up" /\ status' = "up" /\ op.kind # "none" /\ op.stage # "slot"
          /\ UNCHANGED <<rejected, crashes>>
      BY <2>4 DEF SyncHeader, At
    <3>2. pending' = IF op.kind = "flush" THEN pending - (op.next.rejected - hdr.rejected)
                     ELSE pending
      BY <2>4, FinishDoes
    <3>3. hdr'.rejected + pending' = hdr.rejected + pending
      BY <1>1, <2>4, <3>1, <3>2 DEF RejectedInv, BatchInHand
    <3>4. QED BY <3>1, <3>3 DEF RejectedInv, RejectedOnce
  <2>5. CASE SyncDirectory \/ OpenExisting
    <3>1. status # "up" /\ UNCHANGED <<rejected, crashes, pending>>
      BY <2>5 DEF SyncDirectory, OpenExisting, Started, ownerVars
    <3>2. pending = 0 /\ hdr = NoHeader BY <3>1 DEF Counters, Asleep
    <3>3. hdr' \in Headers \cup {FirstHeader} 
      BY <2>5 DEF SyncDirectory, OpenExisting, Started, Newest, Headers
    <3>4. hdr'.rejected \in Nat /\ hdr'.rejected <= rejected
      BY <1>1, <3>3, FirstCounts DEF RejectedInv, Counters, Counted
    <3>5. QED BY <1>1, <3>1, <3>2, <3>4, FirstCounts DEF RejectedInv, RejectedOnce
  <2>6. CASE CreateFile \/ WriteFirstHeader \/ SyncFirstHeader
    <3>1. status # "up" /\ status' # "up" /\ UNCHANGED <<hdr, crashes, pending, rejected>>
      BY <2>6 DEF CreateFile, WriteFirstHeader, SyncFirstHeader, ownerVars
    <3>2. QED BY <3>1 DEF RejectedInv, RejectedOnce
  <2>7. ASSUME ~Crash, ~RecordRejected, ~SyncDirectory, ~OpenExisting, ~CreateFile,
               ~WriteFirstHeader, ~SyncFirstHeader, ~(SyncHeader /\ Finish(TRUE) /\ hdr' = op.next)
        PROVE  UNCHANGED <<hdr, status, crashes, pending, rejected>>
    BY <2>7, FaultLeaves DEF Next, OwnerStep, ReplayStep, Submit, NotAccepted, GiveUp, CloseGate, WriteSlot,
       SyncSlot, WriteHeader, SyncHeader, FlushRejected, ProbeRecovery, ReserveWrite, Snapshot,
       Commit, Checkpoint, vars, ownerVars
  <2>8. QED BY <2>1, <2>2, <2>3, <2>4, <2>5, <2>6, <2>7
<1>6. QED BY <1>4, <1>5, BatchLeft DEF RejectedInv

(* The start, and the induction.                                           *)
LEMMA CountsStart == Init => Counters /\ RejectedInv
<1> SUFFICES ASSUME Init PROVE Counters /\ RejectedInv
  OBVIOUS
<1>1. Headers = {NoHeader} BY IdleFields DEF Init, Headers
<1>2. Counters
  BY <1>1, FirstCounts, IdleFields, OffFields DEF Init, Counters, SlotNumbers, Amounts, Asleep
<1>3. RejectedInv
  BY <1>1, FirstCounts, IdleFields DEF Init, RejectedInv, RejectedOnce, BatchInHand
<1>4. QED BY <1>2, <1>3

(* The counters stay natural numbers, and the rejections add up: the       *)
(* inductive invariant behind RejectionsCountOnce.                         *)
THEOREM CountsInvariance == Spec => [](JInv /\ Counters /\ RejectedInv)
<1>1. Init => JInv /\ Counters /\ RejectedInv BY InitEstablishes, CountsStart
<1>2. (JInv /\ Counters /\ RejectedInv) /\ [Next]_vars => (JInv /\ Counters /\ RejectedInv)'
  BY Inductive, CountersKept, RejectionsKept
<1>3. QED BY <1>1, <1>2, PTL DEF Spec

(* However often a batch is retried, no rejection is counted twice, and    *)
(* none is lost but by a crash (journal.go:329, flushRejected).            *)
THEOREM RejectionsCountOnce == Spec => []RejectedOnce
<1>1. RejectedInv => RejectedOnce BY DEF RejectedInv
<1>2. QED BY <1>1, CountsInvariance, PTL
-----------------------------------------------------------------------------
(* Numbers.  The header in force is the owner's or the one Open will take. *)
InForce == IF status = "up" THEN hdr ELSE Newest
Lasting == status = "up" \/ (status = "down" /\ file = "kept" /\ Newest.gen > 0)

(* Once something was acknowledged the file lasts.                         *)
LEMMA AckedLasts == JInv /\ acked # {} => Lasting
BY DEF JInv, Files, Lasting

(* What Open will find after a crash: the header in force, or a later one. *)
LEMMA FoundAfterCrash ==
  ASSUME JInv, Crash, status = "up"
  PROVE  \/ Newest' = hdr
         \/ /\ Newest' \in {heads[0], heads[1], headsD[0], headsD[1]}
            /\ Newest'.gen > hdr.gen
<1> DEFINE c == HeaderSlot(hdr.gen)
<1>1. PICK h : heads' = [i \in 0 .. 1 |-> Survivor(headsD[i], heads[i], NoHeader, h[i])]
  BY DEF Crash
<1>2. \A i \in 0 .. 1 : /\ heads'[i] = headsD[i] \/ heads'[i] = heads[i] \/ heads'[i] = NoHeader
                        /\ headsD[i] = heads[i] => heads'[i] = heads[i]
  BY <1>1, SurvivorIs
<1>3. hdr.gen \in Nat /\ hdr.gen > 0 /\ c \in 0 .. 1 /\ heads[c] = hdr /\ headsD[c] = hdr
  BY HeaderSlots DEF JInv, Shapes, Shape, HeaderDurable
<1> HIDE DEF c
<1>4. heads'[c] = hdr BY <1>2, <1>3
<1>5. JInv' BY CrashStep
<1>6. \A i \in 0 .. 1 : /\ heads'[i].gen \in Nat
                        /\ heads'[i].gen > 0 => HeaderSlot(heads'[i].gen) = i
  BY <1>5 DEF JInv, Shapes, Shape, Parity
<1>7. PICK d \in 0 .. 1 : Newest' = heads'[d] /\ heads'[d].gen >= hdr.gen
  <2>1. heads'[0].gen >= hdr.gen \/ heads'[1].gen >= hdr.gen BY <1>3, <1>4
  <2>2. QED BY <1>3, <1>6, <2>1 DEF Newest
<1>8. CASE heads'[d].gen = hdr.gen
  <2>1. d = c BY <1>3, <1>6, <1>8 DEF c
  <2>2. QED BY <1>4, <1>7, <2>1
<1>9. CASE heads'[d].gen > hdr.gen
  <2>1. heads'[d] # NoHeader BY <1>3, <1>9, FirstShapes
  <2>2. heads'[d] = headsD[d] \/ heads'[d] = heads[d] BY <1>2, <2>1
  <2>3. d = 0 \/ d = 1 OBVIOUS
  <2>4. QED BY <1>7, <1>9, <2>2, <2>3
<1>10. QED BY <1>3, <1>6, <1>7, <1>8, <1>9

(* The header in force changes when its successor is on the medium, or by  *)
(* a crash; the first one comes into force with the file.                  *)
LEMMA InForceMoves ==
  ASSUME JInv, [Next]_vars, Lasting'
  PROVE  \/ Lasting /\ InForce' = InForce /\ acked' = acked /\ (status' = "up" => hdr' = InForce)
         \/ /\ status = "up" /\ SyncHeader /\ Finish(TRUE) /\ InForce' = op.next /\ InForce = hdr
            /\ status' = "up" /\ hdr' = op.next
         \/ status = "up" /\ Crash /\ InForce' = Newest' /\ InForce = hdr /\ acked' = acked
         \/ status = "creating" /\ acked = {} /\ acked' = {} /\ (SyncDirectory \/ Crash)
<1>1. CASE UNCHANGED <<status, hdr, file, heads, acked>>
  BY <1>1 DEF Lasting, InForce, Newest
<1>2. CASE CreateFile \/ WriteFirstHeader \/ SyncFirstHeader
  <2>1. status' = "creating"
    BY <1>2 DEF CreateFile, WriteFirstHeader, SyncFirstHeader, ownerVars
  <2>2. QED BY <2>1 DEF Lasting
<1>3. CASE SyncDirectory
  <2>1. status = "creating" /\ acked = {} /\ acked' = {}
    BY <1>3 DEF SyncDirectory, Started, JInv, Files
  <2>2. QED BY <1>3, <2>1
<1>4. CASE OpenExisting
  <2>1. status = "down" /\ file = "kept" /\ UNCHANGED <<heads, file, acked>>
    BY <1>4 DEF OpenExisting, JInv, Files, fileVars, callerVars, Started
  <2>2. status' = "up"
    <3>1. status' \in {"refused", "up"} BY <1>4 DEF OpenExisting, Started
    <3>2. QED BY <3>1 DEF Lasting
  <2>3. Newest.gen # 0 /\ hdr' = Newest BY <1>4, <2>2 DEF OpenExisting, Started
  <2>4. Newest.gen > 0
    <3>1. Newest.gen \in Nat BY DEF JInv, Shapes, Shape, Newest
    <3>2. QED BY <2>3, <3>1
  <2>5. QED BY <2>1, <2>2, <2>3, <2>4 DEF Lasting, InForce
<1>5. CASE Crash
  <2>1. status \in {"up", "creating"} /\ status' = "down" /\ acked' = acked BY <1>5 DEF Crash
  <2>2. status = "creating" => acked = {} BY DEF JInv, Files
  <2>3. QED BY <1>5, <2>1, <2>2 DEF InForce
<1>6. CASE OwnerStep
  <2>1. status = "up" /\ status' = "up"
    BY <1>6 DEF OwnerStep, WriteSlot, SyncSlot, WriteHeader, SyncHeader, At
  <2>2. CASE SyncHeader /\ Finish(TRUE) /\ hdr' = op.next BY <2>1, <2>2 DEF InForce
  <2>3. CASE UNCHANGED <<hdr, acked>> BY <2>1, <2>3 DEF InForce, Lasting
  <2>4. QED BY <1>6, <2>2, <2>3, FaultLeaves
          DEF OwnerStep, WriteSlot, SyncSlot, WriteHeader, SyncHeader, callerVars
<1>7. ASSUME ~CreateFile, ~WriteFirstHeader, ~SyncFirstHeader, ~SyncDirectory, ~OpenExisting,
             ~Crash, ~OwnerStep
      PROVE  UNCHANGED <<status, hdr, file, heads, acked>>
  BY <1>7 DEF Next, ReplayStep, Submit, NotAccepted, GiveUp, CloseGate, RecordRejected,
     FlushRejected, ProbeRecovery, ReserveWrite, Snapshot, Commit, Checkpoint, vars, fileVars,
     ownerVars, callerVars
<1>8. QED BY <1>1, <1>2, <1>3, <1>4, <1>5, <1>6, <1>7

-----------------------------------------------------------------------------
Numbered(s) == s.kind \in Numbering
Unique == \A s, t \in acked : Numbered(s) /\ Numbered(t) /\ s.seq = t.seq => s = t
Below == Lasting => \A s \in acked : s.seq < InForce.seqNext

(* A header of a later generation than the one in force, which only a      *)
(* write that failed can leave, gives no number again.                     *)
Later(h) == h.gen > hdr.gen => h.seqNext >= hdr.seqNext
NoneReused == status = "up" => \A i \in 0 .. 1 : Later(heads[i]) /\ Later(headsD[i])

OpNumbers ==
  status = "up" /\ op.kind # "none" =>
    /\ op.kind \in Records =>
         /\ op.slot.kind = op.kind
         /\ IF op.kind \in Numbering THEN op.slot.seq = hdr.seqNext ELSE op.slot.seq < hdr.seqNext
    /\ op.stage # "slot" =>
         op.next.seqNext = IF op.kind \in Numbering THEN hdr.seqNext + 1 ELSE hdr.seqNext
NumbersInv == Unique /\ Below /\ NoneReused /\ OpNumbers

(* The operation in hand keeps the number it was given, and whatever lies  *)
(* in the header slots gives none again.                                   *)
LEMMA OpNumbersKept ==
  ASSUME JInv, Counters, OpNumbers, [Next]_vars
  PROVE  OpNumbers'
<1>1. CASE op' = Idle BY <1>1, IdleFields DEF OpNumbers, Records, Protocol
<1> SUFFICES ASSUME UNCHANGED <<status, hdr>>, OpMove PROVE OpNumbers'
  BY <1>1, OpMoves
<1>2. CASE OpSame \/ OpGoesOn BY <1>2 DEF OpNumbers, OpSame, OpGoesOn
<1>3. CASE OpWritten
  <2>1. status = "up" /\ op.kind # "none" BY <1>3 DEF OpWritten, WriteSlot, At
  <2>2. op.kind \in Numbering => op.slot.seq = hdr.seqNext
    BY <1>3, <2>1 DEF OpNumbers, OpWritten
  <2>3. QED BY <1>3, <2>1, <2>2 DEF OpNumbers, OpWritten, NextHeader
<1>4. ASSUME NEW k \in Records, OpSubmitted(k) PROVE OpNumbers'
  <2>1. Number(k) = IF k \in Numbering THEN hdr.seqNext ELSE seq BY DEF Number
  <2>2. k \notin Numbering => seq < hdr.seqNext BY <1>4 DEF OpSubmitted, Submit
  <2>3. QED BY <1>4, <2>1, <2>2 DEF OpSubmitted, OpNumbers
<1>5. CASE OpJob(op'.next)
  <2>1. op'.kind \notin Records /\ op'.kind \notin Numbering
    BY <1>5 DEF OpJob, Records, Protocol, Numbering
  <2>2. op'.next.seqNext = hdr.seqNext BY <1>5 DEF OpJob, NextGeneration
  <2>3. QED BY <2>1, <2>2 DEF OpNumbers
<1>6. QED BY <1>2, <1>3, <1>4, <1>5 DEF OpMove

LEMMA NoneReusedKept ==
  ASSUME JInv, Counters, NumbersInv, [Next]_vars
  PROVE  NoneReused'
<1> SUFFICES ASSUME status' = "up", NEW i \in 0 .. 1
             PROVE  Later(heads[i])' /\ Later(headsD[i])'
  BY DEF NoneReused
<1>1. Counted(hdr) /\ Counted(op.next) /\ Counted(heads[i]) /\ Counted(headsD[i])
  BY DEF Counters, Headers
<1>2. CASE UNCHANGED <<status, hdr, heads, headsD>>
  BY <1>2 DEF NumbersInv, NoneReused, Later
<1>3. CASE SyncDirectory
  <2>1. UNCHANGED <<heads, headsD>> /\ hdr' = FirstHeader BY <1>3 DEF SyncDirectory, Started
  <2>2. FirstHeader.seqNext = 1 /\ FirstHeader.gen = 1 BY DEF FirstHeader
  <2>3. heads[i].gen \in Nat /\ headsD[i].gen \in Nat BY DEF JInv, Shapes, Shape
  <2>4. QED BY <1>1, <2>1, <2>2, <2>3 DEF Later, Counted
<1>4. CASE OpenExisting
  <2>1. UNCHANGED <<heads, headsD>> /\ heads = headsD /\ hdr' = Newest
    BY <1>4 DEF OpenExisting, Started, fileVars, JInv, Files
  <2>2. heads[i].gen <= Newest.gen BY NewestIs
  <2>3. heads[i].gen \in Nat /\ Newest.gen \in Nat BY DEF JInv, Shapes, Shape, Newest
  <2>4. QED BY <2>1, <2>2, <2>3 DEF Later
<1>5. CASE SyncSlot
  <2>1. UNCHANGED <<hdr, heads, status>> /\ (headsD' = heads \/ headsD' = headsD)
    BY <1>5 DEF SyncSlot
  <2>2. QED BY <2>1 DEF NumbersInv, NoneReused, Later
<1>6. CASE WriteHeader
  <2>1. status = "up" /\ hdr' = hdr /\ headsD' = headsD /\ op.kind # "none" /\ op.stage = "header"
    BY <1>6 DEF WriteHeader, At
  <2>2. op.next.seqNext >= hdr.seqNext
    BY <1>1, <2>1 DEF NumbersInv, OpNumbers, Counted
  <2>3. PICK h \in {heads[HeaderSlot(op.next.gen)], op.next, NoHeader} :
           heads' = [heads EXCEPT ![HeaderSlot(op.next.gen)] = h]
    BY <1>6 DEF WriteHeader
  <2>4. heads'[i] \in {heads[i], op.next, NoHeader} BY <2>3 DEF JInv, Shapes
  <2>5. hdr.gen \in Nat BY DEF JInv, Shapes, Shape
  <2>6. QED BY <2>1, <2>2, <2>4, <2>5, FirstShapes DEF NumbersInv, NoneReused, Later
<1>7. CASE SyncHeader
  <2>1. CASE UNCHANGED <<headsD, hdr>> BY <1>2, <1>7, <2>1 DEF SyncHeader
  <2>2. CASE headsD' = heads /\ hdr' = op.next
    <3>1. status = "up" /\ heads' = heads /\ op.kind # "none" /\ op.stage = "headerSync"
      BY <1>7 DEF SyncHeader, At
    <3>2. /\ op.next.gen = hdr.gen + 1 /\ heads[HeaderSlot(op.next.gen)] = op.next
          /\ heads[HeaderSlot(hdr.gen)] = hdr /\ hdr.gen \in Nat
      BY <3>1 DEF JInv, OpInv, HeaderDurable, Shapes, Shape
    <3>3. heads[i] = hdr \/ heads[i] = op.next BY <3>2, HeaderSlots
    <3>4. QED BY <2>2, <3>1, <3>2, <3>3 DEF Later
  <2>3. QED BY <1>7, <2>1, <2>2 DEF SyncHeader
<1>8. ASSUME ~SyncDirectory, ~OpenExisting, ~SyncSlot, ~WriteHeader, ~SyncHeader
      PROVE  UNCHANGED <<status, hdr, heads, headsD>>
  BY <1>8 DEF Next, OwnerStep, ReplayStep, CreateFile, WriteFirstHeader, SyncFirstHeader, Submit,
     NotAccepted, GiveUp, CloseGate, RecordRejected, WriteSlot, FlushRejected, ProbeRecovery,
     ReserveWrite, Snapshot, Commit, Checkpoint, Crash, vars, fileVars, ownerVars
<1>9. QED BY <1>2, <1>3, <1>4, <1>5, <1>6, <1>7, <1>8

(* A record that is acknowledged has the number that was next, or one that *)
(* was given before.                                                       *)
LEMMA AckedNumber ==
  ASSUME JInv, Counters, NumbersInv, SyncHeader, Finish(TRUE)
  PROVE  /\ op.next.seqNext >= hdr.seqNext
         /\ \A s \in acked' \ acked : /\ s = op.slot /\ op.kind \in Records
                                      /\ s.seq < op.next.seqNext
                                      /\ Numbered(s) => s.seq = hdr.seqNext
<1>1. status = "up" /\ op.kind # "none" /\ op.stage = "headerSync" BY DEF SyncHeader, At
<1>2. acked' = acked \/ (op.kind \in Records /\ acked' = acked \cup {op.slot})
  BY DEF Finish, Waits, callerVars
<1>3. hdr.seqNext \in Nat /\ op.slot.seq \in Nat
  BY InForceCounts DEF Counted, Counters, Amounts
<1>4. QED BY <1>1, <1>2, <1>3 DEF NumbersInv, OpNumbers, Numbered

(* Nothing else acknowledges.                                              *)
LEMMA AckedGrows ==
  ASSUME [Next]_vars, ~(SyncHeader /\ Finish(TRUE))
  PROVE  acked' = acked
BY FaultFacts DEF Next, OwnerStep, ReplayStep, CreateFile, WriteFirstHeader, SyncFirstHeader,
   SyncDirectory, OpenExisting, Started, Submit, NotAccepted, GiveUp, CloseGate, RecordRejected, WriteSlot,
   SyncSlot, WriteHeader, SyncHeader, FlushRejected, ProbeRecovery, ReserveWrite, Snapshot,
   Commit, Checkpoint, Crash, vars, callerVars

(* A new record has the number of the header it commits, which no record   *)
(* acknowledged before can have.                                           *)
LEMMA NumbersKept ==
  ASSUME JInv, Counters, NumbersInv, [Next]_vars
  PROVE  NumbersInv'
<1>1. hdr.seqNext \in Nat /\ \A s \in acked : s.seq \in Nat
  BY InForceCounts DEF Counted, Counters, Amounts
<1>2. Unique'
  <2>1. CASE SyncHeader /\ Finish(TRUE)
    <3>1. status = "up" BY <2>1 DEF SyncHeader, At
    <3>2. \A s \in acked : s.seq < hdr.seqNext
      BY <3>1 DEF NumbersInv, Below, Lasting, InForce
    <3>3. QED BY <1>1, <2>1, <3>2, AckedNumber DEF NumbersInv, Unique, Numbered
  <2>2. QED BY <2>1, AckedGrows DEF NumbersInv, Unique, Numbered
<1>3. Below'
  <2> SUFFICES ASSUME Lasting', NEW s \in acked' PROVE s.seq < InForce'.seqNext
    BY DEF Below
  <2>1. status = "up" => \A t \in acked : t.seq < hdr.seqNext
    BY DEF NumbersInv, Below, Lasting, InForce
  <2>2. CASE Lasting /\ InForce' = InForce /\ acked' = acked
    BY <2>2 DEF NumbersInv, Below
  <2>3. CASE status = "up" /\ SyncHeader /\ Finish(TRUE) /\ InForce' = op.next
    <3>1. op.next.seqNext \in Nat BY InForceCounts DEF Counted
    <3>2. QED BY <1>1, <2>1, <2>3, <3>1, AckedNumber
  <2>4. CASE status = "up" /\ Crash /\ InForce' = Newest' /\ acked' = acked
    <3>1. Newest'.seqNext >= hdr.seqNext /\ Newest'.seqNext \in Nat
      <4>1. CASE Newest' = hdr BY <1>1, <4>1
      <4>2. CASE Newest' \in {heads[0], heads[1], headsD[0], headsD[1]} /\ Newest'.gen > hdr.gen
        BY <2>4, <4>2 DEF NumbersInv, NoneReused, Later, Counters, Headers, Counted
      <4>3. QED BY <2>4, <4>1, <4>2, FoundAfterCrash
    <3>2. QED BY <1>1, <2>1, <2>4, <3>1
  <2>5. QED BY <2>2, <2>3, <2>4, InForceMoves
<1>4. QED BY <1>2, <1>3, NoneReusedKept, OpNumbersKept DEF NumbersInv

LEMMA NumbersStart == Init => NumbersInv
BY IdleFields DEF Init, NumbersInv, Unique, Below, NoneReused, OpNumbers

(* Numbers are given in order and none twice, whichever header is in       *)
(* force: the inductive invariant behind NumbersAreFresh.                  *)
THEOREM NumbersInvariance == Spec => [](JInv /\ Counters /\ NumbersInv)
<1>1. Init => NumbersInv BY NumbersStart
<1>2. (JInv /\ Counters /\ RejectedInv) /\ NumbersInv /\ [Next]_vars => NumbersInv'
  BY NumbersKept
<1>3. QED BY <1>1, <1>2, CountsInvariance, PTL DEF Spec

(* No number is given to two acknowledged records of the kinds that take   *)
(* one, and every acknowledged record's number is behind the next one,     *)
(* whatever header Open finds (journal.go:237, open.go:268).               *)
THEOREM NumbersAreFresh == Spec => []NumbersFresh
<1>1. JInv /\ NumbersInv => NumbersFresh
  BY DEF NumbersInv, Unique, Below, Lasting, InForce, NumbersFresh, Numbered
<1>2. QED BY <1>1, NumbersInvariance, PTL
-----------------------------------------------------------------------------
(* Counters only grow, and what is taken for replayed is behind what was   *)
(* counted.                                                                *)
LiveInv ==
  /\ \A h \in Headers : h.snap <= h.live
  /\ status = "up" /\ op.kind # "none" /\ op.stage # "slot" => hdr.live <= op.next.live
  /\ status = "up" => replay.live <= hdr.live
  /\ replay.delta >= 0

(* Counters in hand: the operation's are ahead of the header's, those a    *)
(* replay has read are behind.                                             *)
LEMMA OffLive ==
  ASSUME NEW r, NEW q, q \in {r, Off, [Off EXCEPT !.at = "due"]}
  PROVE  (q.live = r.live \/ q.live = 0) /\ (q.delta = r.delta \/ q.delta = 0)
<1>1. CASE q = r BY <1>1
<1>2. CASE q = Off BY <1>2, OffFields
<1>3. CASE q = [Off EXCEPT !.at = "due"] BY <1>3, OffFields
<1>4. QED BY <1>1, <1>2, <1>3

LEMMA OwnLive ==
  ASSUME JInv, Counters, LiveInv, [Next]_vars, UNCHANGED <<status, hdr>>, OpMove
  PROVE  status = "up" /\ op'.kind # "none" /\ op'.stage # "slot" => hdr'.live <= op'.next.live
<1>1. hdr.live \in Nat /\ op.next.live \in Nat /\ pending \in Nat
  BY InForceCounts DEF Counted, Counters, Amounts
<1>2. CASE OpSame \/ OpGoesOn BY <1>2 DEF OpSame, OpGoesOn, LiveInv
<1>3. CASE OpWritten BY <1>1, <1>3 DEF OpWritten, NextHeader
<1>4. ASSUME NEW k \in Records, OpSubmitted(k) PROVE op'.stage = "slot" BY <1>4 DEF OpSubmitted
<1>5. CASE OpJob(op'.next) BY <1>1, <1>5 DEF OpJob, NextGeneration
<1>6. QED BY <1>2, <1>3, <1>4, <1>5 DEF OpMove

(* What a step may do to the replay, and to the owner's header.            *)
LEMMA ReplayMoves ==
  ASSUME JInv, [Next]_vars
  PROVE  \/ replay' \in {replay, Off, [Off EXCEPT !.at = "due"]}
         \/ ReserveWrite /\ replay' = [Off EXCEPT !.at = "reserved"]
         \/ Snapshot
         \/ Commit /\ replay' = [replay EXCEPT !.at = "committed"]
         \/ Checkpoint /\ replay' = [replay EXCEPT !.at = "saving"]
<1>1. Snapshot \/ ~Snapshot OBVIOUS
<1>2. ReserveWrite => replay' \in {Off, [Off EXCEPT !.at = "reserved"]} BY DEF ReserveWrite
<1>3. Commit => replay' \in {Off, [replay EXCEPT !.at = "committed"]} BY DEF Commit
<1>4. Checkpoint => replay' = [replay EXCEPT !.at = "saving"] BY DEF Checkpoint
<1>5. OwnerStep => replay' \in {replay, Off, [Off EXCEPT !.at = "due"]}
  BY FaultLeaves, FinishDoes DEF OwnerStep, WriteSlot, SyncSlot, WriteHeader, SyncHeader
<1>6. (\E k \in Records : NotAccepted(k)) \/ GiveUp => replay' \in {replay, [Off EXCEPT !.at = "due"]}
  BY DEF NotAccepted, GiveUp, Continue
<1>7. CreateFile \/ WriteFirstHeader \/ SyncFirstHeader \/ SyncDirectory \/ OpenExisting
      \/ (\E k \in Records : Submit(k)) \/ CloseGate \/ RecordRejected \/ FlushRejected
      \/ ProbeRecovery \/ UNCHANGED vars => replay' = replay
  BY DEF CreateFile, WriteFirstHeader, SyncFirstHeader, SyncDirectory, OpenExisting, Submit,
     CloseGate, RecordRejected, FlushRejected, ProbeRecovery, vars
<1>8. Crash => replay' = Off BY DEF Crash
<1>9. QED BY <1>1, <1>2, <1>3, <1>4, <1>5, <1>6, <1>7, <1>8 DEF Next, ReplayStep

LEMMA HeaderMoves ==
  ASSUME JInv, [Next]_vars, status' = "up"
  PROVE  \/ status = "up" /\ hdr' = hdr
         \/ status = "up" /\ SyncHeader /\ Finish(TRUE) /\ hdr' = op.next
            /\ op.kind # "none" /\ op.stage = "headerSync"
         \/ status # "up" /\ replay' = replay
<1>1. CASE status = "up"
  <2>1. CASE SyncHeader
    BY <1>1, <2>1 DEF SyncHeader, At
  <2>2. CASE ~SyncHeader
    BY <1>1, <2>2 DEF Next, OwnerStep, ReplayStep, CreateFile, WriteFirstHeader, SyncFirstHeader,
       SyncDirectory, OpenExisting, Submit, NotAccepted, GiveUp, CloseGate, RecordRejected,
       WriteSlot, SyncSlot, WriteHeader, FlushRejected, ProbeRecovery, ReserveWrite, Snapshot,
       Commit, Checkpoint, Crash, vars, ownerVars
  <2>3. QED BY <2>1, <2>2
<1>2. CASE status # "up"
  <2>1. CASE status' = status BY <1>2, <2>1
  <2>2. SyncDirectory \/ OpenExisting \/ status' = status \/ status' # "up"
    BY DEF Next, OwnerStep, ReplayStep, CreateFile, WriteFirstHeader, SyncFirstHeader,
       SyncDirectory, OpenExisting, Submit, NotAccepted, GiveUp, CloseGate, RecordRejected,
       WriteSlot, SyncSlot, WriteHeader, SyncHeader, FlushRejected, ProbeRecovery, ReserveWrite, Snapshot,
       Commit, Checkpoint, Crash, vars, ownerVars
  <2>3. SyncDirectory \/ OpenExisting => replay' = replay BY DEF SyncDirectory, OpenExisting
  <2>4. QED BY <1>2, <2>1, <2>2, <2>3
<1>3. QED BY <1>1, <1>2

(* No step turns a counter back.                                           *)
LEMMA LiveKept ==
  ASSUME JInv, Counters, LiveInv, [Next]_vars, Counters'
  PROVE  LiveInv'
<1>1. {hdr.live, hdr.snap, op.next.live, pending, replay.live} \subseteq Nat /\ replay.delta \in Int
  BY InForceCounts DEF Counted, Counters, Amounts
<1>2. ASSUME NEW h \in Headers' PROVE h.snap <= h.live
  <2>1. Known(h) BY HeadersKnown
  <2>2. hdr.snap <= hdr.live BY DEF LiveInv, Headers
  <2>3. CASE Made(h)
    <3>1. status = "up" BY <2>3, MadeUp
    <3>2. replay.live <= hdr.live BY <3>1 DEF LiveInv
    <3>3. CASE h = NextHeader(op.kind, op.slot.seq) BY <1>1, <2>2, <3>3 DEF NextHeader
    <3>4. QED BY <1>1, <2>2, <2>3, <3>2, <3>3 DEF Made, NextGeneration
  <2>4. QED BY <2>1, <2>3 DEF Known, LiveInv, NoHeader, FirstHeader
<1>3. status' = "up" /\ op'.kind # "none" /\ op'.stage # "slot" => hdr'.live <= op'.next.live
  <2>1. CASE op' = Idle BY <2>1, IdleFields
  <2>2. CASE UNCHANGED <<status, hdr>> /\ OpMove BY <2>2, OwnLive
  <2>3. QED BY <2>1, <2>2, OpMoves
<1>4. ASSUME status = "up", status' = "up" PROVE hdr.live <= hdr'.live
  <2>1. CASE hdr' = hdr BY <1>1, <2>1
  <2>2. CASE hdr' = op.next /\ op.kind # "none" /\ op.stage = "headerSync"
    BY <1>4, <2>2 DEF LiveInv
  <2>3. QED BY <1>4, <2>1, <2>2, HeaderMoves
<1>5. ASSUME status' = "up" PROVE replay'.live <= hdr'.live
  <2>1. hdr'.live \in Nat BY DEF Counters, Headers, Counted
  <2>2. CASE status # "up" /\ replay' = replay
    <3>1. replay'.live = 0 BY <2>2, OffFields DEF Counters, Asleep
    <3>2. QED BY <2>1, <3>1
  <2>3. CASE status = "up"
    <3>1. replay.live <= hdr'.live BY <1>1, <1>4, <1>5, <2>1, <2>3 DEF LiveInv
    <3>2. CASE replay' \in {replay, Off, [Off EXCEPT !.at = "due"]}
      <4>1. replay'.live = replay.live \/ replay'.live = 0 BY <3>2, OffLive
      <4>2. QED BY <2>1, <3>1, <4>1
    <3>3. CASE replay' = [Off EXCEPT !.at = "reserved"] BY <2>1, <3>3, OffFields
    <3>4. CASE replay' = [replay EXCEPT !.at = "committed"] BY <3>1, <3>4
    <3>5. CASE replay' = [replay EXCEPT !.at = "saving"] BY <3>1, <3>5
    <3>6. CASE Snapshot
      <4>1. replay' = Off \/ replay'.live = hdr.live BY <3>6 DEF Snapshot
      <4>2. hdr' = hdr BY <3>6 DEF Snapshot, ownerVars
      <4>3. QED BY <1>1, <2>1, <4>1, <4>2, OffFields
    <3>7. QED BY <3>2, <3>3, <3>4, <3>5, <3>6, ReplayMoves
  <2>4. QED BY <1>5, <2>2, <2>3, HeaderMoves
<1>6. replay'.delta >= 0
  <2>1. CASE replay' \in {replay, Off, [Off EXCEPT !.at = "due"]}
    <3>1. replay'.delta = replay.delta \/ replay'.delta = 0 BY <2>1, OffLive
    <3>2. QED BY <3>1 DEF LiveInv
  <2>2. CASE replay' = [Off EXCEPT !.at = "reserved"] BY <2>2, OffFields
  <2>3. CASE replay' = [replay EXCEPT !.at = "committed"] BY <2>3 DEF LiveInv
  <2>4. CASE replay' = [replay EXCEPT !.at = "saving"] BY <2>4 DEF LiveInv
  <2>5. CASE Snapshot
    <3>1. replay' = Off \/ replay'.delta = hdr.live - hdr.snap BY <2>5 DEF Snapshot
    <3>2. hdr.snap <= hdr.live BY DEF LiveInv, Headers
    <3>3. QED BY <1>1, <3>1, <3>2, OffFields
  <2>6. QED BY <2>1, <2>2, <2>3, <2>4, <2>5, ReplayMoves
<1>7. QED BY <1>2, <1>3, <1>5, <1>6 DEF LiveInv
-----------------------------------------------------------------------------
(* Replay, up to the first write that fails.  The last committed record    *)
(* is in the ring under the last number given, so a scan of a running      *)
(* process ends there.                                                     *)
Tip(h) == h.idx > 0 =>
  LET s == ring[Ring(h.idx - 1)]
  IN  s = ringD[Ring(h.idx - 1)] /\ Valid(s) /\ s.seq + 1 = h.seqNext

(* The attempts up to number c that the ring still holds are in rows.      *)
Covered(c, rows) == \A s \in acked :
  Numbered(s) /\ s.seq <= c /\ s.idx + Slots > InForce.idx => Row(s) \in rows

(* Nothing is newer than the header in force but the one being synced.     *)
Newer == \A i \in 0 .. 1 :
  /\ headsD[i].gen <= hdr.gen
  /\ heads[i].gen <= hdr.gen
     \/ (op.kind # "none" /\ op.stage = "headerSync" /\ heads[i] = op.next)

(* The caller: who waits is where its record starts from, what it numbers  *)
(* has the last number given, and a replay runs only while it is served.   *)
Decides == {"verifying", "publishing", "recorded", "draining"}
CallerOp ==
  /\ op.kind \in Records /\ (op.waiting \/ op.kind \in Numbering) => client = Protocol[op.kind].from
  /\ op.kind \in Records \ Numbering => op.slot.seq + 1 = hdr.seqNext
  /\ op.kind = "seal_completed" /\ op.waiting => replay.at = "off"
  /\ op.kind # "none" /\ op.kind \notin Records /\ op.stage # "slot" => op.next.idx = hdr.idx
CallerNumbers ==
  /\ client \in Decides => seq + 1 = hdr.seqNext
  /\ client \in {"locked", "verifying", "publishing"} => replay.at = "off"
(* What a crash left in the next slot is gone once somebody is admitted.   *)
RingBelow ==
  client # "locked" /\ (op.kind \notin Numbering \/ op.stage = "slot") =>
    \A i \in 0 .. Slots - 1 : ring[i].seq < hdr.seqNext
(* A replay to come will end behind everything that was replayed.          *)
Unreached ==
  client \in {"verifying", "publishing"} \/ replay.at \in {"due", "reserved"} =>
    hdr.idx > 0 /\ \A p \in db.aggregates : p[2] + 1 < hdr.seqNext
Running == Newer /\ CallerOp /\ CallerNumbers /\ RingBelow /\ Unreached

(* What lies in the file, and what the audit log has of it.                *)
Stored ==
  /\ Tip(InForce)
  /\ \A i \in 0 .. Slots - 1 : ring[i].seq <= InForce.seqNext /\ ringD[i].seq <= InForce.seqNext
  /\ \A p \in db.aggregates : p[2] \in Nat /\ p[2] < InForce.seqNext
  /\ \A h \in Headers : /\ h.snap <= db.counted /\ h.ckpt < InForce.seqNext
                        /\ Covered(h.ckpt, db.rows)
Creating ==
  /\ \A i \in 0 .. 1 : heads[i] \in {NoHeader, FirstHeader} /\ headsD[i] \in {NoHeader, FirstHeader}
  /\ \A i \in 0 .. Slots - 1 : ring[i].seq = 0 /\ ringD[i].seq = 0

Replaying ==
  /\ replay.at = "read" =>
       /\ <<replay.start, replay.end>> \notin db.aggregates
       /\ replay.live - replay.delta <= db.counted
       /\ replay.end \in Nat /\ replay.end < hdr.seqNext
       /\ Covered(replay.end, db.rows \cup replay.rows)
  /\ replay.at = "committed" =>
       /\ replay.live <= db.counted
       /\ replay.end \in Nat /\ replay.end < hdr.seqNext /\ Covered(replay.end, db.rows)

FaultlessInv ==
  /\ \A h \in Headers : h.ckpt \in Nat
  /\ \A s \in acked : Numbered(s) => s.seq > 0
  /\ db.counted >= 0 /\ (db.aggregates # {} => Lasting)
  /\ status = "up" => Running
  /\ Lasting => Stored
  /\ status = "creating" => Creating
  /\ Replaying

-----------------------------------------------------------------------------
LEMMA NoFault ==
  ASSUME Counters, [Next]_vars, faults' = 0
  PROVE  faults = 0 /\ ~Fault
<1>1. faults \in Nat BY DEF Counters, Amounts
<1>2. ~Fault BY <1>1, FaultLeaves
<1>3. faults' = faults \/ faults' = faults + 1
  BY <1>2 DEF Next, OwnerStep, ReplayStep, CreateFile, WriteFirstHeader, SyncFirstHeader,
     SyncDirectory, OpenExisting, Submit, NotAccepted, GiveUp, CloseGate, RecordRejected,
     WriteSlot, SyncSlot, WriteHeader, SyncHeader, FlushRejected, ProbeRecovery, ReserveWrite,
     Snapshot, Commit, Checkpoint, Crash, vars
<1>4. QED BY <1>1, <1>2, <1>3

(* Only the header being synced is newer than the one in force.            *)
LEMMA NewerKept ==
  ASSUME JInv, Counters, FaultlessInv, [Next]_vars, faults' = 0, status' = "up"
  PROVE  Newer'
<1> SUFFICES ASSUME NEW i \in 0 .. 1
             PROVE  /\ headsD'[i].gen <= hdr'.gen
                    /\ heads'[i].gen <= hdr'.gen
                       \/ (op'.kind # "none" /\ op'.stage = "headerSync" /\ heads'[i] = op'.next)
  BY DEF Newer
<1>1. ~Fault BY NoFault
<1>2. hdr.gen \in Nat /\ heads[i].gen \in Nat /\ headsD[i].gen \in Nat
  BY DEF JInv, Shapes, Shape
<1>3. status = "up" =>
        /\ headsD[i].gen <= hdr.gen
        /\ heads[i].gen <= hdr.gen
           \/ (op.kind # "none" /\ op.stage = "headerSync" /\ heads[i] = op.next)
  BY DEF FaultlessInv, Running, Newer
<1>4. CASE SyncDirectory
  <2>1. UNCHANGED <<heads, headsD>> /\ hdr' = FirstHeader /\ status = "creating"
    BY <1>4 DEF SyncDirectory, Started
  <2>2. heads[i] \in {NoHeader, FirstHeader} /\ headsD[i] \in {NoHeader, FirstHeader}
    BY <2>1 DEF FaultlessInv, Creating
  <2>3. QED BY <2>1, <2>2, FirstShapes
<1>5. CASE OpenExisting
  <2>1. UNCHANGED <<heads, headsD>> /\ heads = headsD /\ hdr' = Newest
    BY <1>5 DEF OpenExisting, Started, fileVars, JInv, Files
  <2>2. heads[i].gen <= Newest.gen BY NewestIs
  <2>3. QED BY <2>1, <2>2
<1>6. CASE SyncHeader
  <2>1. /\ status = "up" /\ heads' = heads /\ headsD' = heads /\ hdr' = op.next
        /\ op.kind # "none" /\ op.stage = "headerSync"
    BY <1>1, <1>6 DEF SyncHeader, At
  <2>2. op.next.gen = hdr.gen + 1 BY <2>1 DEF JInv, OpInv
  <2>3. QED BY <1>2, <1>3, <2>1, <2>2
<1>7. CASE WriteHeader
  <2>1. /\ status = "up" /\ op.kind # "none" /\ op.stage = "header" /\ UNCHANGED <<headsD, hdr>>
        /\ heads' = [heads EXCEPT ![HeaderSlot(op.next.gen)] = op.next]
        /\ op' = [op EXCEPT !.stage = "headerSync"]
    BY <1>1, <1>7 DEF WriteHeader, At
  <2>2. op'.kind = op.kind /\ op'.stage = "headerSync" /\ op'.next = op.next
    BY <2>1 DEF JInv, Shapes, OpShape
  <2>3. heads'[i] = heads[i] \/ heads'[i] = op.next BY <2>1 DEF JInv, Shapes
  <2>4. QED BY <1>3, <2>1, <2>2, <2>3
<1>8. CASE SyncSlot
  <2>1. /\ status = "up" /\ op.stage = "slotSync" /\ UNCHANGED <<heads, hdr>>
        /\ headsD' = heads
    BY <1>1, <1>8 DEF SyncSlot, At
  <2>2. QED BY <1>3, <2>1
<1>9. ASSUME ~SyncDirectory, ~OpenExisting, ~SyncHeader, ~WriteHeader, ~SyncSlot
      PROVE  UNCHANGED <<status, heads, headsD, hdr>> /\ (op.stage # "headerSync" \/ OpSame)
  <2>1. UNCHANGED <<status, heads, headsD, hdr>>
    BY <1>9 DEF Next, OwnerStep, ReplayStep, CreateFile, WriteFirstHeader, SyncFirstHeader, Submit,
       NotAccepted, GiveUp, CloseGate, RecordRejected, WriteSlot, FlushRejected, ProbeRecovery,
       ReserveWrite, Snapshot, Commit, Checkpoint, Crash, vars, fileVars, ownerVars
  <2>2. op.stage # "headerSync" \/ op' = op \/ GiveUp
    BY <1>9, IdleFields DEF Next, OwnerStep, ReplayStep, CreateFile, WriteFirstHeader, SyncFirstHeader, Submit,
       NotAccepted, CloseGate, RecordRejected, WriteSlot, At, FlushRejected, ProbeRecovery,
       ReserveWrite, Snapshot, Commit, Checkpoint, Crash, vars, ownerVars
  <2>3. GiveUp => OpSame
    <3>1. GiveUp => op' = [op EXCEPT !.waiting = FALSE] BY DEF GiveUp
    <3>2. QED BY <3>1 DEF JInv, Shapes, OpShape, OpSame
  <2>4. QED BY <2>1, <2>2, <2>3 DEF OpSame
<1>10. CASE UNCHANGED <<status, heads, headsD, hdr>> /\ (op.stage # "headerSync" \/ OpSame)
  BY <1>3, <1>10 DEF OpSame
<1>11. QED BY <1>4, <1>5, <1>6, <1>7, <1>8, <1>9, <1>10

(* The protocol, entry by entry.                                           *)
LEMMA ProtocolTable ==
  /\ Records = {"received", "failure", "success", "published", "seal_received",
                "seal_completed", "seal_failed"}
  /\ Numbering = {"received", "seal_received"}
  /\ Protocol["received"].from = "locked" /\ Protocol["received"].acked = "verifying"
  /\ Protocol["received"].lost = "locked"
  /\ Protocol["failure"].from = "verifying" /\ Protocol["failure"].acked = "locked"
  /\ Protocol["failure"].lost = "locked"
  /\ Protocol["success"].from = "verifying" /\ Protocol["success"].acked = "publishing"
  /\ Protocol["success"].lost = "locked"
  /\ Protocol["published"].from = "publishing" /\ Protocol["published"].acked = "unsealed"
  /\ Protocol["published"].lost = "unsealed"
  /\ Protocol["seal_received"].from = "unsealed" /\ Protocol["seal_received"].acked = "recorded"
  /\ Protocol["seal_received"].lost = "unsealed"
  /\ Protocol["seal_completed"].from = "draining" /\ Protocol["seal_completed"].acked = "locked"
  /\ Protocol["seal_completed"].lost = "locked"
  /\ Protocol["seal_failed"].from = "draining" /\ Protocol["seal_failed"].acked = "stuck"
  /\ Protocol["seal_failed"].lost = "stuck"
BY DEF Records, Protocol, Numbering

(* What a step without a fault does to the caller, as far as the running   *)
(* process goes on.                                                        *)
Boots == /\ status # "up" /\ client' = "locked" /\ replay' = Off /\ op' = Idle
         /\ hdr' = InForce /\ UNCHANGED <<ring, ringD, db, acked>>
Turned(k) == /\ MayWrite(k) /\ Continue(k, FALSE) /\ UNCHANGED <<op, hdr, seq, ring, db>>
GaveUp == /\ Waits /\ Continue(op.kind, FALSE) /\ UNCHANGED <<hdr, seq, ring, db>>
          /\ op'.kind = op.kind /\ op'.stage = op.stage /\ op'.slot = op.slot
          /\ op'.next = op.next /\ op'.waiting = FALSE
Closes == /\ client = "recorded" /\ client' = "draining"
          /\ UNCHANGED <<op, hdr, seq, replay, ring, db>>
Commits == /\ op.kind # "none" /\ op.stage = "headerSync" /\ hdr' = op.next /\ op' = Idle
           /\ Finish(TRUE) /\ UNCHANGED <<ring, db>>
Replays == /\ replay.at # "off"
           /\ replay'.at \in {"due", "reserved"} => replay.at \in {"due", "reserved"}
           /\ db'.aggregates = db.aggregates
              \/ (replay.at = "read" /\ replay'.at \notin {"due", "reserved"})
Writes == /\ OpWritten /\ UNCHANGED <<replay, db>>
          /\ ring' = [ring EXCEPT ![Ring(hdr.idx)] = op.slot]
Else == /\ UNCHANGED <<client, seq, hdr>> /\ (OpMove /\ ~GiveUp)
        /\ ring' = ring \/ Writes
        /\ (UNCHANGED <<replay, db>>) \/ Replays
CallerMove == Boots \/ (\E k \in Records : Turned(k)) \/ GaveUp \/ Closes \/ Commits \/ Else

(* Every step of a running process without a fault is one of these.        *)
LEMMA CallerMoves ==
  ASSUME JInv, Counters, FaultlessInv, [Next]_vars, faults' = 0, status' = "up"
  PROVE  Boots \/ (status = "up" /\ CallerMove)
<1>1. ~Fault BY NoFault
<1>2. OpShape /\ (status # "up" => op = Idle /\ replay = Off)
  BY DEF JInv, Shapes, Quiet, Counters, Asleep
<1>3. CASE SyncDirectory \/ OpenExisting
  <2>1. /\ status # "up" /\ client' = "locked" /\ UNCHANGED <<replay, op, ring, ringD, db, acked>>
        /\ SyncDirectory \/ hdr' = Newest
    BY <1>3 DEF SyncDirectory, OpenExisting, Started, fileVars
  <2>2. SyncDirectory => /\ hdr' = FirstHeader /\ status = "creating"
                         /\ headsD[1] = FirstHeader /\ heads[1] = FirstHeader
    BY FirstShapes DEF SyncDirectory, Started, JInv, Files
  <2>3. SyncDirectory => heads[0] \in {NoHeader, FirstHeader}
    BY <2>2 DEF FaultlessInv, Creating
  <2>4. SyncDirectory => ~(heads[0].gen > heads[1].gen) BY <2>2, <2>3, FirstShapes
  <2>5. SyncDirectory => Newest = FirstHeader BY <2>2, <2>4 DEF Newest
  <2>6. QED BY <1>2, <2>1, <2>2, <2>5 DEF Boots, InForce
<1>4. ASSUME ~SyncDirectory, ~OpenExisting PROVE status = "up"
  BY <1>4 DEF Next, OwnerStep, ReplayStep, CreateFile, WriteFirstHeader, SyncFirstHeader, Submit,
     NotAccepted, GiveUp, CloseGate, RecordRejected, WriteSlot, SyncSlot, WriteHeader, SyncHeader,
     FlushRejected, ProbeRecovery, ReserveWrite, Snapshot, Commit, Checkpoint, Crash, vars, ownerVars
<1> SUFFICES ASSUME status = "up", ~SyncDirectory, ~OpenExisting PROVE CallerMove
  BY <1>3, <1>4
<1>5. ASSUME NEW k \in Records, NotAccepted(k) PROVE Turned(k)
  BY <1>5 DEF NotAccepted, Turned, ownerVars, fileVars
<1>6. CASE GiveUp
  <2>1. Waits /\ Continue(op.kind, FALSE) /\ UNCHANGED <<hdr, seq, ring, db>>
        /\ op' = [op EXCEPT !.waiting = FALSE]
    BY <1>6 DEF GiveUp, fileVars
  <2>2. GaveUp BY <1>2, <2>1 DEF OpShape, GaveUp
  <2>3. QED BY <2>2 DEF CallerMove
<1>7. CASE CloseGate
  <2>1. Closes BY <1>7 DEF CloseGate, Closes, ownerVars, fileVars
  <2>2. QED BY <2>1 DEF CallerMove
<1>8. CASE SyncHeader
  <2>1. Commits BY <1>1, <1>8, FinishDoes DEF SyncHeader, At, Commits
  <2>2. QED BY <2>1 DEF CallerMove
<1>9. ASSUME OpMove, ~GiveUp, UNCHANGED <<client, seq, hdr, replay, db>>,
             ring' = ring \/ (OpWritten /\ ring' = [ring EXCEPT ![Ring(hdr.idx)] = op.slot])
      PROVE  CallerMove
  BY <1>9 DEF Else, Writes, CallerMove
<1>10. op' = op /\ ~GiveUp => OpMove BY DEF OpSame, OpMove
<1>11. CASE WriteSlot
  <2>1. /\ ring' = [ring EXCEPT ![Ring(hdr.idx)] = op.slot]
        /\ op' = [op EXCEPT !.stage = "slotSync", !.next = NextHeader(op.kind, op.slot.seq)]
        /\ UNCHANGED <<client, seq, hdr, replay, db>>
    BY <1>1, <1>11 DEF WriteSlot, callerVars
  <2>2. OpWritten BY <1>2, <1>11, <2>1 DEF OpShape, OpWritten, WriteSlot, At
  <2>3. ~GiveUp BY <1>2, <2>1, <2>2, <1>11 DEF GiveUp, OpShape, OpWritten
  <2>4. QED BY <1>9, <2>1, <2>2, <2>3 DEF OpMove
<1>12. CASE SyncSlot \/ WriteHeader
  <2>1. /\ op' = [op EXCEPT !.stage = "header"] \/ op' = [op EXCEPT !.stage = "headerSync"]
        /\ UNCHANGED <<client, seq, hdr, replay, db, ring>>
        /\ op.kind # "none" /\ op.stage # "slot"
    BY <1>1, <1>12 DEF SyncSlot, WriteHeader, At, callerVars
  <2>2. OpGoesOn
    <3>1. CASE op' = [op EXCEPT !.stage = "header"] BY <1>2, <2>1, <3>1 DEF OpShape, OpGoesOn
    <3>2. CASE op' = [op EXCEPT !.stage = "headerSync"] BY <1>2, <2>1, <3>2 DEF OpShape, OpGoesOn
    <3>3. QED BY <2>1, <3>1, <3>2
  <2>3. CASE GiveUp BY <1>6, <2>3
  <2>4. QED BY <1>9, <2>1, <2>2, <2>3 DEF OpMove
<1>13. CASE RecordRejected \/ UNCHANGED vars
  <2>1. UNCHANGED <<op, client, seq, hdr, replay, db, ring>>
    BY <1>13 DEF RecordRejected, vars, fileVars, ownerVars, callerVars
  <2>2. QED BY <1>6, <1>9, <1>10, <2>1
<1>14. CASE (\E k \in Records : Submit(k)) \/ FlushRejected \/ ProbeRecovery
  <2>1. /\ UNCHANGED <<client, seq, hdr, replay, db, ring>> /\ op = Idle
    BY <1>14 DEF Submit, FlushRejected, ProbeRecovery, fileVars, callerVars
  <2>2. op' = op \/ OpMove
    BY <1>14, OpMoves, IdleFields DEF Submit, FlushRejected, ProbeRecovery, Job, Operation
  <2>3. QED BY <1>6, <1>9, <1>10, <2>1, <2>2
<1>15. CASE ReplayStep
  <2>1. UNCHANGED <<client, seq, hdr, ring>> /\ (op' = op \/ OpMove) /\ replay.at # "off"
    <3>1. CASE Checkpoint
      <4>1. op = Idle /\ UNCHANGED <<client, seq, hdr, ring>> /\ replay.at # "off"
        BY <3>1 DEF Checkpoint, fileVars, callerVars
      <4>2. op' = op \/ OpMove BY <4>1, OpMoves
      <4>3. QED BY <4>1, <4>2
    <3>2. CASE ReserveWrite \/ Snapshot \/ Commit
      BY <3>2 DEF ReserveWrite, Snapshot, Commit, fileVars, ownerVars, callerVars
    <3>3. QED BY <1>15, <3>1, <3>2 DEF ReplayStep
  <2>2. Replays
    <3>1. CASE ReserveWrite BY <2>1, <3>1 DEF ReserveWrite, Replays
    <3>2. CASE Snapshot BY <2>1, <3>2 DEF Snapshot, Replays
    <3>3. CASE Commit
      <4>1. replay.at = "read" /\ replay' \in {[replay EXCEPT !.at = "committed"], Off}
        BY <3>3 DEF Commit
      <4>2. CASE replay' = Off BY <2>1, <4>1, <4>2, OffFields DEF Replays
      <4>3. CASE replay' = [replay EXCEPT !.at = "committed"]
        <5>1. replay'.at \notin {"due", "reserved"} BY <4>3
        <5>2. QED BY <2>1, <4>1, <5>1 DEF Replays
      <4>4. QED BY <4>1, <4>2, <4>3
    <3>4. CASE Checkpoint
      <4>1. replay.at = "committed" /\ replay' = [replay EXCEPT !.at = "saving"] /\ db' = db
        BY <3>4 DEF Checkpoint
      <4>2. replay'.at \notin {"due", "reserved"} BY <4>1
      <4>3. QED BY <2>1, <4>1, <4>2 DEF Replays
    <3>5. QED BY <1>15, <3>1, <3>2, <3>3, <3>4 DEF ReplayStep
  <2>3. QED BY <1>6, <1>10, <2>1, <2>2 DEF Else, CallerMove
<1>16. ~CreateFile /\ ~WriteFirstHeader /\ ~SyncFirstHeader /\ ~Crash
  BY DEF CreateFile, WriteFirstHeader, SyncFirstHeader, Crash
<1>17. QED
  BY <1>5, <1>6, <1>7, <1>8, <1>11, <1>12, <1>13, <1>14, <1>15, <1>16 DEF Next, OwnerStep, CallerMove

(* A committed record takes its number, and its caller goes on.            *)
LEMMA CommitDoes ==
  ASSUME JInv, Counters, NumbersInv, status = "up", Commits
  PROVE  /\ hdr'.seqNext = IF op.kind \in Numbering THEN hdr.seqNext + 1 ELSE hdr.seqNext
         /\ hdr'.idx = IF op.kind \in Records THEN hdr.idx + 1 ELSE op.next.idx
         /\ hdr.seqNext \in Nat /\ hdr.idx \in Nat /\ hdr'.idx \in Nat /\ hdr'.idx >= hdr.idx
         /\ \/ /\ op.kind \in Records /\ op.waiting /\ seq' = op.slot.seq
               /\ client' = Protocol[op.kind].acked
               /\ replay' = IF op.kind = "published" THEN [Off EXCEPT !.at = "due"] ELSE replay
            \/ /\ ~Waits /\ client' = client /\ seq' = seq /\ replay' \in {replay, Off}
<1>1. op.next.seqNext = IF op.kind \in Numbering THEN hdr.seqNext + 1 ELSE hdr.seqNext
  BY DEF NumbersInv, OpNumbers, Commits
<1>2. /\ op.next.idx >= hdr.idx /\ op.next.idx \in Nat /\ hdr.idx \in Nat
      /\ op.kind \in Records => op.next.idx = hdr.idx + 1
  BY DEF JInv, OpInv, Commits, Shapes, Shape
<1>3. hdr.seqNext \in Nat BY InForceCounts DEF Counted
<1>4. QED BY <1>1, <1>2, <1>3 DEF Commits, Finish, Continue, Waits, callerVars

(* Who waits for the owner stays where its record starts from.             *)
LEMMA CallerOpKept ==
  ASSUME JInv, Counters, NumbersInv, Running, status = "up", CallerMove
  PROVE  CallerOp'
<1>1. CallerOp /\ CallerNumbers BY DEF Running
<1>2. ASSUME NEW k \in Records, Turned(k) PROVE CallerOp'
  <2>1. /\ ~Waits /\ client = Protocol[k].from /\ UNCHANGED <<op, hdr>>
        /\ client' = Protocol[k].lost
    BY <1>2 DEF Turned, MayWrite, Continue
  <2>2. replay' = replay \/ ~(op.kind = "seal_completed" /\ op.waiting)
    BY <2>1, ProtocolTable DEF Waits
  <2>3. op.kind \in Numbering => client' = Protocol[op.kind].from
    BY <1>1, <2>1, ProtocolTable DEF CallerOp
  <2>4. QED BY <1>1, <2>1, <2>2, <2>3 DEF CallerOp, Waits
<1>3. CASE GaveUp
  <2>1. client = Protocol[op.kind].from /\ client' = Protocol[op.kind].lost
    BY <1>1, <1>3 DEF GaveUp, Continue, CallerOp, Waits
  <2>2. op.kind \in Numbering => Protocol[op.kind].lost = Protocol[op.kind].from
    BY ProtocolTable
  <2>3. QED BY <1>1, <1>3, <2>1, <2>2 DEF GaveUp, CallerOp
<1>4. CASE Closes
  <2>1. op.kind \in Records => Protocol[op.kind].from # "recorded" BY ProtocolTable
  <2>2. QED BY <1>1, <1>4, <2>1 DEF Closes, CallerOp
<1>5. CASE op' = Idle BY <1>5, IdleFields, ProtocolTable DEF CallerOp
<1>6. CASE Else
  <2>1. UNCHANGED <<client, hdr>> BY <1>6 DEF Else
  <2>2. CASE OpSame \/ OpGoesOn \/ OpWritten
    <3>1. /\ op'.kind = op.kind /\ op'.waiting = op.waiting /\ op'.slot = op.slot
          /\ op.kind \in Records \/ (op'.next = op.next /\ (op'.stage # "slot" => op.stage # "slot"))
      BY <1>6, <2>2 DEF Else, OpSame, OpGoesOn, OpWritten
    <3>2. op.kind = "seal_completed" /\ op.waiting => replay' = replay
      BY <1>1, <1>6 DEF CallerOp, Else, Replays
    <3>3. QED BY <1>1, <2>1, <3>1, <3>2 DEF CallerOp
  <2>3. ASSUME NEW k \in Records, OpSubmitted(k) PROVE CallerOp'
    <3>1. client = Protocol[k].from /\ (k = "seal_completed" => replay.at = "off")
          /\ op'.kind = k /\ op'.stage = "slot"
          /\ op'.slot.seq = Number(k)
      <4>1. MayWrite(k) BY <2>3 DEF OpSubmitted, Submit
      <4>2. /\ op'.kind = k /\ op'.stage = "slot"
            /\ op'.slot = [kind |-> k, seq |-> Number(k), idx |-> hdr.idx]
        BY <2>3 DEF OpSubmitted
      <4>3. op'.slot.seq = Number(k) BY <4>2
      <4>4. QED BY <4>1, <4>2, <4>3 DEF MayWrite
    <3>2. k \notin Numbering => Number(k) = seq /\ client \in Decides
      BY <3>1, ProtocolTable DEF Number, Decides
    <3>3. k \notin Numbering => op'.slot.seq + 1 = hdr.seqNext
      BY <1>1, <3>1, <3>2 DEF CallerNumbers
    <3>4. UNCHANGED <<replay, db>> \/ replay.at # "off" BY <1>6 DEF Else, Replays
    <3>5. QED BY <2>1, <3>1, <3>3, <3>4 DEF CallerOp
  <2>4. CASE OpJob(op'.next)
    <3>1. op'.kind \notin Records /\ op'.kind \notin Numbering /\ op'.kind # "seal_completed"
      BY <2>4, ProtocolTable DEF OpJob
    <3>2. op'.next.idx = hdr.idx BY <2>4 DEF OpJob, NextGeneration
    <3>3. QED BY <2>1, <3>1, <3>2 DEF CallerOp
  <2>5. QED BY <1>6, <2>2, <2>3, <2>4 DEF Else, OpMove
<1>7. QED BY <1>2, <1>3, <1>4, <1>5, <1>6 DEF CallerMove, Boots, Commits

(* Whoever has a number has the last one given.                            *)
LEMMA CallerNumbersKept ==
  ASSUME JInv, Counters, NumbersInv, Running, status = "up", CallerMove
  PROVE  CallerNumbers'
<1>1. CallerOp /\ CallerNumbers /\ hdr.seqNext \in Nat /\ seq \in Nat
  BY InForceCounts DEF Running, Counted, Counters, Amounts
<1>2. ASSUME NEW k \in Records, Turned(k) PROVE CallerNumbers'
  <2>1. /\ client = Protocol[k].from /\ client' = Protocol[k].lost /\ UNCHANGED <<hdr, seq>>
        /\ replay' = IF k = "published" THEN [Off EXCEPT !.at = "due"] ELSE replay
        /\ k = "seal_completed" => replay.at = "off"
    BY <1>2 DEF Turned, MayWrite, Continue
  <2>2. client' \notin Decides BY <2>1, ProtocolTable DEF Decides
  <2>3. client' = "locked" => replay'.at = "off"
    BY <1>1, <2>1, ProtocolTable DEF CallerNumbers
  <2>4. QED BY <2>2, <2>3 DEF CallerNumbers, Decides
<1>3. CASE GaveUp
  <2>1. /\ client = Protocol[op.kind].from /\ client' = Protocol[op.kind].lost
        /\ replay' = IF op.kind = "published" THEN [Off EXCEPT !.at = "due"] ELSE replay
        /\ op.kind = "seal_completed" => replay.at = "off"
        /\ op.kind \in Records
    BY <1>1, <1>3 DEF GaveUp, Continue, CallerOp, Waits
  <2>2. client' \notin Decides BY <2>1, ProtocolTable DEF Decides
  <2>3. client' = "locked" => replay'.at = "off"
    BY <1>1, <2>1, ProtocolTable DEF CallerNumbers
  <2>4. QED BY <2>2, <2>3 DEF CallerNumbers, Decides
<1>4. CASE Closes BY <1>1, <1>4 DEF Closes, CallerNumbers, Decides
<1>5. CASE Commits
  <2>1. CASE ~Waits /\ client' = client /\ seq' = seq /\ replay' \in {replay, Off}
    <3>1. client \in Decides => op.kind \notin Numbering
      BY <1>1, ProtocolTable DEF CallerOp, Decides
    <3>2. QED BY <1>1, <1>5, <2>1, <3>1, CommitDoes, OffFields DEF CallerNumbers
  <2>2. CASE /\ op.kind \in Records /\ op.waiting /\ seq' = op.slot.seq
             /\ client' = Protocol[op.kind].acked
             /\ replay' = IF op.kind = "published" THEN [Off EXCEPT !.at = "due"] ELSE replay
    <3>1. client = Protocol[op.kind].from BY <1>1, <2>2 DEF CallerOp
    <3>2. op.kind \in Numbering => op.slot.seq = hdr.seqNext
      BY <1>5, <2>2 DEF NumbersInv, OpNumbers, Commits
    <3>3. seq' + 1 = hdr'.seqNext BY <1>1, <1>5, <2>2, <3>2, CommitDoes DEF CallerOp
    <3>4. client' \in {"locked", "verifying", "publishing"} => replay'.at = "off"
      BY <1>1, <2>2, <3>1, ProtocolTable DEF CallerOp, CallerNumbers
    <3>5. QED BY <3>3, <3>4 DEF CallerNumbers
  <2>3. QED BY <1>5, <2>1, <2>2, CommitDoes
<1>6. CASE Else
  <2>1. replay' = replay \/ replay.at # "off" BY <1>6 DEF Else, Replays
  <2>2. QED BY <1>1, <1>6, <2>1 DEF Else, CallerNumbers
<1>7. ASSUME Boots PROVE FALSE BY <1>7 DEF Boots
<1>8. QED BY <1>2, <1>3, <1>4, <1>5, <1>6, <1>7 DEF CallerMove

(* Writing the first record overwrites what a crash may have left, so that *)
(* from its commit on nothing in the ring is beyond it.                    *)
LEMMA RingBelowKept ==
  ASSUME JInv, Counters, NumbersInv, Running, Stored, status = "up", CallerMove
  PROVE  RingBelow'
<1>1. CallerOp /\ RingBelow /\ hdr.seqNext \in Nat
      /\ \A i \in 0 .. Slots - 1 : ring[i].seq \in Nat /\ ring[i].seq <= hdr.seqNext
  BY InForceCounts DEF Running, Counted, Counters, SlotNumbers, Stored, InForce
<1>2. ASSUME UNCHANGED <<hdr, ring>>, op'.kind = op.kind, op'.stage = op.stage,
             client' # "locked" => client # "locked"
      PROVE  RingBelow'
  BY <1>1, <1>2 DEF RingBelow
<1>3. ASSUME NEW k \in Records, Turned(k) PROVE RingBelow'
  <2>1. client' # "locked" => client # "locked"
    BY <1>3, ProtocolTable DEF Turned, MayWrite, Continue
  <2>2. QED BY <1>2, <1>3, <2>1 DEF Turned
<1>4. CASE GaveUp
  <2>1. client' # "locked" => client # "locked"
    BY <1>1, <1>4, ProtocolTable DEF GaveUp, Continue, CallerOp, Waits
  <2>2. QED BY <1>2, <1>4, <2>1 DEF GaveUp
<1>5. CASE Closes BY <1>2, <1>5 DEF Closes
<1>6. CASE Commits
  <2>1. ring' = ring BY <1>6 DEF Commits
  <2>2. CASE op.kind \in Numbering
    <3>1. hdr'.seqNext = hdr.seqNext + 1 BY <1>6, <2>2, CommitDoes
    <3>2. QED BY <1>1, <2>1, <3>1 DEF RingBelow
  <2>3. CASE op.kind \notin Numbering
    <3>1. hdr'.seqNext = hdr.seqNext BY <1>6, <2>3, CommitDoes
    <3>2. client' # "locked" => client # "locked"
      <4>1. op.kind \in Records \ Numbering => Protocol[op.kind].from # "locked" BY ProtocolTable
      <4>2. QED BY <1>1, <1>6, <2>3, <4>1, CommitDoes DEF CallerOp
    <3>3. QED BY <1>1, <2>1, <2>3, <3>1, <3>2 DEF RingBelow
  <2>4. QED BY <2>2, <2>3
<1>7. CASE Else
  <2>1. UNCHANGED <<client, hdr>> /\ (ring' = ring \/ Writes) /\ OpMove BY <1>7 DEF Else
  <2>2. CASE Writes
    <3>1. /\ op.kind \in Records /\ op.stage = "slot" /\ op'.kind = op.kind /\ op'.stage # "slot"
          /\ ring' = [ring EXCEPT ![Ring(hdr.idx)] = op.slot]
      BY <2>2 DEF Writes, OpWritten
    <3>2. CASE op.kind \in Numbering BY <3>1, <3>2 DEF RingBelow
    <3>3. CASE op.kind \notin Numbering
      <4>1. op.slot.seq \in Nat /\ op.slot.seq < hdr.seqNext
        BY <1>1, <3>1, <3>3 DEF CallerOp, Counters, Amounts
      <4>2. \A i \in 0 .. Slots - 1 : ring'[i] = ring[i] \/ ring'[i] = op.slot
        BY <3>1 DEF JInv, Shapes
      <4>3. QED BY <1>1, <2>1, <3>1, <3>3, <4>1, <4>2 DEF RingBelow
    <3>4. QED BY <3>2, <3>3
  <2>3. CASE ring' = ring
    <3>1. CASE OpSame \/ OpGoesOn \/ OpWritten
      <4>1. op'.kind = op.kind /\ (op'.stage = "slot" => op.stage = "slot")
        BY <3>1 DEF OpSame, OpGoesOn, OpWritten
      <4>2. QED BY <1>1, <2>1, <2>3, <4>1 DEF RingBelow
    <3>2. CASE op = Idle
      BY <1>1, <2>1, <2>3, <3>2, IdleFields DEF RingBelow
    <3>3. ASSUME NEW k \in Records, OpSubmitted(k) PROVE op = Idle
      BY <3>3 DEF OpSubmitted, Submit
    <3>4. QED BY <2>1, <3>1, <3>2, <3>3 DEF OpMove, OpJob
  <2>4. QED BY <2>1, <2>2, <2>3
<1>8. ASSUME Boots PROVE FALSE BY <1>8 DEF Boots
<1>9. QED BY <1>3, <1>4, <1>5, <1>6, <1>7, <1>8 DEF CallerMove

(* The number of an attempt that will be replayed was given after          *)
(* everything that has been replayed.                                      *)
LEMMA UnreachedKept ==
  ASSUME JInv, Counters, NumbersInv, Running, Stored, status = "up", CallerMove
  PROVE  Unreached'
<1>1. /\ CallerOp /\ CallerNumbers /\ Unreached /\ hdr.seqNext \in Nat /\ hdr.idx \in Nat
      /\ \A p \in db.aggregates : p[2] \in Nat /\ p[2] < hdr.seqNext
  BY InForceCounts DEF Running, Counted, Stored, InForce
<1> DEFINE P == client \in {"verifying", "publishing"} \/ replay.at \in {"due", "reserved"}
<1>2. ASSUME UNCHANGED <<hdr, db>>, P' => P PROVE Unreached'
  BY <1>1, <1>2 DEF Unreached
<1>3. ASSUME NEW k \in Records, Turned(k) PROVE Unreached'
  <2>1. P' => P
    BY <1>3, ProtocolTable DEF Turned, MayWrite, Continue
  <2>2. QED BY <1>2, <1>3, <2>1 DEF Turned
<1>4. CASE GaveUp
  <2>1. P' => P
    BY <1>1, <1>4, ProtocolTable DEF GaveUp, Continue, CallerOp, Waits
  <2>2. QED BY <1>2, <1>4, <2>1 DEF GaveUp
<1>5. CASE Closes BY <1>2, <1>5 DEF Closes
<1>6. CASE Commits
  <2>1. db' = db BY <1>6 DEF Commits
  <2>2. CASE P
    <3>1. hdr'.idx > 0 /\ \A p \in db.aggregates : p[2] + 1 < hdr'.seqNext
      BY <1>1, <1>6, <2>2, CommitDoes DEF Unreached
    <3>2. QED BY <2>1, <3>1 DEF Unreached
  <2>3. CASE ~P
    <3>1. CASE op.kind = "received" /\ op.waiting
      <4>1. hdr'.idx > 0 /\ hdr'.seqNext = hdr.seqNext + 1
        BY <1>1, <1>6, <3>1, CommitDoes, ProtocolTable
      <4>2. QED BY <1>1, <2>1, <4>1 DEF Unreached
    <3>2. CASE ~(op.kind = "received" /\ op.waiting)
      <4>1. ~P'
        <5>1. CASE ~Waits /\ client' = client /\ replay' \in {replay, Off}
          BY <2>3, <5>1, OffFields
        <5>2. CASE /\ op.kind \in Records /\ op.waiting
                   /\ client' = Protocol[op.kind].acked
                   /\ replay' = IF op.kind = "published" THEN [Off EXCEPT !.at = "due"] ELSE replay
          <6>1. client = Protocol[op.kind].from BY <1>1, <5>2 DEF CallerOp
          <6>2. QED BY <2>3, <3>2, <5>2, <6>1, ProtocolTable
        <5>3. QED BY <1>6, <5>1, <5>2, CommitDoes
      <4>2. QED BY <4>1 DEF Unreached
    <3>3. QED BY <3>1, <3>2
  <2>4. QED BY <2>2, <2>3
<1>7. CASE Else
  <2>1. UNCHANGED <<client, hdr>> BY <1>7 DEF Else
  <2>2. CASE UNCHANGED <<replay, db>> BY <1>2, <2>1, <2>2
  <2>3. CASE Replays
    <3>1. P' => P BY <2>1, <2>3 DEF Replays
    <3>2. CASE db'.aggregates = db.aggregates BY <1>1, <2>1, <3>1, <3>2 DEF Unreached
    <3>3. CASE replay.at = "read" /\ replay'.at \notin {"due", "reserved"}
      <4>1. ~P' BY <1>1, <2>1, <3>3 DEF CallerNumbers
      <4>2. QED BY <4>1 DEF Unreached
    <3>4. QED BY <2>3, <3>2, <3>3 DEF Replays
  <2>4. QED BY <1>7, <2>2, <2>3 DEF Else
<1>8. ASSUME Boots PROVE FALSE BY <1>8 DEF Boots
<1>9. QED BY <1>3, <1>4, <1>5, <1>6, <1>7, <1>8 DEF CallerMove

(* A file that lasts is never lost, not by a crash either.                 *)
LEMMA LastingStays ==
  ASSUME JInv, [Next]_vars, Lasting
  PROVE  Lasting'
<1>1. CASE status = "up" /\ Crash
  <2>1. hdr.gen > 0 /\ hdr.gen \in Nat /\ file = "kept"
    BY <1>1 DEF JInv, HeaderDurable, Files, Shapes, Shape
  <2>2. \A i \in 0 .. 1 : heads[i].gen \in Nat /\ headsD[i].gen \in Nat
    BY DEF JInv, Shapes, Shape
  <2>3. Newest'.gen > 0 BY <1>1, <2>1, <2>2, FoundAfterCrash
  <2>4. QED BY <1>1, <2>1, <2>3 DEF Crash, Lasting
<1>2. CASE status = "up" /\ ~Crash
  <2>1. status' = "up"
    BY <1>2 DEF Next, OwnerStep, ReplayStep, CreateFile, WriteFirstHeader, SyncFirstHeader,
       SyncDirectory, OpenExisting, Submit, NotAccepted, GiveUp, CloseGate, RecordRejected,
       WriteSlot, SyncSlot, WriteHeader, SyncHeader, FlushRejected, ProbeRecovery, ReserveWrite,
       Snapshot, Commit, Checkpoint, vars, ownerVars
  <2>2. QED BY <2>1 DEF Lasting
<1>3. CASE status # "up"
  <2>1. status = "down" /\ file = "kept" /\ Newest.gen > 0 BY <1>3 DEF Lasting
  <2>2. CASE OpenExisting
    <3>1. Newest.gen # 0 BY <2>1
    <3>2. QED BY <2>2, <3>1 DEF OpenExisting, Started, Lasting
  <2>3. CASE ~OpenExisting
    <3>1. UNCHANGED <<status, file, heads>>
      BY <2>1, <2>3, IdleFields DEF JInv, Quiet, Next, OwnerStep, ReplayStep, CreateFile, WriteFirstHeader, SyncFirstHeader,
         SyncDirectory, Submit, NotAccepted, GiveUp, CloseGate, RecordRejected,
         WriteSlot, SyncSlot, WriteHeader, SyncHeader, At, FlushRejected, ProbeRecovery, ReserveWrite,
         Snapshot, Commit, Checkpoint, Crash, vars, fileVars, ownerVars
    <3>2. QED BY <2>1, <3>1 DEF Lasting, Newest
  <2>4. QED BY <2>2, <2>3
<1>4. QED BY <1>1, <1>2, <1>3

(* Without a fault, Open finds the header in force or the one being synced. *)
LEMMA FoundWithoutFault ==
  ASSUME JInv, Newer, Crash, status = "up"
  PROVE  Newest' = hdr \/ (op.kind # "none" /\ op.stage = "headerSync" /\ Newest' = op.next)
<1>1. \A i \in 0 .. 1 : heads[i].gen \in Nat /\ headsD[i].gen \in Nat /\ hdr.gen \in Nat
  BY DEF JInv, Shapes, Shape
<1>2. ASSUME NEW i \in 0 .. 1, Newest' \in {heads[i], headsD[i]}, Newest'.gen > hdr.gen
      PROVE  op.kind # "none" /\ op.stage = "headerSync" /\ Newest' = op.next
  BY <1>1, <1>2 DEF Newer
<1>3. CASE Newest' \in {heads[0], heads[1], headsD[0], headsD[1]} /\ Newest'.gen > hdr.gen
  <2>1. Newest' \in {heads[0], headsD[0]} \/ Newest' \in {heads[1], headsD[1]} BY <1>3
  <2>2. 0 \in 0 .. 1 /\ 1 \in 0 .. 1 OBVIOUS
  <2>3. QED BY <1>2, <1>3, <2>1, <2>2
<1>4. QED BY <1>3, FoundAfterCrash

(* The header in hand is not behind the one in force.                      *)
LEMMA NextNumbers ==
  ASSUME JInv, Counters, NumbersInv, status = "up", op.kind # "none", op.stage # "slot"
  PROVE  /\ hdr.seqNext \in Nat /\ op.next.seqNext \in Nat /\ hdr.idx \in Nat /\ op.next.idx \in Nat
         /\ op.next.seqNext >= hdr.seqNext /\ op.next.idx >= hdr.idx
<1>1. hdr.seqNext \in Nat /\ op.next.seqNext \in Nat BY InForceCounts DEF Counted
<1>2. hdr.idx \in Nat /\ op.next.idx \in Nat /\ op.next.idx >= hdr.idx
  BY DEF JInv, Shapes, Shape, OpInv
<1>3. op.next.seqNext >= hdr.seqNext BY <1>1 DEF NumbersInv, OpNumbers
<1>4. QED BY <1>1, <1>2, <1>3

(* The header in force moves on, and what was in the ring's window then is *)
(* all that can be in it now under a number given before.                  *)
LEMMA MovesOn ==
  ASSUME JInv, Counters, NumbersInv, FaultlessInv, [Next]_vars, Lasting
  PROVE  /\ InForce.seqNext \in Nat /\ InForce'.seqNext \in Nat /\ InForce.seqNext > 0
         /\ InForce'.seqNext >= InForce.seqNext
         /\ \A s \in acked' :
              Numbered(s) /\ s.seq < InForce.seqNext /\ s.idx + Slots > InForce'.idx
                => s \in acked /\ s.idx + Slots > InForce.idx
<1>1. InForce \in Headers BY DEF InForce, Newest, Headers
<1>2. InForce.gen > 0
  BY DEF Lasting, InForce, JInv, HeaderDurable
<1>3. InForce.seqNext \in Nat /\ InForce.seqNext > 0 BY <1>1, <1>2 DEF Counters, Counted
<1>4. InForce.idx \in Nat BY DEF InForce, Newest, JInv, Shapes, Shape
<1>5. Lasting' BY LastingStays
<1>6. \A s \in acked : s.idx \in Nat BY DEF JInv, Shapes
<1>7. CASE InForce' = InForce /\ acked' = acked BY <1>3, <1>7
<1>8. CASE status = "up" /\ SyncHeader /\ Finish(TRUE) /\ InForce' = op.next /\ InForce = hdr
  <2>1. op.kind # "none" /\ op.stage = "headerSync" BY <1>8 DEF SyncHeader, At
  <2>2. \A s \in acked' : s \in acked \/ (Numbered(s) => s.seq = hdr.seqNext)
    BY <1>8, AckedNumber
  <2>3. QED BY <1>3, <1>4, <1>6, <1>8, <2>1, <2>2, NextNumbers, ConstantsAssumption
<1>9. CASE status = "up" /\ Crash /\ InForce' = Newest' /\ InForce = hdr /\ acked' = acked
  <2>1. Newer BY <1>9 DEF FaultlessInv, Running
  <2>2. CASE Newest' = hdr BY <1>3, <1>9, <2>2
  <2>3. CASE op.kind # "none" /\ op.stage = "headerSync" /\ Newest' = op.next
    BY <1>3, <1>4, <1>6, <1>9, <2>3, NextNumbers, ConstantsAssumption
  <2>4. QED BY <1>9, <2>1, <2>2, <2>3, FoundWithoutFault
<1>10. status # "creating" BY DEF Lasting
<1>11. QED BY <1>5, <1>7, <1>8, <1>9, <1>10, InForceMoves

(* The audit log only grows, and only by a transaction of the replay.      *)
LEMMA RowsGrow ==
  ASSUME Counters, LiveInv, [Next]_vars
  PROVE  /\ db.rows \subseteq db'.rows /\ db'.counted >= db.counted
         /\ db' = db \/ Commit
<1>1. db' = db \/ Commit
  BY DEF Next, OwnerStep, ReplayStep, CreateFile, WriteFirstHeader, SyncFirstHeader,
     SyncDirectory, OpenExisting, Submit, NotAccepted, GiveUp, CloseGate, RecordRejected,
     WriteSlot, SyncSlot, WriteHeader, SyncHeader, FlushRejected, ProbeRecovery, ReserveWrite,
     Snapshot, Checkpoint, Crash, vars
<1>2. db.counted \in Int /\ replay.delta \in Int /\ replay.delta >= 0
  BY DEF Counters, Amounts, LiveInv
<1>3. CASE db' = db BY <1>2, <1>3
<1>4. CASE Commit /\ db' # db
  <2>1. /\ db'.rows = db.rows \cup replay.rows
        /\ db'.counted = db.counted \/ db'.counted = db.counted + 0
           \/ db'.counted = db.counted + replay.delta
    BY <1>4 DEF Commit
  <2>2. QED BY <1>2, <1>4, <2>1
<1>5. QED BY <1>1, <1>3, <1>4

-----------------------------------------------------------------------------
(* The last committed record stays in the ring.                            *)
LEMMA SlotStays ==
  ASSUME JInv, [Next]_vars, NEW j \in 0 .. Slots - 1, ring[j] = ringD[j],
         ~CreateFile, ~(WriteSlot /\ j = Ring(hdr.idx))
  PROVE  ring'[j] = ring[j] /\ ringD'[j] = ring[j]
<1>1. CASE UNCHANGED <<ring, ringD>> BY <1>1
<1>2. CASE WriteSlot
  <2>1. ringD' = ringD /\ \E s : ring' = [ring EXCEPT ![Ring(hdr.idx)] = s]
    BY <1>2 DEF WriteSlot
  <2>2. QED BY <1>2, <2>1 DEF JInv, Shapes
<1>3. CASE SyncSlot \/ SyncHeader BY <1>3 DEF SyncSlot, SyncHeader
<1>4. CASE Crash
  <2>1. PICK r : ring' = [k \in 0 .. Slots - 1 |->
                            IF ring[k] = ringD[k] THEN ring[k]
                            ELSE Survivor(ringD[k], ring[k], Torn, r[k])]
    BY <1>4 DEF Crash
  <2>2. ring'[j] = ring[j] BY <2>1
  <2>3. QED BY <1>4, <2>2 DEF Crash
<1>5. ASSUME ~WriteSlot, ~SyncSlot, ~SyncHeader, ~Crash
      PROVE  UNCHANGED <<ring, ringD>>
  BY <1>5 DEF Next, OwnerStep, ReplayStep, WriteFirstHeader, SyncFirstHeader, SyncDirectory,
     OpenExisting, Submit, NotAccepted, GiveUp, CloseGate, RecordRejected, WriteHeader,
     FlushRejected, ProbeRecovery, ReserveWrite, Snapshot, Commit, Checkpoint, vars, fileVars
<1>6. QED BY <1>1, <1>2, <1>3, <1>4, <1>5

(* A header that commits a record has it in the ring.                      *)
LEMMA TipOfNext ==
  ASSUME JInv, Counters, NumbersInv, FaultlessInv, status = "up",
         op.kind # "none", op.stage = "headerSync"
  PROVE  Tip(op.next)
<1>1. CallerOp /\ Tip(hdr) BY DEF FaultlessInv, Running, Lasting, Stored, InForce
<1>2. hdr.seqNext \in Nat /\ hdr.idx \in Nat /\ op.slot.seq \in Nat
  BY InForceCounts DEF Counted, Counters, Amounts
<1>3. op.next.seqNext = IF op.kind \in Numbering THEN hdr.seqNext + 1 ELSE hdr.seqNext
  BY DEF NumbersInv, OpNumbers
<1>4. CASE op.kind \in Records
  <2>1. /\ op.next.idx = hdr.idx + 1
        /\ ring[Ring(hdr.idx)] = op.slot /\ ringD[Ring(hdr.idx)] = op.slot
    BY <1>4 DEF JInv, OpInv
  <2>2. op.slot.kind = op.kind /\ op.slot.seq + 1 = op.next.seqNext
    BY <1>1, <1>3, <1>4 DEF NumbersInv, OpNumbers, CallerOp
  <2>3. op.next.idx - 1 = hdr.idx BY <1>2, <2>1
  <2>4. QED BY <1>4, <2>1, <2>2, <2>3 DEF Tip, Valid
<1>5. CASE op.kind \notin Records
  <2>1. op.next.idx = hdr.idx /\ op.kind \notin Numbering
    BY <1>1, <1>5, ProtocolTable DEF CallerOp
  <2>2. QED BY <1>1, <1>3, <2>1 DEF Tip
<1>6. QED BY <1>4, <1>5

(* No step and no crash takes the last committed record away.              *)
LEMMA TipKept ==
  ASSUME JInv, Counters, NumbersInv, FaultlessInv, [Next]_vars, Lasting
  PROVE  Tip(InForce)'
<1>1. Lasting' BY LastingStays
<1>2. PICK h : h = InForce' OBVIOUS
<1>3. Tip(h) /\ (WriteSlot => h = hdr)
  <2>1. Tip(InForce) /\ (status = "up" => Newer) BY DEF FaultlessInv, Stored, Running
  <2>2. WriteSlot => InForce = hdr /\ InForce' = hdr BY DEF WriteSlot, At, InForce
  <2>3. status # "creating" BY DEF Lasting
  <2>4. CASE InForce' = InForce BY <1>2, <2>1, <2>2, <2>4
  <2>5. CASE status = "up" /\ SyncHeader /\ Finish(TRUE) /\ InForce' = op.next
    <3>1. op.kind # "none" /\ op.stage = "headerSync" BY <2>5 DEF SyncHeader, At
    <3>2. ~WriteSlot BY <3>1 DEF WriteSlot, At
    <3>3. QED BY <1>2, <2>5, <3>1, <3>2, TipOfNext
  <2>6. CASE status = "up" /\ Crash /\ InForce' = Newest' /\ InForce = hdr
    <3>1. ~WriteSlot BY <2>6 DEF WriteSlot, Crash
    <3>2. CASE Newest' = hdr BY <1>2, <2>1, <2>6, <3>1, <3>2
    <3>3. CASE op.kind # "none" /\ op.stage = "headerSync" /\ Newest' = op.next
      BY <1>2, <2>6, <3>1, <3>3, TipOfNext
    <3>4. QED BY <2>1, <2>6, <3>2, <3>3, FoundWithoutFault
  <2>7. QED BY <1>1, <2>3, <2>4, <2>5, <2>6, InForceMoves
<1>4. CASE h.idx > 0
  <2>1. h.idx \in Nat /\ h.idx - 1 \in Nat
    <3>1. JInv' BY Inductive
    <3>2. hdr'.idx \in Nat /\ \A i \in 0 .. 1 : heads'[i].idx \in Nat
      BY <3>1 DEF JInv, Shapes, Shape
    <3>3. h = hdr' \/ h = heads'[0] \/ h = heads'[1] BY <1>2 DEF InForce, Newest
    <3>4. QED BY <1>4, <3>2, <3>3
  <2>2. Ring(h.idx - 1) \in 0 .. Slots - 1 /\ Ring(h.idx) # Ring(h.idx - 1)
    BY <2>1, RingSlots, ConstantsAssumption
  <2>3. ~CreateFile BY DEF Lasting, CreateFile
  <2>4. ring[Ring(h.idx - 1)] = ringD[Ring(h.idx - 1)] BY <1>3, <1>4 DEF Tip
  <2>5. /\ ring'[Ring(h.idx - 1)] = ring[Ring(h.idx - 1)]
        /\ ringD'[Ring(h.idx - 1)] = ring[Ring(h.idx - 1)]
    BY <1>3, <2>2, <2>3, <2>4, SlotStays
  <2>6. QED BY <1>2, <1>3, <1>4, <2>5 DEF Tip
<1>5. QED BY <1>2, <1>4 DEF Tip

(* A running process keeps all this, and Open sets it up.                  *)
LEMMA RunningKept ==
  ASSUME JInv, Counters, NumbersInv, FaultlessInv, [Next]_vars, faults' = 0, status' = "up"
  PROVE  Running'
<1>1. Newer' BY NewerKept
<1>2. CASE status = "up" /\ CallerMove
  <2>1. Running /\ Stored BY <1>2 DEF FaultlessInv, Lasting
  <2>2. CallerOp' BY <1>2, <2>1, CallerOpKept
  <2>3. CallerNumbers' BY <1>2, <2>1, CallerNumbersKept
  <2>4. RingBelow' BY <1>2, <2>1, RingBelowKept
  <2>5. Unreached' BY <1>2, <2>1, UnreachedKept
  <2>6. QED BY <1>1, <2>2, <2>3, <2>4, <2>5 DEF Running
<1>3. CASE Boots
  <2>1. client' = "locked" /\ replay'.at = "off" /\ op'.kind = "none"
    BY <1>3, OffFields, IdleFields DEF Boots
  <2>2. CallerOp' BY <2>1, ProtocolTable DEF CallerOp
  <2>3. CallerNumbers' BY <2>1 DEF CallerNumbers, Decides
  <2>4. RingBelow' BY <2>1 DEF RingBelow
  <2>5. Unreached' BY <2>1 DEF Unreached
  <2>6. QED BY <1>1, <2>2, <2>3, <2>4, <2>5 DEF Running
<1>4. QED BY <1>2, <1>3, CallerMoves

(* An attempt that was acknowledged has a number.                          *)
LEMMA PositiveKept ==
  ASSUME JInv, Counters, NumbersInv, FaultlessInv, [Next]_vars, NEW s \in acked', Numbered(s)
  PROVE  s.seq > 0
<1>1. CASE s \in acked BY <1>1 DEF FaultlessInv
<1>2. CASE s \notin acked
  <2>1. SyncHeader /\ Finish(TRUE) BY <1>2, AckedGrows
  <2>2. s.seq = hdr.seqNext BY <1>2, <2>1, AckedNumber
  <2>3. status = "up" BY <2>1 DEF SyncHeader, At
  <2>4. QED BY <2>2, <2>3, InForceCounts
<1>3. QED BY <1>1, <1>2

(* A new header's checkpoint and snapshot are the old ones, or the         *)
(* replay's.                                                               *)
LEMMA MadeFrom ==
  ASSUME NEW h, Made(h)
  PROVE  \/ h.snap = hdr.snap /\ h.ckpt = hdr.ckpt
         \/ Checkpoint /\ h.snap = replay.live /\ h.ckpt \in {replay.end, hdr.ckpt}
BY DEF Made, NextHeader, NextGeneration

LEMMA CheckpointsNumbered ==
  ASSUME JInv, FaultlessInv, [Next]_vars, NEW h \in Headers'
  PROVE  h.ckpt \in Nat
<1>1. Known(h) BY HeadersKnown
<1>2. \A g \in Headers : g.ckpt \in Nat BY DEF FaultlessInv
<1>3. NoHeader.ckpt = 0 /\ FirstHeader.ckpt = 0 BY DEF NoHeader, FirstHeader
<1>4. CASE Made(h)
  <2>1. hdr.ckpt \in Nat BY <1>2 DEF Headers
  <2>2. Checkpoint => replay.end \in Nat BY DEF Checkpoint, FaultlessInv, Replaying
  <2>3. QED BY <1>4, <2>1, <2>2, MadeFrom
<1>5. QED BY <1>1, <1>2, <1>3, <1>4 DEF Known

-----------------------------------------------------------------------------
(* What was covered stays so: nothing comes back into the ring's window,   *)
(* and no new attempt gets a number that was given before.                 *)
LEMMA CoveredKept ==
  ASSUME JInv, Counters, NumbersInv, FaultlessInv, [Next]_vars, Lasting, Counters',
         NEW c \in Nat, c < InForce.seqNext,
         NEW rows, NEW more, Covered(c, rows), rows \subseteq more,
         NEW s \in acked', Numbered(s), s.seq <= c, s.idx + Slots > InForce'.idx
  PROVE  Row(s) \in more
<1>1. s.seq \in Nat BY DEF Counters, Amounts
<1>2. InForce.seqNext \in Nat BY MovesOn
<1>3. s.seq < InForce.seqNext BY <1>1, <1>2
<1>4. s \in acked /\ s.idx + Slots > InForce.idx BY <1>3, MovesOn
<1>5. QED BY <1>4 DEF Covered

(* No slot has a number that the header in force would not give next.      *)
LEMMA RingsBounded ==
  ASSUME JInv, Counters, NumbersInv, FaultlessInv, [Next]_vars, Lasting, NEW i \in 0 .. Slots - 1
  PROVE  ring'[i].seq <= InForce'.seqNext /\ ringD'[i].seq <= InForce'.seqNext
<1>1. /\ InForce.seqNext \in Nat /\ InForce'.seqNext \in Nat
      /\ InForce'.seqNext >= InForce.seqNext
  BY MovesOn
<1>2. /\ ring[i].seq \in Nat /\ ringD[i].seq \in Nat /\ op.slot.seq \in Nat
  BY DEF Counters, SlotNumbers, Amounts
<1>3. ring[i].seq <= InForce.seqNext /\ ringD[i].seq <= InForce.seqNext
  BY DEF FaultlessInv, Stored
<1>4. WriteSlot => op.slot.seq <= InForce.seqNext
  <2>1. WriteSlot => status = "up" /\ op.kind # "none" /\ op.kind \in Records
    BY DEF WriteSlot, At
  <2>2. WriteSlot => op.slot.seq = hdr.seqNext \/ op.slot.seq < hdr.seqNext
    BY <2>1 DEF NumbersInv, OpNumbers
  <2>3. QED BY <1>1, <1>2, <2>1, <2>2 DEF InForce
<1>5. QED BY <1>1, <1>2, <1>3, <1>4, RingsKept, IdleFields

(* What was replayed has numbers that were given.                          *)
LEMMA AggregatesBounded ==
  ASSUME JInv, Counters, NumbersInv, LiveInv, FaultlessInv, [Next]_vars, Lasting,
         NEW p \in db'.aggregates
  PROVE  p[2] \in Nat /\ p[2] < InForce'.seqNext
<1>1. /\ InForce.seqNext \in Nat /\ InForce'.seqNext \in Nat
      /\ InForce'.seqNext >= InForce.seqNext
  BY MovesOn
<1>2. CASE p \in db.aggregates
  <2>1. p[2] \in Nat /\ p[2] < InForce.seqNext BY <1>2 DEF FaultlessInv, Stored
  <2>2. QED BY <1>1, <2>1
<1>3. CASE p \notin db.aggregates
  <2>1. Commit BY <1>3, RowsGrow
  <2>2. replay.at = "read" /\ p = <<replay.start, replay.end>>
    BY <1>3, <2>1 DEF Commit
  <2>3. status = "up" BY <2>2, OffFields DEF Counters, Asleep
  <2>4. replay.end \in Nat /\ replay.end < InForce.seqNext
    BY <2>2, <2>3 DEF FaultlessInv, Replaying, InForce
  <2>5. p[2] = replay.end BY <2>2
  <2>6. QED BY <1>1, <2>4, <2>5
<1>4. QED BY <1>2, <1>3

(* What any header takes for replayed is in the log.                       *)
LEMMA HeadersStored ==
  ASSUME JInv, Counters, NumbersInv, LiveInv, FaultlessInv, [Next]_vars, Lasting, Counters',
         NEW h \in Headers'
  PROVE  /\ h.snap <= db'.counted /\ h.ckpt < InForce'.seqNext
         /\ \A s \in acked' :
              Numbered(s) /\ s.seq <= h.ckpt /\ s.idx + Slots > InForce'.idx => Row(s) \in db'.rows
<1>1. /\ InForce.seqNext \in Nat /\ InForce'.seqNext \in Nat /\ InForce.seqNext > 0
      /\ InForce'.seqNext >= InForce.seqNext
  BY MovesOn
<1>2. /\ db.rows \subseteq db'.rows /\ db'.counted >= db.counted
      /\ db.counted \in Int /\ db'.counted \in Int /\ db.counted >= 0
  BY RowsGrow DEF Counters, Amounts, FaultlessInv
<1>3. h.ckpt \in Nat BY CheckpointsNumbered
<1>4. h.snap \in Nat BY DEF Counters, Counted
<1>5. CASE h.ckpt = 0 /\ h.snap = 0
  <2>1. \A s \in acked' : Numbered(s) => s.seq > 0 BY PositiveKept
  <2>2. \A s \in acked' : s.seq \in Nat BY DEF Counters, Amounts
  <2>3. QED BY <1>1, <1>2, <1>5, <2>1, <2>2
<1>6. ASSUME h.snap <= db.counted, h.ckpt < InForce.seqNext, Covered(h.ckpt, db.rows)
      PROVE  /\ h.snap <= db'.counted /\ h.ckpt < InForce'.seqNext
             /\ \A s \in acked' : Numbered(s) /\ s.seq <= h.ckpt
                                  /\ s.idx + Slots > InForce'.idx => Row(s) \in db'.rows
  <2>1. h.snap <= db'.counted /\ h.ckpt < InForce'.seqNext BY <1>1, <1>2, <1>3, <1>4, <1>6
  <2>2. QED BY <1>2, <1>3, <1>6, <2>1, CoveredKept
<1>7. \A g \in Headers : /\ g.snap <= db.counted /\ g.ckpt < InForce.seqNext
                         /\ Covered(g.ckpt, db.rows)
  BY DEF FaultlessInv, Stored
<1>8. CASE h \in Headers BY <1>6, <1>7, <1>8
<1>9. CASE h \in {NoHeader, FirstHeader}
  BY <1>5, <1>9 DEF NoHeader, FirstHeader
<1>10. CASE Made(h)
  <2>1. status = "up" BY <1>10, MadeUp
  <2>2. hdr \in Headers BY DEF Headers
  <2>3. CASE h.snap = hdr.snap /\ h.ckpt = hdr.ckpt BY <1>6, <1>7, <2>2, <2>3
  <2>4. CASE Checkpoint /\ h.snap = replay.live /\ h.ckpt \in {replay.end, hdr.ckpt}
    <3>1. /\ replay.live <= db.counted /\ replay.end < InForce.seqNext
          /\ Covered(replay.end, db.rows)
      BY <2>1, <2>4 DEF Checkpoint, FaultlessInv, Replaying, InForce
    <3>2. QED BY <1>6, <1>7, <2>2, <2>4, <3>1
  <2>5. QED BY <1>10, <2>3, <2>4, MadeFrom
<1>11. QED BY <1>8, <1>9, <1>10, HeadersKnown DEF Known

(* Together: the file and the log agree after every step but the first.    *)
LEMMA StoredKept ==
  ASSUME JInv, Counters, NumbersInv, LiveInv, FaultlessInv, [Next]_vars, Lasting, Counters'
  PROVE  Stored'
<1>1. Tip(InForce)' BY TipKept
<1>2. \A i \in 0 .. Slots - 1 : ring'[i].seq <= InForce'.seqNext /\ ringD'[i].seq <= InForce'.seqNext
  BY RingsBounded
<1>3. \A p \in db'.aggregates : p[2] \in Nat /\ p[2] < InForce'.seqNext
  BY AggregatesBounded
<1>4. \A h \in Headers' :
        /\ h.snap <= db'.counted /\ h.ckpt < InForce'.seqNext
        /\ \A s \in acked' :
             Numbered(s) /\ s.seq <= h.ckpt /\ s.idx + Slots > InForce'.idx => Row(s) \in db'.rows
  BY HeadersStored
<1>5. QED BY <1>1, <1>2, <1>3, <1>4 DEF Stored, Covered, Numbered, Row

(* A new file holds the first header and nothing else.                     *)
LEMMA StoredFirst ==
  ASSUME JInv, Counters, LiveInv, FaultlessInv, [Next]_vars, ~Lasting, Lasting', Counters', JInv'
  PROVE  Stored'
<1>1. status = "creating" /\ acked' = {} /\ (SyncDirectory \/ Crash) BY InForceMoves DEF Lasting
<1>2. /\ \A i \in 0 .. 1 : heads[i] \in {NoHeader, FirstHeader} /\ headsD[i] \in {NoHeader, FirstHeader}
      /\ \A i \in 0 .. Slots - 1 : ring[i].seq = 0 /\ ringD[i].seq = 0
  BY <1>1 DEF FaultlessInv, Creating
<1>3. hdr = NoHeader /\ op.next = NoHeader
  BY <1>1, IdleFields DEF Counters, Asleep, JInv, Quiet
<1>4. \A h \in Headers' : h \in {NoHeader, FirstHeader}
  <2> SUFFICES ASSUME NEW h \in Headers' PROVE h \in {NoHeader, FirstHeader} OBVIOUS
  <2>1. Known(h) BY HeadersKnown
  <2>2. ~Made(h) BY <1>1, MadeUp
  <2>3. h \in Headers => h \in {NoHeader, FirstHeader} BY <1>2, <1>3 DEF Headers
  <2>4. QED BY <2>1, <2>2, <2>3 DEF Known
<1>5. /\ NoHeader.snap = 0 /\ NoHeader.ckpt = 0 /\ FirstHeader.snap = 0 /\ FirstHeader.ckpt = 0
      /\ NoHeader.gen = 0 /\ FirstHeader.seqNext = 1 /\ FirstHeader.idx = 0
  BY DEF NoHeader, FirstHeader
<1>6. PICK h : h = InForce' OBVIOUS
<1>7. h = FirstHeader
  <2>1. CASE SyncDirectory
    <3>1. status' = "up" /\ hdr' = FirstHeader BY <2>1 DEF SyncDirectory, Started
    <3>2. QED BY <1>6, <3>1 DEF InForce
  <2>2. CASE Crash
    <3>1. status' = "down" BY <2>2 DEF Crash
    <3>2. Newest'.gen > 0 /\ h = Newest' BY <1>6, <3>1 DEF Lasting, InForce
    <3>3. h = heads'[0] \/ h = heads'[1] BY <3>2 DEF Newest
    <3>4. h \in {NoHeader, FirstHeader} BY <1>4, <3>3 DEF Headers
    <3>5. QED BY <1>5, <3>2, <3>4
  <2>3. QED BY <1>1, <2>1, <2>2
<1>8. db' = db /\ db.aggregates = {}
  <2>1. ~Commit BY <1>1, OffFields DEF Commit, Counters, Asleep
  <2>2. db' = db BY <2>1, RowsGrow
  <2>3. QED BY <2>2 DEF FaultlessInv
<1>9. \A i \in 0 .. Slots - 1 : ring'[i].seq = 0 /\ ringD'[i].seq = 0
  <2>1. ~WriteSlot BY <1>1 DEF WriteSlot, At
  <2>2. QED BY <1>2, <2>1, RingsKept, IdleFields
<1>10. db'.counted >= 0 BY <1>8 DEF FaultlessInv
<1>11. \A i \in 0 .. Slots - 1 : ring'[i].seq <= h.seqNext /\ ringD'[i].seq <= h.seqNext
  BY <1>5, <1>7, <1>9
<1>12. Tip(h)' BY <1>5, <1>7 DEF Tip
<1>13. \A g \in Headers' : g.snap <= db'.counted /\ g.ckpt < h.seqNext
  BY <1>4, <1>5, <1>7, <1>10
<1>14. \A g \in Headers' : Covered(g.ckpt, db.rows)' BY <1>1 DEF Covered
<1>15. QED BY <1>6, <1>8, <1>11, <1>12, <1>13, <1>14 DEF Stored, Tip

(* A file under creation holds the first header or nothing.                *)
LEMMA CreatingKept ==
  ASSUME JInv, FaultlessInv, [Next]_vars, status' = "creating"
  PROVE  Creating'
<1>1. CASE CreateFile
  <2>1. /\ ring' = [i \in 0 .. Slots - 1 |-> Empty] /\ ringD' = ring'
        /\ heads' = [i \in 0 .. 1 |-> NoHeader] /\ headsD' = heads'
    BY <1>1 DEF CreateFile
  <2>2. QED BY <2>1, IdleFields DEF Creating
<1>2. CASE ~CreateFile
  <2>1. /\ status = "creating" /\ UNCHANGED <<ring, ringD>>
        /\ \/ UNCHANGED <<heads, headsD>>
           \/ heads' = [heads EXCEPT ![1] = FirstHeader] /\ headsD' = headsD
           \/ heads' = heads /\ headsD' = heads
    BY <1>2, FirstShapes DEF Next, OwnerStep, ReplayStep, WriteFirstHeader, SyncFirstHeader, SyncDirectory,
       OpenExisting, Started, Submit, NotAccepted, GiveUp, CloseGate, RecordRejected, WriteSlot,
       SyncSlot, WriteHeader, SyncHeader, At, FlushRejected, ProbeRecovery, ReserveWrite,
       Snapshot, Commit, Checkpoint, Crash, vars, fileVars, ownerVars
  <2>2. Creating BY <2>1 DEF FaultlessInv
  <2>3. \A i \in 0 .. 1 : heads'[i] \in {NoHeader, FirstHeader} /\ headsD'[i] \in {NoHeader, FirstHeader}
    BY <2>1, <2>2 DEF Creating, JInv, Shapes
  <2>4. QED BY <2>1, <2>2, <2>3 DEF Creating
<1>3. QED BY <1>1, <1>2

-----------------------------------------------------------------------------
(* The scan of a replay ends at the last number given.                     *)
LEMMA ScanEnds ==
  ASSUME JInv, Counters, FaultlessInv, status = "up", replay.at = "reserved", op = Idle
  PROVE  /\ LastSeq = hdr.seqNext - 1 /\ hdr.seqNext \in Nat /\ hdr.seqNext > 0
         /\ \A p \in db.aggregates : p[2] # LastSeq
<1>1. Running /\ Stored BY DEF FaultlessInv, Lasting
<1>2. hdr.seqNext \in Nat /\ hdr.seqNext > 0 /\ hdr.idx \in Nat /\ hdr.ckpt \in Nat
  BY InForceCounts DEF Counted, FaultlessInv, Headers
<1>3. hdr.ckpt < hdr.seqNext BY <1>1 DEF Stored, Headers, InForce
<1>4. \A i \in 0 .. Slots - 1 : ring[i].seq \in Nat /\ ring[i].seq < hdr.seqNext
  <2>1. client # "locked" BY <1>1 DEF Running, CallerNumbers
  <2>2. op.kind \notin Numbering BY IdleFields, ProtocolTable
  <2>3. QED BY <1>1, <2>1, <2>2 DEF Running, RingBelow, Counters, SlotNumbers
<1>5. hdr.idx > 0 /\ \A p \in db.aggregates : p[2] + 1 < hdr.seqNext
  BY <1>1 DEF Running, Unreached
<1> DEFINE m == hdr.seqNext - 1
           tip == ring[Ring(hdr.idx - 1)]
<1>6. tip \in Scanned /\ tip.seq = m
  <2>1. Valid(tip) /\ tip.seq + 1 = hdr.seqNext
    BY <1>1, <1>5 DEF Stored, InForce, Tip
  <2>2. Ring(hdr.idx - 1) \in 0 .. Slots - 1
    <3>1. hdr.idx - 1 \in Nat BY <1>2, <1>5
    <3>2. QED BY <3>1, RingSlots
  <2>3. tip.seq \in Nat BY <1>4, <2>2
  <2>4. QED BY <1>2, <2>1, <2>2, <2>3 DEF Scanned
<1>7. \A s \in Unreplayed : s.seq \in Nat /\ s.seq <= m /\ s.seq > hdr.ckpt
  BY <1>2, <1>4 DEF Unreplayed, Scanned
<1>8. m \in {s.seq : s \in Unreplayed} \cup {hdr.ckpt}
  <2>1. CASE hdr.ckpt < m
    <3>1. tip \in Unreplayed BY <1>6, <2>1 DEF Unreplayed
    <3>2. QED BY <1>6, <3>1
  <2>2. CASE hdr.ckpt = m BY <2>2
  <2>3. QED BY <1>2, <1>3, <2>1, <2>2
<1>9. /\ LastSeq \in {s.seq : s \in Unreplayed} \cup {hdr.ckpt}
      /\ \A s \in Unreplayed : s.seq <= LastSeq
  BY <1>7, <1>8 DEF LastSeq
<1>10. LastSeq \in Nat /\ LastSeq <= m
  BY <1>2, <1>3, <1>7, <1>9
<1>11. LastSeq = m
  <2>1. CASE hdr.ckpt = m
    <3>1. Unreplayed = {} BY <1>2, <1>7, <2>1
    <3>2. QED BY <1>9, <2>1, <3>1
  <2>2. CASE hdr.ckpt < m
    <3>1. tip \in Unreplayed BY <1>6, <2>2 DEF Unreplayed
    <3>2. m <= LastSeq BY <1>6, <1>9, <3>1
    <3>3. QED BY <1>2, <1>10, <3>2
  <2>3. QED BY <1>2, <1>3, <2>1, <2>2
<1>12. \A p \in db.aggregates : p[2] # m
  BY <1>1, <1>2, <1>5 DEF Stored
<1>13. QED BY <1>2, <1>11, <1>12

(* What a replay has in hand when it goes on unchanged.                    *)
LEMMA ReplayWaits ==
  ASSUME JInv, Counters, NumbersInv, LiveInv, FaultlessInv, [Next]_vars, Counters', replay' = replay
  PROVE  Replaying'
<1> SUFFICES ASSUME replay.at \in {"read", "committed"} PROVE Replaying'
  BY DEF Replaying
<1>1. status = "up" /\ status' = "up"
  BY OffFields DEF Counters, Asleep
<1>2. db' = db
  <2>1. Commit => replay'.at # "read" /\ replay.at = "read"
    <3>1. Commit => replay.at = "read" /\ (replay' = [replay EXCEPT !.at = "committed"] \/ replay' = Off)
      BY DEF Commit
    <3>2. [replay EXCEPT !.at = "committed"].at # "read"
      BY DEF Commit
    <3>3. QED BY <3>1, <3>2, OffFields
  <2>2. ~Commit BY <2>1
  <2>3. QED BY <2>2, RowsGrow
<1>3. /\ InForce = hdr /\ InForce' = hdr' /\ Lasting
      /\ hdr.seqNext \in Nat /\ hdr'.seqNext \in Nat /\ hdr'.seqNext >= hdr.seqNext
  BY <1>1, MovesOn DEF InForce, Lasting
<1>4. /\ replay.end \in Nat /\ replay.end < hdr.seqNext
      /\ replay.at = "read" => /\ <<replay.start, replay.end>> \notin db.aggregates
                               /\ replay.live - replay.delta <= db.counted
                               /\ Covered(replay.end, db.rows \cup replay.rows)
      /\ replay.at = "committed" => replay.live <= db.counted /\ Covered(replay.end, db.rows)
  BY DEF FaultlessInv, Replaying
<1>5. replay.end < hdr'.seqNext BY <1>3, <1>4
<1>6. ASSUME NEW rows, Covered(replay.end, rows), NEW s \in acked', Numbered(s),
             s.seq <= replay.end, s.idx + Slots > InForce'.idx
      PROVE  Row(s) \in rows
  BY <1>3, <1>4, <1>6, CoveredKept
<1>7. CASE replay.at = "read"
  <2>1. Covered(replay.end, db.rows \cup replay.rows)'
    BY <1>2, <1>4, <1>6, <1>7 DEF Covered, Numbered, Row
  <2>2. QED BY <1>2, <1>4, <1>5, <1>7, <2>1 DEF Replaying
<1>8. CASE replay.at = "committed"
  <2>1. Covered(replay.end, db.rows)'
    BY <1>2, <1>4, <1>6, <1>8 DEF Covered, Numbered, Row
  <2>2. QED BY <1>2, <1>4, <1>5, <1>8, <2>1 DEF Replaying
<1>9. QED BY <1>7, <1>8

(* A scan finds every acknowledged attempt behind its end, in the ring or  *)
(* in the log already.                                                     *)
LEMMA ReplayReads ==
  ASSUME JInv, Counters, FaultlessInv, Snapshot
  PROVE  Replaying'
<1>1. /\ status = "up" /\ replay.at = "reserved" /\ op = Idle
      /\ UNCHANGED <<status, hdr, acked, db, ring>>
      /\ \/ replay' = Off
         \/ replay' = [at |-> "read", start |-> hdr.ckpt + 1, end |-> LastSeq, live |-> hdr.live,
                       delta |-> hdr.live - hdr.snap, rows |-> {Row(s) : s \in Unreplayed}]
  BY DEF Snapshot, ownerVars, callerVars, fileVars
<1>2. CASE replay' = Off BY <1>2, OffFields DEF Replaying
<1>3. CASE replay' = [at |-> "read", start |-> hdr.ckpt + 1, end |-> LastSeq, live |-> hdr.live,
                      delta |-> hdr.live - hdr.snap, rows |-> {Row(s) : s \in Unreplayed}]
  <2>1. /\ replay'.at = "read" /\ replay'.start = hdr.ckpt + 1 /\ replay'.end = LastSeq
        /\ replay'.live = hdr.live /\ replay'.delta = hdr.live - hdr.snap
        /\ replay'.rows = {Row(s) : s \in Unreplayed}
    BY <1>3
  <2>2. /\ LastSeq = hdr.seqNext - 1 /\ hdr.seqNext \in Nat /\ hdr.seqNext > 0
        /\ \A p \in db.aggregates : p[2] # LastSeq
    BY <1>1, ScanEnds
  <2>3. <<replay'.start, replay'.end>> \notin db'.aggregates
    BY <1>1, <2>1, <2>2
  <2>4. hdr.live \in Nat /\ hdr.snap \in Nat /\ hdr.snap <= db.counted
        /\ hdr.ckpt \in Nat /\ Covered(hdr.ckpt, db.rows) /\ db.counted \in Int
    BY <1>1, InForceCounts DEF Counted, FaultlessInv, Lasting, Stored, Headers, Counters, Amounts
  <2>5. replay'.live - replay'.delta <= db'.counted
    BY <1>1, <2>1, <2>4
  <2>6. replay'.end \in Nat /\ replay'.end < hdr'.seqNext
    BY <1>1, <2>1, <2>2
  <2>7. ASSUME NEW s \in acked, Numbered(s), s.idx + Slots > hdr.idx
        PROVE  Row(s) \in db.rows \cup {Row(t) : t \in Unreplayed}
    <3>1. s.idx \in Nat /\ s.seq \in Nat BY DEF JInv, Shapes, Counters, Amounts
    <3>2. ring[Ring(s.idx)] = s BY <1>1, <2>7 DEF JInv, Survives
    <3>3. s \in Scanned
      <4>1. Ring(s.idx) \in 0 .. Slots - 1 BY <3>1, RingSlots
      <4>2. Valid(s) BY <2>7, ProtocolTable DEF Numbered, Valid
      <4>3. QED BY <3>2, <4>1, <4>2 DEF Scanned
    <3>4. CASE s.seq > hdr.ckpt
      <4>1. s \in Unreplayed BY <3>3, <3>4 DEF Unreplayed
      <4>2. QED BY <4>1
    <3>5. CASE s.seq <= hdr.ckpt
      BY <1>1, <2>4, <2>7, <3>5 DEF Covered, InForce
    <3>6. QED BY <2>4, <3>1, <3>4, <3>5
  <2>8. \A s \in acked' : Numbered(s) /\ s.idx + Slots > InForce'.idx
          => Row(s) \in db'.rows \cup replay'.rows
    BY <1>1, <2>1, <2>7 DEF InForce
  <2>9. Covered(replay.end, db.rows \cup replay.rows)'
    BY <2>8 DEF Covered, Numbered, Row
  <2>10. QED BY <2>1, <2>3, <2>5, <2>6, <2>9 DEF Replaying
<1>4. QED BY <1>1, <1>2, <1>3

(* A transaction adds the counters read, since its interval is new.        *)
LEMMA ReplayCommits ==
  ASSUME Counters, FaultlessInv, Commit, replay' = [replay EXCEPT !.at = "committed"]
  PROVE  Replaying'
<1>1. replay.at = "read" /\ UNCHANGED <<status, hdr, acked, heads>> /\ status = "up"
  BY OffFields DEF Commit, ownerVars, callerVars, fileVars, Counters, Asleep
<1>2. /\ replay'.at = "committed" /\ replay'.live = replay.live /\ replay'.end = replay.end
  BY <1>1
<1>3. replay' # Off BY <1>2, OffFields
<1>4. /\ <<replay.start, replay.end>> \notin db.aggregates
      /\ replay.live - replay.delta <= db.counted
      /\ replay.end \in Nat /\ replay.end < hdr.seqNext
      /\ Covered(replay.end, db.rows \cup replay.rows)
  BY <1>1 DEF FaultlessInv, Replaying
<1>5. /\ db'.rows = db.rows \cup replay.rows
      /\ db'.counted = db.counted + replay.delta
  BY <1>3, <1>4 DEF Commit
<1>6. replay.live \in Nat /\ replay.delta \in Int /\ db.counted \in Int
  BY DEF Counters, Amounts
<1>7. replay'.live <= db'.counted BY <1>2, <1>4, <1>5, <1>6
<1>8. \A s \in acked' : Numbered(s) /\ s.seq <= replay'.end /\ s.idx + Slots > InForce'.idx
        => Row(s) \in db'.rows
  BY <1>1, <1>2, <1>4, <1>5 DEF Covered, InForce
<1>9. Covered(replay.end, db.rows)' BY <1>8 DEF Covered, Numbered, Row
<1>10. QED BY <1>1, <1>2, <1>4, <1>7, <1>9 DEF Replaying

(* The replay's part, whatever the step.                                   *)
LEMMA ReplayKept ==
  ASSUME JInv, Counters, NumbersInv, LiveInv, FaultlessInv, [Next]_vars, Counters'
  PROVE  Replaying'
<1>1. ASSUME replay'.at \notin {"read", "committed"} PROVE Replaying'
  BY <1>1 DEF Replaying
<1>2. CASE replay' \in {Off, [Off EXCEPT !.at = "due"], [Off EXCEPT !.at = "reserved"]}
  BY <1>1, <1>2, OffFields
<1>3. CASE Checkpoint /\ replay' = [replay EXCEPT !.at = "saving"]
  <2>1. replay.at = "committed" BY <1>3 DEF Checkpoint
  <2>2. replay'.at = "saving" BY <1>3, <2>1
  <2>3. QED BY <1>1, <2>2
<1>4. QED BY <1>2, <1>3, ReplayWaits, ReplayReads, ReplayCommits, ReplayMoves

-----------------------------------------------------------------------------
LEMMA FaultlessKept ==
  ASSUME JInv, Counters, NumbersInv, LiveInv, FaultlessInv, [Next]_vars, faults' = 0,
         JInv', Counters'
  PROVE  FaultlessInv'
<1>1. \A h \in Headers' : h.ckpt \in Nat BY CheckpointsNumbered
<1>2. \A s \in acked' : Numbered(s) => s.seq > 0 BY PositiveKept
<1>3. db'.counted >= 0
  BY RowsGrow DEF FaultlessInv, Counters, Amounts
<1>4. db'.aggregates # {} => Lasting'
  <2>1. CASE db' = db BY <2>1, LastingStays DEF FaultlessInv
  <2>2. CASE Commit
    <3>1. status = "up" BY <2>2, OffFields DEF Commit, Counters, Asleep
    <3>2. QED BY <3>1, LastingStays DEF Lasting
  <2>3. QED BY <2>1, <2>2, RowsGrow
<1>5. status' = "up" => Running' BY RunningKept
<1>6. Lasting' => Stored' BY StoredKept, StoredFirst
<1>7. status' = "creating" => Creating' BY CreatingKept
<1>8. Replaying' BY ReplayKept
<1>9. QED BY <1>1, <1>2, <1>3, <1>4, <1>5, <1>6, <1>7, <1>8 DEF FaultlessInv, Numbered

ReplayInv == LiveInv /\ (faults = 0 => FaultlessInv)

(* The start, and the induction.                                           *)
LEMMA ReplayStart == Init => ReplayInv
<1> SUFFICES ASSUME Init PROVE ReplayInv OBVIOUS
<1>1. \A h \in Headers : h = NoHeader BY IdleFields DEF Init, Headers
<1>2. NoHeader.snap = 0 /\ NoHeader.live = 0 /\ NoHeader.ckpt = 0 /\ NoHeader.gen = 0
  BY DEF NoHeader
<1>3. LiveInv BY <1>1, <1>2, OffFields DEF Init, LiveInv
<1>4. ~Lasting BY DEF Init, Lasting
<1>5. Replaying BY OffFields DEF Init, Replaying
<1>6. FaultlessInv BY <1>1, <1>2, <1>4, <1>5 DEF Init, FaultlessInv
<1>7. QED BY <1>3, <1>6 DEF ReplayInv

(* Until the first fault, the log is ahead of every header there is: the   *)
(* inductive invariant behind the two theorems on replay.                  *)
THEOREM ReplayInvariance == Spec => [](JInv /\ Counters /\ ReplayInv)
<1>1. Init => ReplayInv BY ReplayStart
<1>2. /\ JInv /\ Counters /\ RejectedInv
      /\ NumbersInv
      /\ ReplayInv
      /\ [Next]_vars
      => ReplayInv'
  <2> SUFFICES ASSUME JInv, Counters, RejectedInv, NumbersInv, ReplayInv, [Next]_vars
               PROVE  ReplayInv'
    OBVIOUS
  <2>1. JInv' BY Inductive
  <2>2. Counters' BY CountersKept
  <2>3. LiveInv' BY <2>2, LiveKept DEF ReplayInv
  <2>4. ASSUME faults' = 0 PROVE FaultlessInv'
    <3>1. FaultlessInv BY <2>4, NoFault DEF ReplayInv
    <3>2. QED BY <2>1, <2>2, <2>4, <3>1, FaultlessKept DEF ReplayInv
  <2>5. QED BY <2>3, <2>4 DEF ReplayInv
<1>3. QED BY <1>1, <1>2, CountsInvariance, NumbersInvariance, PTL DEF Spec

(* What the header takes for replayed is in the aggregate rows, until the  *)
(* first write that fails: Replay commits the transaction before it moves  *)
(* the snapshot of the counters (replay.go:203, replay.go:215).            *)
THEOREM CountsReachTheLog == Spec => []NothingUncounted
<1>1. JInv /\ Counters /\ ReplayInv => NothingUncounted
  <2> SUFFICES ASSUME JInv, Counters, ReplayInv, faults = 0 PROVE hdr.snap <= db.counted
    BY DEF NothingUncounted
  <2>1. FaultlessInv BY DEF ReplayInv
  <2>2. CASE status = "up" BY <2>1, <2>2 DEF FaultlessInv, Lasting, Stored, Headers
  <2>3. CASE status # "up"
    BY <2>1, <2>3 DEF FaultlessInv, Counters, Asleep, Amounts, NoHeader
  <2>4. QED BY <2>2, <2>3
<1>2. QED BY <1>1, ReplayInvariance, PTL

(* The checkpoint never passes an attempt that is not in the audit log     *)
(* while the ring still holds it, until the first write that fails: the    *)
(* scan of a replay ends at the last number given (replay.go:131-153).     *)
THEOREM CheckpointsFollow == Spec => []AttemptsReplayed
<1>1. JInv /\ Counters /\ ReplayInv => AttemptsReplayed
  <2> SUFFICES ASSUME JInv, Counters, ReplayInv, faults = 0,
                      NEW s \in acked, s.kind \in Numbering, Behind(s)
               PROVE  Row(s) \in db.rows
    BY DEF AttemptsReplayed
  <2>1. status = "up" /\ s.seq <= hdr.ckpt /\ s.idx + Slots > hdr.idx BY DEF Behind
  <2>2. Covered(hdr.ckpt, db.rows)
    BY <2>1 DEF ReplayInv, FaultlessInv, Lasting, Stored, Headers
  <2>3. QED BY <2>1, <2>2 DEF Covered, Numbered, InForce
<1>2. QED BY <1>1, ReplayInvariance, PTL
=============================================================================
