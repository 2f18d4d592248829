---------------------------- MODULE SealJournal ----------------------------
(***************************************************************************)
(* internal/sealjournal: the fixed-size ring of records that survives the  *)
(* sealed period, and its replay into the audit log.                       *)
(*                                                                         *)
(* One owner goroutine does all file I/O, one operation at a time.  A      *)
(* record costs four steps: write its slot, datasync, write the header of  *)
(* the next generation into the other header slot, datasync.  A step may   *)
(* fail, the process may die between two steps, and the caller may stop    *)
(* waiting at its deadline while the owner goes on.                        *)
(*                                                                         *)
(* The caller is the sealing machine reduced to the order in which it      *)
(* writes.  Of a slot only kind, number and index are kept, of the header's*)
(* counters the sum of all and the rejected ones.  The rejected ring's own *)
(* contents, timestamps and digests are left out, and so is the fdatasync  *)
(* that reports an error but drops the dirty page.                         *)
(***************************************************************************)
EXTENDS Integers, FiniteSets

CONSTANTS Slots,       \* Options.CriticalSlots
          MaxSeq,      \* bound: numbers given out
          MaxCrashes,  \* bound: crashes of the process
          MaxFaults,   \* bound: failing writes and datasyncs
          MaxRejected  \* bound: calls of RecordRejected

ASSUME ConstantsAssumption ==
  /\ Slots \in Nat /\ Slots >= 2
  /\ {MaxSeq, MaxCrashes, MaxFaults, MaxRejected} \subseteq Nat

VARIABLES
  file,      \* the directory entry: absent, new (not yet synced) or kept
  ring,      \* the critical slots as reads see them (the page cache)
  heads,     \* the two header slots as reads see them
  ringD,     \* the same slots on the medium
  headsD,
  status,    \* of the process: down, creating, up or refused by Open
  hdr,       \* the owner's header
  op,        \* the operation the owner is executing
  faulted,   \* faultReason is set
  pending,   \* rejectedAgg: rejections not yet flushed
  client,    \* where the caller is in its protocol
  seq,       \* the number its received record got
  replay,    \* Replay: what it has read and how far it is
  db,        \* the audit rows, aggregate rows and the sum of their deltas
  acked,     \* records whose write was reported as done
  rejected,  \* calls of RecordRejected so far
  crashes, faults

fileVars   == <<file, ring, heads, ringD, headsD>>
ownerVars  == <<status, hdr, op, faulted, pending>>
callerVars == <<client, seq, acked>>
vars == <<fileVars, ownerVars, callerVars, replay, db, rejected, crashes, faults>>

-----------------------------------------------------------------------------
(* The records and who writes them when: from where the caller starts, and *)
(* where it goes when the write was acknowledged or was not.  A failed     *)
(* Seal that keeps its token lets nothing follow but a restart.            *)
Protocol == [
  received       |-> [from |-> "locked",     acked |-> "verifying",  lost |-> "locked"],
  failure        |-> [from |-> "verifying",  acked |-> "locked",     lost |-> "locked"],
  success        |-> [from |-> "verifying",  acked |-> "publishing", lost |-> "locked"],
  published      |-> [from |-> "publishing", acked |-> "unsealed",   lost |-> "unsealed"],
  seal_received  |-> [from |-> "unsealed",   acked |-> "recorded",   lost |-> "unsealed"],
  seal_completed |-> [from |-> "draining",   acked |-> "locked",     lost |-> "locked"],
  seal_failed    |-> [from |-> "draining",   acked |-> "stuck",      lost |-> "stuck"]]

Records   == DOMAIN Protocol
Numbering == {"received", "seal_received"}   \* take a number of their own
Uncounted == {"seal_completed", "seal_failed"}

(* A slot, a header, and the write in hand with the stage it has reached:  *)
(* slot, slotSync, header, headerSync.                                     *)
Empty   == [kind |-> "empty", seq |-> 0, idx |-> 0]
Torn    == [kind |-> "torn", seq |-> 0, idx |-> 0]
Valid(slot) == slot.kind \in Records

NoHeader == [gen |-> 0, seqNext |-> 0, idx |-> 0, ckpt |-> 0, live |-> 0, snap |-> 0,
             rejected |-> 0, first |-> 0, last |-> 0]
FirstHeader == [gen |-> 1, seqNext |-> 1, idx |-> 0, ckpt |-> 0, live |-> 0, snap |-> 0,
                rejected |-> 0, first |-> 0, last |-> 0]

Operation(k, stage, waiting, slot, next) ==
  [kind |-> k, stage |-> stage, waiting |-> waiting, slot |-> slot, next |-> next]
Idle   == Operation("none", "slot", FALSE, Empty, NoHeader)

Off == [at |-> "off", start |-> 0, end |-> 0, live |-> 0, delta |-> 0, rows |-> {}]

HeaderSlotSingle(gen) == 0                   \* a bug: one header slot
HeaderSlot(gen) == gen % 2
Ring(i) == i % Slots

(* The row of a record: eventID does not look at the outcome.              *)
Row(s) == <<IF s.kind \in {"success", "failure"} THEN "outcome"
            ELSE IF s.kind \in Uncounted THEN "seal_outcome" ELSE s.kind, s.seq, s.idx>>

Init ==
  /\ file = "absent" /\ status = "down"
  /\ ring = [i \in 0 .. Slots - 1 |-> Empty] /\ ringD = ring
  /\ heads = [i \in 0 .. 1 |-> NoHeader] /\ headsD = heads
  /\ hdr = NoHeader /\ op = Idle /\ faulted = FALSE /\ pending = 0
  /\ client = "down" /\ seq = 0 /\ acked = {} /\ replay = Off
  /\ db = [rows |-> {}, aggregates |-> {}, counted |-> 0]
  /\ rejected = 0 /\ crashes = 0 /\ faults = 0

-----------------------------------------------------------------------------
(* Open.  A file that is absent is created: zeros, the first header, a     *)
(* datasync and a sync of the directory.  One that exists is only read.    *)
CreateFile ==
  /\ status = "down" /\ file = "absent"
  /\ file' = "new" /\ status' = "creating"
  /\ ring' = [i \in 0 .. Slots - 1 |-> Empty] /\ ringD' = ring'
  /\ heads' = [i \in 0 .. 1 |-> NoHeader] /\ headsD' = heads'
  /\ UNCHANGED <<hdr, op, faulted, pending, callerVars,
                 replay, db, rejected, crashes, faults>>

WriteFirstHeader ==
  /\ status = "creating" /\ heads[HeaderSlot(1)] = NoHeader
  /\ heads' = [heads EXCEPT ![HeaderSlot(1)] = FirstHeader]
  /\ UNCHANGED <<file, ring, ringD, headsD, ownerVars, callerVars, replay, db,
                 rejected, crashes, faults>>

SyncFirstHeader ==
  /\ status = "creating" /\ heads[HeaderSlot(1)] = FirstHeader /\ headsD # heads
  /\ headsD' = heads
  /\ UNCHANGED <<file, ring, heads, ringD, ownerVars, callerVars, replay, db,
                 rejected, crashes, faults>>

Started(h) == /\ status' = "up" /\ hdr' = h /\ client' = "locked"
              /\ UNCHANGED <<op, faulted, pending, seq, acked>>

SyncDirectory ==
  /\ status = "creating" /\ headsD[HeaderSlot(1)] = FirstHeader
  /\ file' = "kept" /\ Started(FirstHeader)
  /\ UNCHANGED <<ring, heads, ringD, headsD, replay, db, rejected, crashes, faults>>

(* readValidHeader: the valid header of the greater generation.            *)
NewestFirst ==                               \* a bug: the first valid header
  IF heads[0].gen # 0 THEN heads[0] ELSE heads[1]
Newest == IF heads[0].gen > heads[1].gen THEN heads[0] ELSE heads[1]

OpenExisting ==
  /\ status = "down" /\ file # "absent"
  /\ IF Newest.gen = 0
     THEN status' = "refused" /\ UNCHANGED <<hdr, op, faulted, pending, callerVars>>
     ELSE Started(Newest)
  /\ UNCHANGED <<fileVars, replay, db, rejected, crashes, faults>>

-----------------------------------------------------------------------------
(* The caller.  It may have to wait for the owner, may give up before its  *)
(* operation is accepted, or at its deadline while the owner executes it.  *)
Waits == op.kind \in Records /\ op.waiting

MayWrite(k) ==
  /\ status = "up" /\ client = Protocol[k].from /\ ~Waits
  /\ k \in Numbering => hdr.seqNext <= MaxSeq
  /\ k = "received" => ~faulted                        \* Admit
  /\ k = "seal_completed" => replay.at = "off"         \* drained, none still to start

(* Where the caller goes on; after a publication it starts the replay.     *)
Continue(k, ok) ==
  /\ client' = IF ok THEN Protocol[k].acked ELSE Protocol[k].lost
  /\ replay' = IF k = "published" THEN [Off EXCEPT !.at = "due"] ELSE replay

Number(k) == IF k \in Numbering THEN hdr.seqNext ELSE seq

Submit(k) ==
  /\ MayWrite(k) /\ op = Idle
  /\ k \in Numbering \/ (seq # 0 /\ seq < hdr.seqNext)
  /\ op' = Operation(k, "slot", TRUE,
                     [kind |-> k, seq |-> Number(k), idx |-> hdr.idx], NoHeader)
  /\ UNCHANGED <<fileVars, status, hdr, faulted, pending, callerVars, replay, db,
                 rejected, crashes, faults>>

NotAccepted(k) ==
  /\ MayWrite(k) /\ Continue(k, FALSE)
  /\ UNCHANGED <<fileVars, ownerVars, seq, acked, db, rejected, crashes, faults>>

GiveUp ==
  /\ Waits /\ Continue(op.kind, FALSE)
  /\ op' = [op EXCEPT !.waiting = FALSE]
  /\ UNCHANGED <<fileVars, status, hdr, faulted, pending, seq, acked, db, rejected,
                 crashes, faults>>

(* Machine.Seal closes the gate after its record; a replay without a lease *)
(* is not admitted any more.                                               *)
CloseGate ==
  /\ client = "recorded" /\ client' = "draining"
  /\ UNCHANGED <<fileVars, ownerVars, seq, acked, replay, db, rejected, crashes, faults>>

RecordRejected ==
  /\ status = "up" /\ rejected < MaxRejected
  /\ rejected' = rejected + 1 /\ pending' = pending + 1
  /\ UNCHANGED <<fileVars, status, hdr, op, faulted, callerVars, replay, db, crashes, faults>>

-----------------------------------------------------------------------------
(* The owner.                                                              *)

(* The owner is done with an operation: its caller, if there is one, goes  *)
(* on, and a rejected batch is subtracted only when it is committed.       *)
FinishDropsBatch(ok) ==                      \* a bug: a failed batch is subtracted too
  /\ op' = Idle
  /\ IF Waits
     THEN /\ Continue(op.kind, ok)
          /\ seq' = IF ok THEN op.slot.seq ELSE seq
          /\ acked' = IF ok THEN acked \cup {op.slot} ELSE acked
     ELSE /\ replay' = IF op.kind = "checkpoint" THEN Off ELSE replay
          /\ UNCHANGED callerVars
  /\ pending' = IF op.kind = "flush" THEN pending - (op.next.rejected - hdr.rejected)
                ELSE pending

Finish(ok) ==
  /\ op' = Idle
  /\ IF Waits
     THEN /\ Continue(op.kind, ok)
          /\ seq' = IF ok THEN op.slot.seq ELSE seq
          /\ acked' = IF ok THEN acked \cup {op.slot} ELSE acked
     ELSE /\ replay' = IF op.kind = "checkpoint" THEN Off ELSE replay
          /\ UNCHANGED callerVars
  /\ pending' = IF ok /\ op.kind = "flush" THEN pending - (op.next.rejected - hdr.rejected)
                ELSE pending

(* A step of the owner fails: the fault is noted and the operation ends.   *)
(* A write that failed may have changed nothing, everything or tear it.    *)
Fault ==
  /\ faults < MaxFaults /\ faults' = faults + 1
  /\ faulted' = TRUE /\ Finish(FALSE)

At(stage) == status = "up" /\ op.kind # "none" /\ op.stage = stage

(* The header that commits the record, computed when its slot is written:  *)
(* a full ring names the number of the record it is about to overwrite.    *)
Overwritten(h) == h.idx >= Slots /\ Valid(ring[Ring(h.idx)])
NextHeaderUnsealOnly(k, n) ==                \* a bug: seal_received keeps its number
  [hdr EXCEPT
     !.gen = @ + 1, !.idx = @ + 1,
     !.seqNext = IF k = "received" THEN n + 1 ELSE @,
     !.live    = @ + (IF k \in Uncounted THEN 0 ELSE 1)]
NextHeader(k, n) ==
  LET old == ring[Ring(hdr.idx)].seq IN
  [gen      |-> hdr.gen + 1,
   idx      |-> hdr.idx + 1,
   seqNext  |-> IF k \in Numbering THEN n + 1 ELSE hdr.seqNext,
   live     |-> hdr.live + (IF k \in Uncounted THEN 0 ELSE 1)
                         + (IF Overwritten(hdr) THEN 1 ELSE 0),
   first    |-> IF Overwritten(hdr) /\ hdr.first = 0 THEN old ELSE hdr.first,
   last     |-> IF Overwritten(hdr) THEN old ELSE hdr.last,
   ckpt     |-> hdr.ckpt,
   snap     |-> hdr.snap,
   rejected |-> hdr.rejected]

WriteSlot ==
  /\ At("slot") /\ op.kind \in Records
  /\ \/ /\ ring' = [ring EXCEPT ![Ring(hdr.idx)] = op.slot]
        /\ op' = [op EXCEPT !.stage = "slotSync", !.next = NextHeader(op.kind, op.slot.seq)]
        /\ UNCHANGED <<faulted, pending, callerVars, replay, faults>>
     \/ /\ \E s \in {ring[Ring(hdr.idx)], op.slot, Torn} :
             ring' = [ring EXCEPT ![Ring(hdr.idx)] = s]
        /\ Fault
  /\ UNCHANGED <<file, heads, ringD, headsD, status, hdr, db, rejected, crashes>>

SyncSlot ==
  /\ At("slotSync")
  /\ \/ /\ ringD' = ring /\ headsD' = heads
        /\ op' = [op EXCEPT !.stage = "header"]
        /\ UNCHANGED <<faulted, pending, callerVars, replay, faults>>
     \/ Fault /\ UNCHANGED <<ringD, headsD>>
  /\ UNCHANGED <<file, ring, heads, status, hdr, db, rejected, crashes>>

WriteHeader ==
  /\ At("header")
  /\ \/ /\ heads' = [heads EXCEPT ![HeaderSlot(op.next.gen)] = op.next]
        /\ op' = [op EXCEPT !.stage = "headerSync"]
        /\ UNCHANGED <<faulted, pending, callerVars, replay, faults>>
     \/ /\ \E h \in {heads[HeaderSlot(op.next.gen)], op.next, NoHeader} :
             heads' = [heads EXCEPT ![HeaderSlot(op.next.gen)] = h]
        /\ Fault
  /\ UNCHANGED <<file, ring, ringD, headsD, status, hdr, db, rejected, crashes>>

SyncHeader ==
  /\ At("headerSync")
  /\ \/ /\ ringD' = ring /\ headsD' = heads
        /\ hdr' = op.next /\ faulted' = FALSE
        /\ Finish(TRUE)
        /\ UNCHANGED faults
     \/ Fault /\ UNCHANGED <<ringD, headsD, hdr>>
  /\ UNCHANGED <<file, ring, heads, status, db, rejected, crashes>>

(* The tick of the owner's loop: flushRejected, then probeRecovery (here   *)
(* an operation may slip in between).  The batch's own slot write and      *)
(* datasync may fail like any other.                                       *)
Job(k, next) == op' = Operation(k, "header", FALSE, Empty, next)

(* The header of the next generation that commits no record.               *)
NextGeneration(rejections, live, snap, ckpt) ==
  [gen |-> hdr.gen + 1, seqNext |-> hdr.seqNext, idx |-> hdr.idx, ckpt |-> ckpt, live |-> live,
   snap |-> snap, rejected |-> rejections, first |-> hdr.first, last |-> hdr.last]

FlushRejected ==
  /\ status = "up" /\ op = Idle /\ pending > 0
  /\ \/ /\ Job("flush", NextGeneration(hdr.rejected + pending, hdr.live + pending,
                                       hdr.snap, hdr.ckpt))
        /\ UNCHANGED <<faulted, faults>>
     \/ /\ faults < MaxFaults /\ faults' = faults + 1 /\ faulted' = TRUE
        /\ UNCHANGED op
  /\ UNCHANGED <<fileVars, status, hdr, pending, callerVars, replay, db, rejected, crashes>>

ProbeRecoveryWithBatch ==                    \* a bug: a tick with no batch returns early
  /\ status = "up" /\ op = Idle /\ faulted /\ pending > 0
  /\ Job("probe", NextGeneration(hdr.rejected, hdr.live, hdr.snap, hdr.ckpt))
  /\ UNCHANGED <<fileVars, status, hdr, faulted, pending, callerVars, replay, db,
                 rejected, crashes, faults>>

ProbeRecovery ==
  /\ status = "up" /\ op = Idle /\ faulted
  /\ Job("probe", NextGeneration(hdr.rejected, hdr.live, hdr.snap, hdr.ckpt))
  /\ UNCHANGED <<fileVars, status, hdr, faulted, pending, callerVars, replay, db,
                 rejected, crashes, faults>>

-----------------------------------------------------------------------------
(* Replay, in a goroutine of its own after every publication: a lease, a   *)
(* scan on the owner, one database transaction, and then the checkpoint.   *)
ReserveWrite ==
  /\ replay.at = "due"
  /\ replay' = IF client \in {"unsealed", "recorded"}
               THEN [Off EXCEPT !.at = "reserved"] ELSE Off
  /\ UNCHANGED <<fileVars, ownerVars, callerVars, db, rejected, crashes, faults>>

(* scanRings reads every slot, whether a header has committed it or not.   *)
Scanned == {s \in {ring[i] : i \in 0 .. Slots - 1} : Valid(s)}
Unreplayed == {s \in Scanned : s.seq > hdr.ckpt}
LastSeq == CHOOSE n \in {s.seq : s \in Unreplayed} \cup {hdr.ckpt} :
             \A s \in Unreplayed : s.seq <= n

Snapshot ==
  /\ replay.at = "reserved" /\ status = "up" /\ op = Idle
  /\ replay' =
       IF Unreplayed = {} /\ hdr.live = hdr.snap THEN Off
       ELSE [at |-> "read", start |-> hdr.ckpt + 1, end |-> LastSeq, live |-> hdr.live,
             delta |-> hdr.live - hdr.snap, rows |-> {Row(s) : s \in Unreplayed}]
  /\ UNCHANGED <<fileVars, ownerVars, callerVars, db, rejected, crashes, faults>>

(* One transaction; rows that exist are left alone.                        *)
CommitUnchecked ==                           \* a bug: a failed transaction goes on
  /\ replay.at = "read" /\ replay' = [replay EXCEPT !.at = "committed"]
  /\ UNCHANGED <<fileVars, ownerVars, callerVars, db, rejected, crashes, faults>>

Commit ==
  /\ replay.at = "read"
  /\ \/ /\ replay' = [replay EXCEPT !.at = "committed"]
        /\ db' = [rows |-> db.rows \cup replay.rows,
                  aggregates |-> db.aggregates \cup {<<replay.start, replay.end>>},
                  counted |-> db.counted + IF <<replay.start, replay.end>> \in db.aggregates
                                           THEN 0 ELSE replay.delta]
     \/ replay' = Off /\ UNCHANGED db
  /\ UNCHANGED <<fileVars, ownerVars, callerVars, rejected, crashes, faults>>

CheckpointLive ==                            \* a bug: the counters of now, not of the scan
  /\ replay.at = "committed" /\ status = "up" /\ op = Idle
  /\ Job("checkpoint", NextGeneration(hdr.rejected, hdr.live, hdr.live,
                                      IF replay.end > hdr.ckpt THEN replay.end ELSE hdr.ckpt))
  /\ replay' = [replay EXCEPT !.at = "saving"]
  /\ UNCHANGED <<fileVars, status, hdr, faulted, pending, callerVars, db, rejected,
                 crashes, faults>>

Checkpoint ==
  /\ replay.at = "committed" /\ status = "up" /\ op = Idle
  /\ Job("checkpoint", NextGeneration(hdr.rejected, hdr.live, replay.live,
                                      IF replay.end > hdr.ckpt THEN replay.end ELSE hdr.ckpt))
  /\ replay' = [replay EXCEPT !.at = "saving"]
  /\ UNCHANGED <<fileVars, status, hdr, faulted, pending, callerVars, db, rejected,
                 crashes, faults>>

-----------------------------------------------------------------------------
(* The process dies: what the page cache and the medium disagree about is  *)
(* found old, new or torn, and a file whose directory entry was never      *)
(* synced may be gone.                                                     *)
Survivor(was, is, torn, how) ==
  IF how = "new" THEN is ELSE IF how = "old" \/ was = is THEN was ELSE torn
How == {"old", "new", "torn"}

Crash ==
  /\ status \in {"up", "creating"} /\ crashes < MaxCrashes /\ crashes' = crashes + 1
  /\ \E r \in [{i \in 0 .. Slots - 1 : ring[i] # ringD[i]} -> How] :
       ring' = [i \in 0 .. Slots - 1 |->
                  IF ring[i] = ringD[i] THEN ring[i]
                  ELSE Survivor(ringD[i], ring[i], Torn, r[i])]
  /\ \E h \in [0 .. 1 -> How] :
       heads' = [i \in 0 .. 1 |-> Survivor(headsD[i], heads[i], NoHeader, h[i])]
  /\ ringD' = ring' /\ headsD' = heads'
  /\ file' \in IF file = "new" THEN {"absent", "kept"} ELSE {file}
  /\ status' = "down" /\ hdr' = NoHeader /\ op' = Idle /\ faulted' = FALSE /\ pending' = 0
  /\ client' = "down" /\ seq' = 0 /\ replay' = Off
  /\ UNCHANGED <<acked, db, rejected, faults>>

OwnerStep == WriteSlot \/ SyncSlot \/ WriteHeader \/ SyncHeader
ReplayStep == ReserveWrite \/ Snapshot \/ Commit \/ Checkpoint

Next ==
  \/ CreateFile \/ WriteFirstHeader \/ SyncFirstHeader \/ SyncDirectory \/ OpenExisting
  \/ \E k \in Records : Submit(k) \/ NotAccepted(k)
  \/ GiveUp \/ CloseGate \/ RecordRejected
  \/ OwnerStep \/ FlushRejected \/ ProbeRecovery
  \/ ReplayStep
  \/ Crash

Spec == Init /\ [][Next]_vars

(* The owner's loop and its ticker go on; file calls return.               *)
FairSpec == Spec /\ WF_vars(OwnerStep) /\ WF_vars(ProbeRecovery)

-----------------------------------------------------------------------------
(* Properties.                                                             *)

(* The header in force is on the medium, in the slot that is not the one   *)
(* the next header goes to: whatever is found torn after a crash, it is    *)
(* not the header that acknowledged the last record.                       *)
HeaderDurable ==
  status = "up" => /\ hdr.gen > 0
                   /\ heads[HeaderSlot(hdr.gen)] = hdr
                   /\ headsD[HeaderSlot(hdr.gen)] = hdr

(* A journal that acknowledged a record is never refused at start: torn    *)
(* headers can only be those of a creation that did not finish.            *)
NeverLocksOut == status = "refused" => acked = {}

(* A record that was acknowledged is found after any crash, until the ring *)
(* comes round to its slot.                                                *)
AckedSurvives ==
  status = "up" => \A s \in acked :
    /\ s.idx < hdr.idx
    /\ s.idx + Slots > hdr.idx => ring[Ring(s.idx)] = s /\ ringD[Ring(s.idx)] = s

(* No number is given to two acknowledged records, across restarts.        *)
NumbersFresh ==
  \A s \in acked :
    /\ s.kind \in Numbering => \A t \in acked : t.kind \in Numbering /\ t.seq = s.seq => t = s
    /\ status = "up" => s.seq < hdr.seqNext

(* The checkpoint never passes an attempt that is not in the audit log:    *)
(* the transaction is committed first (replay.go).  A slot whose header    *)
(* failed is read all the same, and its number is given again: so this and *)
(* the next hold until the first write that fails.                         *)
Behind(s) == status = "up" /\ s.seq <= hdr.ckpt /\ s.idx + Slots > hdr.idx
AttemptsReplayed ==
  faults = 0 => \A s \in acked : s.kind \in Numbering /\ Behind(s) => Row(s) \in db.rows

(* No counted event is skipped: what the header takes for replayed is in   *)
(* the aggregate rows at least once.                                       *)
NothingUncounted == faults = 0 => hdr.snap <= db.counted

(* No rejection is counted twice, however often its batch is retried, and  *)
(* only a crash loses those not flushed yet.                               *)
RejectedOnce ==
  /\ hdr.rejected + pending <= rejected
  /\ crashes = 0 => (status = "up" => hdr.rejected + pending = rejected)

(* An I/O fault does not last once the medium works again, although nobody *)
(* is admitted to write while it does.                                     *)
FaultClears == faulted ~> ~faulted

(* The key-management specification: what was not replayed is kept and     *)
(* tried again.  A replay that runs between a Seal's two records moves the *)
(* checkpoint past the second one before it is written.                    *)
RecordsReplayed == \A s \in acked : Behind(s) => Row(s) \in db.rows
=============================================================================
