------------------------- MODULE AuditQueue_proofs -------------------------
(***************************************************************************)
(* Proofs about AuditQueue, for any finite set of rows, any number of      *)
(* workers, any channel and batch and any number of database failures: the *)
(* counter is exact, no row is stored twice, bad rows take no others with  *)
(* them, a clean Shutdown has stored what it found, and every row has one  *)
(* fate.                                                                   *)
(*                                                                         *)
(* Nothing of this follows from the property alone: whether a retry stores *)
(* a row twice depends on what the batch holds and on where its worker is. *)
(* The invariant says where rows can be (Places, NoneGone), what a worker  *)
(* knows of its batch (Batches, NotYetStored, FailedBad) and how the       *)
(* workers and Shutdown end (Ending).                                      *)
(***************************************************************************)
EXTENDS AuditQueue, FiniteSetTheorems, FunctionTheorems, TLAPS

(* Where a row can be: the channel and the batches do not overlap, and what*)
(* is degraded is in neither.                                              *)
Places ==
  /\ accepted \cap refused = {} /\ queue \subseteq accepted
  /\ \A w \in Workers : held[w] \subseteq accepted \ queue
  /\ \A w, v \in Workers : w # v => held[w] \cap held[v] = {}
  /\ stored \subseteq accepted \ queue
  /\ filed \cup lost \subseteq (accepted \cup refused) \ queue
  /\ \A w \in Workers : held[w] \cap (filed \cup lost) = {}
  /\ IF fallback THEN lost = {} ELSE filed = {}

(* What a worker knows of its batch.                                       *)
Batches == \A w \in Workers :
  /\ left[w] \subseteq held[w] /\ failed[w] \subseteq held[w] \ left[w]
  /\ left[w] # {} \/ failed[w] # {} => at[w] = "retrying"
  /\ at[w] \in {"retrying", "settling"}
       => held[w] \ (left[w] \cup failed[w]) \subseteq stored
  /\ at[w] = "counting" => held[w] # {}

(* A row that was given to the service is still somewhere.                 *)
NoneGone ==
  accepted \cup refused \subseteq queue \cup Held \cup stored \cup filed \cup lost

(* What is still to be inserted is not in the table.                       *)
NotYetStored == lostAcks = 0 => \A w \in Workers :
  /\ at[w] \in {"ready", "looked", "counting", "flushing"}
       => held[w] \cap stored = {}
  /\ (left[w] \cup failed[w]) \cap stored = {}

(* With a database that works, only bad rows fail, and fail for good.      *)
FailedBad == faults = 0 => \A w \in Workers :
  /\ failed[w] \ Bad \subseteq stored
  /\ lostAcks = 0 => failed[w] \subseteq Bad

(* How Shutdown and the workers come to an end.                            *)
Ending ==
  /\ due \subseteq accepted
  /\ closer = "off" <=> ~stopped
  /\ closer \in {"off", "waiting"} => ~aborted
  /\ closer = "aborting" => aborted
  /\ \A w \in Workers :
       /\ at[w] = "exited" => held[w] = {}
       /\ at[w] = "looked" => home[w] = "drain"
       /\ home[w] # "select" => stopped
       /\ at[w] = "exited" /\ ~aborted => home[w] = "exit"
       /\ home[w] = "exit" => due \cap queue = {}
  /\ ~aborted /\ faults = 0 => due \ Bad \subseteq stored \cup queue \cup Held
  /\ closer = "done" /\ ~aborted => \A w \in Workers : at[w] = "exited"

Rest == NotYetStored /\ StoredOnce /\ FailedBad /\ BadRowsIsolated
QueueInv == /\ TypeOK /\ InFlightExact /\ Places /\ Batches /\ NoneGone
            /\ Rest /\ Ending

-----------------------------------------------------------------------------
(* Rows in hand are finitely many.                                         *)
LEMMA HeldFinite ==
  ASSUME TypeOK
  PROVE  /\ IsFiniteSet(Held) /\ Cardinality(Held) \in Nat
         /\ \A w \in Workers : IsFiniteSet(held[w]) /\ Cardinality(held[w]) \in Nat
<1>1. Held \subseteq Rows
  BY DEF TypeOK, Held
<1>2. \A w \in Workers : held[w] \subseteq Rows
  BY DEF TypeOK
<1> QED  BY <1>1, <1>2, RowsAssumption, FS_Subset, FS_CardinalityType

(* The workers that have received a row and not counted it.                *)
Counting == {w \in Workers : at[w] = "counting"}

(* Workers that have received a row and not counted it are finitely many.  *)
LEMMA CountingFinite == IsFiniteSet(Counting) /\ Cardinality(Counting) \in Nat
BY WorkersAssumption, FS_Subset, FS_CardinalityType DEF Counting

(* Letting go of a batch takes its rows, and no other, out of hand; what is*)
(* left is enough for every worker that still has a row to count.          *)
LEMMA BatchIsPart ==
  ASSUME TypeOK, Places, Batches, NEW w \in Workers, at[w] # "counting"
  PROVE  /\ Cardinality(Held \ held[w]) = Cardinality(Held) - Cardinality(held[w])
         /\ Cardinality(Counting) <= Cardinality(Held) - Cardinality(held[w])
<1>1. held[w] \subseteq Held
  BY DEF Held
<1>2. Held \cap held[w] = held[w]
  BY <1>1
<1>3. /\ IsFiniteSet(Held \ held[w])
      /\ Cardinality(Held \ held[w]) = Cardinality(Held) - Cardinality(held[w])
  BY <1>2, HeldFinite, FS_Difference
<1> DEFINE pick == [v \in Counting |-> CHOOSE r \in Rows : r \in held[v]]
<1>4. \A v \in Counting : pick[v] \in held[v]
  <2> SUFFICES ASSUME NEW v \in Counting PROVE pick[v] \in held[v]
    OBVIOUS
  <2>1. held[v] # {} /\ held[v] \subseteq Rows
    BY DEF Counting, Batches, TypeOK
  <2> QED  BY <2>1
<1>5. \A v \in Counting : v # w /\ v \in Workers
  BY DEF Counting
<1>6. pick \in [Counting -> Held \ held[w]]
  <2>1. \A v \in Counting : pick[v] \in Held
    BY <1>4, <1>5 DEF Held
  <2>2. \A v \in Counting : pick[v] \notin held[w]
    BY <1>4, <1>5 DEF Places
  <2> QED  BY <2>1, <2>2
<1>7. \A u, v \in Counting : pick[u] = pick[v] => u = v
  BY <1>4, <1>5 DEF Places
<1> HIDE DEF pick
<1>8. pick \in Injection(Counting, Held \ held[w])
  BY <1>6, <1>7, Fun_IsInj
<1> QED  BY <1>3, <1>8, FS_Injection

(* The counter stays exact, and so never drops below zero.                 *)
LEMMA CounterStep ==
  ASSUME TypeOK, InFlightExact, Places, Batches, [Next]_vars
  PROVE  InFlightExact' /\ inFlight' \in Nat
<1>0. inFlight = Cardinality(Held) - Cardinality(Counting)
  BY DEF InFlightExact, Counting
<1> DEFINE Goal == /\ inFlight' = Cardinality(Held') - Cardinality(Counting')
                   /\ inFlight' \in Nat
<1> SUFFICES Goal
  BY DEF InFlightExact, Counting
<1>1. ASSUME NEW r \in Rows, Log(r) PROVE Goal
  <2>1. Held' = Held /\ Counting' = Counting /\ inFlight' = inFlight
    BY <1>1 DEF Log, workerVars, Held, Counting, TypeOK
  <2> QED  BY <1>0, <2>1 DEF TypeOK
<1>2. ASSUME NEW w \in Workers, Look(w) PROVE Goal
  <2>1. Held' = Held /\ Counting' = Counting /\ inFlight' = inFlight
    BY <1>2 DEF Look, Goes, workerVars, Held, Counting, TypeOK
  <2> QED  BY <1>0, <2>1 DEF TypeOK
<1>3. ASSUME NEW w \in Workers, Receive(w) PROVE Goal
  <2> PICK r \in queue : held' = [held EXCEPT ![w] = @ \cup {r}]
    BY <1>3 DEF Receive
  <2>1. Held' = Held \cup {r} /\ r \notin Held
    BY DEF Held, Places, TypeOK
  <2>2. Counting' = Counting \cup {w} /\ w \notin Counting
    BY <1>3 DEF Receive, Goes, Counting, TypeOK
  <2>3. inFlight' = inFlight
    BY <1>3 DEF Receive
  <2>4. /\ Cardinality(Counting') = Cardinality(Counting) + 1
        /\ Cardinality(Held') = Cardinality(Held) + 1
    BY <2>1, <2>2, HeldFinite, CountingFinite, FS_AddElement
  <2> QED  BY <1>0, <2>3, <2>4, HeldFinite, CountingFinite DEF TypeOK
<1>4. ASSUME NEW w \in Workers, Count(w) PROVE Goal
  <2>1. Held' = Held
    BY <1>4 DEF Count, Held
  <2>2. Counting' = Counting \ {w} /\ w \in Counting
    BY <1>4 DEF Count, Goes, Counting, TypeOK
  <2>3. inFlight' = inFlight + 1
    BY <1>4 DEF Count
  <2>4. Cardinality(Counting') = Cardinality(Counting) - 1
    BY <2>2, CountingFinite, FS_RemoveElement
  <2> QED  BY <1>0, <2>1, <2>3, <2>4, HeldFinite, CountingFinite DEF TypeOK
<1>5. ASSUME NEW w \in Workers, Tick(w) PROVE Goal
  <2>1. Held' = Held /\ Counting' = Counting /\ inFlight' = inFlight
    BY <1>5 DEF Tick, Goes, workerVars, Held, Counting, TypeOK
  <2> QED  BY <1>0, <2>1 DEF TypeOK
<1>6. ASSUME NEW w \in Workers, NoticeStop(w) PROVE Goal
  <2>1. Held' = Held /\ Counting' = Counting /\ inFlight' = inFlight
    BY <1>6 DEF NoticeStop, Goes, workerVars, Held, Counting, TypeOK
  <2> QED  BY <1>0, <2>1 DEF TypeOK
<1>7. ASSUME NEW w \in Workers, DrainEnd(w) PROVE Goal
  <2>1. Held' = Held /\ Counting' = Counting /\ inFlight' = inFlight
    BY <1>7 DEF DrainEnd, Goes, workerVars, Held, Counting, TypeOK
  <2> QED  BY <1>0, <2>1 DEF TypeOK
<1>8. ASSUME NEW w \in Workers, Abandon(w) PROVE Goal
  <2>1. at[w] # "counting" /\ Counting' = Counting
    BY <1>8 DEF Abandon, Goes, Counting, TypeOK
  <2>2. Held' = Held \ held[w]
    BY <1>8 DEF Abandon, Goes, Held, Places, TypeOK
  <2>3. inFlight' = inFlight - Cardinality(held[w])
    BY <1>8 DEF Abandon
  <2> QED  BY <1>0, <2>1, <2>2, <2>3, BatchIsPart, HeldFinite, CountingFinite
<1>9. ASSUME NEW w \in Workers, Settle(w) PROVE Goal
  <2>1. at[w] # "counting" /\ Counting' = Counting
    BY <1>9 DEF Settle, Returns, Counting, TypeOK
  <2>2. Held' = Held \ held[w]
    BY <1>9 DEF Settle, Returns, Held, Places, TypeOK
  <2>3. inFlight' = inFlight - Cardinality(held[w])
    BY <1>9 DEF Settle
  <2> QED  BY <1>0, <2>1, <2>2, <2>3, BatchIsPart, HeldFinite, CountingFinite
<1>10. ASSUME NEW w \in Workers, Insert(w) PROVE Goal
  <2>1. Held' = Held /\ Counting' = Counting /\ inFlight' = inFlight
    BY <1>10 DEF Insert, Goes, workerVars, Held, Counting, TypeOK
  <2> QED  BY <1>0, <2>1 DEF TypeOK
<1>11. ASSUME NEW w \in Workers, Retry(w) PROVE Goal
  <2>1. Held' = Held /\ Counting' = Counting /\ inFlight' = inFlight
    BY <1>11 DEF Retry, Persist, workerVars, Held, Counting, TypeOK
  <2> QED  BY <1>0, <2>1 DEF TypeOK
<1>12. ASSUME CloseGate PROVE Goal
  <2>1. Held' = Held /\ Counting' = Counting /\ inFlight' = inFlight
    BY <1>12 DEF CloseGate, workerVars, Held, Counting, TypeOK
  <2> QED  BY <1>0, <2>1 DEF TypeOK
<1>13. ASSUME BeginShutdown PROVE Goal
  <2>1. Held' = Held /\ Counting' = Counting /\ inFlight' = inFlight
    BY <1>13 DEF BeginShutdown, workerVars, Held, Counting, TypeOK
  <2> QED  BY <1>0, <2>1 DEF TypeOK
<1>14. ASSUME Drained PROVE Goal
  <2>1. Held' = Held /\ Counting' = Counting /\ inFlight' = inFlight
    BY <1>14 DEF Drained, workerVars, Held, Counting, TypeOK
  <2> QED  BY <1>0, <2>1 DEF TypeOK
<1>15. ASSUME Deadline PROVE Goal
  <2>1. Held' = Held /\ Counting' = Counting /\ inFlight' = inFlight
    BY <1>15 DEF Deadline, workerVars, Held, Counting, TypeOK
  <2> QED  BY <1>0, <2>1 DEF TypeOK
<1>16. ASSUME TakeResidual PROVE Goal
  <2>1. Held' = Held /\ Counting' = Counting /\ inFlight' = inFlight
    BY <1>16 DEF TakeResidual, workerVars, Held, Counting, TypeOK
  <2> QED  BY <1>0, <2>1 DEF TypeOK
<1>17. CASE UNCHANGED vars
  BY <1>0, <1>17 DEF vars, workerVars, Held, Counting, TypeOK
<1> QED  BY <1>1, <1>2, <1>3, <1>4, <1>5, <1>6, <1>7, <1>8, <1>9, <1>10,
  <1>11, <1>12, <1>13, <1>14, <1>15, <1>16, <1>17
  DEF Next, WorkerStep, SinkStep, ShutdownStep

(* Types.  Only the counter could leave its type.                          *)
LEMMA TypeStep ==
  ASSUME TypeOK, inFlight' \in Nat, [Next]_vars
  PROVE  TypeOK'
<1> USE DEF TypeOK, Ats, Homes, Closers, rowVars, workerVars, tableVars,
            endVars, faultVars
<1>1. ASSUME NEW r \in Rows, Log(r) PROVE TypeOK'
  BY <1>1 DEF Log, Degrade
<1>2. ASSUME NEW w \in Workers, Look(w) PROVE TypeOK'
  BY <1>2 DEF Look, Goes
<1>3. ASSUME NEW w \in Workers, Receive(w) PROVE TypeOK'
  BY <1>3 DEF Receive, Goes
<1>4. ASSUME NEW w \in Workers, Count(w) PROVE TypeOK'
  BY <1>4 DEF Count, Goes
<1>5. ASSUME NEW w \in Workers, Tick(w) PROVE TypeOK'
  BY <1>5 DEF Tick, Goes
<1>6. ASSUME NEW w \in Workers, NoticeStop(w) PROVE TypeOK'
  BY <1>6 DEF NoticeStop
<1>7. ASSUME NEW w \in Workers, DrainEnd(w) PROVE TypeOK'
  BY <1>7 DEF DrainEnd, Goes
<1>8. ASSUME NEW w \in Workers, Abandon(w) PROVE TypeOK'
  BY <1>8 DEF Abandon, Degrade, Goes
<1>9. ASSUME NEW w \in Workers, Settle(w) PROVE TypeOK'
  <2>1. failed[w] \subseteq Rows
    BY DEF TypeOK
  <2>2. filed' \subseteq Rows /\ lost' \subseteq Rows
    BY <1>9, <2>1 DEF Settle, Returns, Degrade
  <2>3. /\ at' \in [Workers -> Ats] /\ held' \in [Workers -> SUBSET Rows]
        /\ failed' \in [Workers -> SUBSET Rows]
    BY <1>9 DEF Settle, Returns
  <2> QED  BY <1>9, <2>2, <2>3 DEF Settle, Returns
<1>10. ASSUME NEW w \in Workers, Insert(w) PROVE TypeOK'
  <2>1. held[w] \subseteq Rows
    BY DEF TypeOK
  <2>2. /\ stored' \subseteq Rows /\ twice' \subseteq Rows /\ bare' \subseteq Rows
        /\ faults' \in 0..MaxFaults /\ lostAcks' \in 0..MaxLostAcks
    BY <1>10, <2>1, SizesAssumption DEF Insert, Persist, Store
  <2>3. at' \in [Workers -> Ats] /\ left' \in [Workers -> SUBSET Rows]
    BY <1>10, <2>1 DEF Insert, Goes
  <2> QED  BY <1>10, <2>2, <2>3 DEF Insert
<1>11. ASSUME NEW w \in Workers, Retry(w) PROVE TypeOK'
  <2> PICK r \in left[w], ok \in BOOLEAN :
        /\ Persist({r}, ok) /\ left' = [left EXCEPT ![w] = @ \ {r}]
        /\ failed' = IF ok THEN failed ELSE [failed EXCEPT ![w] = @ \cup {r}]
    BY <1>11 DEF Retry
  <2>1. r \in Rows
    BY DEF TypeOK
  <2>2. /\ stored' \subseteq Rows /\ twice' \subseteq Rows /\ bare' \subseteq Rows
        /\ faults' \in 0..MaxFaults /\ lostAcks' \in 0..MaxLostAcks
    BY <2>1, SizesAssumption DEF Persist, Store
  <2>3. left' \in [Workers -> SUBSET Rows] /\ failed' \in [Workers -> SUBSET Rows]
    BY <2>1
  <2> QED  BY <1>11, <2>2, <2>3 DEF Retry
<1>12. ASSUME CloseGate PROVE TypeOK'
  BY <1>12 DEF CloseGate
<1>13. ASSUME BeginShutdown PROVE TypeOK'
  BY <1>13 DEF BeginShutdown, Held
<1>14. ASSUME Drained PROVE TypeOK'
  BY <1>14 DEF Drained
<1>15. ASSUME Deadline PROVE TypeOK'
  BY <1>15 DEF Deadline
<1>16. ASSUME TakeResidual PROVE TypeOK'
  BY <1>16 DEF TakeResidual, Degrade
<1>17. CASE UNCHANGED vars
  BY <1>17 DEF vars
<1> QED  BY <1>1, <1>2, <1>3, <1>4, <1>5, <1>6, <1>7, <1>8, <1>9, <1>10,
  <1>11, <1>12, <1>13, <1>14, <1>15, <1>16, <1>17
  DEF Next, WorkerStep, SinkStep, ShutdownStep

(* Rows move from the channel to one batch, and from there to the table or *)
(* to where degraded rows go.                                              *)
LEMMA PlacesStep ==
  ASSUME TypeOK, Places, Batches, NoneGone, [Next]_vars
  PROVE  (Places /\ Batches /\ NoneGone)'
<1> USE DEF TypeOK, Places, Batches, NoneGone, Held, rowVars, workerVars,
            tableVars, endVars, faultVars
<1>1. ASSUME NEW r \in Rows, Log(r) PROVE (Places /\ Batches /\ NoneGone)'
  BY <1>1 DEF Log, Degrade
<1>2. ASSUME NEW w \in Workers, Look(w) PROVE (Places /\ Batches /\ NoneGone)'
  BY <1>2 DEF Look, Goes
<1>3. ASSUME NEW w \in Workers, Receive(w) PROVE (Places /\ Batches /\ NoneGone)'
  BY <1>3 DEF Receive, Goes
<1>4. ASSUME NEW w \in Workers, Count(w) PROVE (Places /\ Batches /\ NoneGone)'
  BY <1>4 DEF Count, Goes
<1>5. ASSUME NEW w \in Workers, Tick(w) PROVE (Places /\ Batches /\ NoneGone)'
  BY <1>5 DEF Tick, Goes
<1>6. ASSUME NEW w \in Workers, NoticeStop(w) PROVE (Places /\ Batches /\ NoneGone)'
  BY <1>6 DEF NoticeStop
<1>7. ASSUME NEW w \in Workers, DrainEnd(w) PROVE (Places /\ Batches /\ NoneGone)'
  BY <1>7 DEF DrainEnd, Goes
<1>8. ASSUME NEW w \in Workers, Abandon(w) PROVE (Places /\ Batches /\ NoneGone)'
  BY <1>8 DEF Abandon, Degrade, Goes
<1>9. ASSUME NEW w \in Workers, Settle(w) PROVE (Places /\ Batches /\ NoneGone)'
  BY <1>9 DEF Settle, Returns, Degrade
<1>10. ASSUME NEW w \in Workers, Insert(w) PROVE (Places /\ Batches /\ NoneGone)'
  BY <1>10 DEF Insert, Persist, Store, Goes
<1>11. ASSUME NEW w \in Workers, Retry(w) PROVE (Places /\ Batches /\ NoneGone)'
  BY <1>11 DEF Retry, Persist, Store
<1>12. ASSUME CloseGate PROVE (Places /\ Batches /\ NoneGone)'
  BY <1>12 DEF CloseGate
<1>13. ASSUME BeginShutdown PROVE (Places /\ Batches /\ NoneGone)'
  BY <1>13 DEF BeginShutdown
<1>14. ASSUME Drained PROVE (Places /\ Batches /\ NoneGone)'
  BY <1>14 DEF Drained
<1>15. ASSUME Deadline PROVE (Places /\ Batches /\ NoneGone)'
  BY <1>15 DEF Deadline
<1>16. ASSUME TakeResidual PROVE (Places /\ Batches /\ NoneGone)'
  BY <1>16 DEF TakeResidual, Degrade
<1>17. CASE UNCHANGED vars
  BY <1>17 DEF vars
<1> QED  BY <1>1, <1>2, <1>3, <1>4, <1>5, <1>6, <1>7, <1>8, <1>9, <1>10,
  <1>11, <1>12, <1>13, <1>14, <1>15, <1>16, <1>17
  DEF Next, WorkerStep, SinkStep, ShutdownStep

(* What is inserted again had not been stored, and what fails is bad,      *)
(* unless the database failed or an acknowledgement was lost.              *)
LEMMA RestStep ==
  ASSUME TypeOK, Places, Batches, Rest, Ending, [Next]_vars
  PROVE  Rest'
<1> USE DEF TypeOK, Places, Batches, Rest, NotYetStored, StoredOnce,
            FailedBad, BadRowsIsolated, Ending, rowVars, workerVars,
            tableVars, endVars, faultVars
<1>1. ASSUME NEW r \in Rows, Log(r) PROVE Rest'
  BY <1>1 DEF Log, Degrade
<1>2. ASSUME NEW w \in Workers, Look(w) PROVE Rest'
  BY <1>2 DEF Look, Goes
<1>3. ASSUME NEW w \in Workers, Receive(w) PROVE Rest'
  BY <1>3 DEF Receive, Goes
<1>4. ASSUME NEW w \in Workers, Count(w) PROVE Rest'
  BY <1>4 DEF Count, Goes
<1>5. ASSUME NEW w \in Workers, Tick(w) PROVE Rest'
  BY <1>5 DEF Tick, Goes
<1>6. ASSUME NEW w \in Workers, NoticeStop(w) PROVE Rest'
  BY <1>6 DEF NoticeStop
<1>7. ASSUME NEW w \in Workers, DrainEnd(w) PROVE Rest'
  BY <1>7 DEF DrainEnd, Goes
<1>8. ASSUME NEW w \in Workers, Abandon(w) PROVE Rest'
  BY <1>8 DEF Abandon, Degrade, Goes
<1>9. ASSUME NEW w \in Workers, Settle(w) PROVE Rest'
  BY <1>9 DEF Settle, Returns, Degrade
<1>10. ASSUME NEW w \in Workers, Insert(w) PROVE Rest'
  BY <1>10 DEF Insert, Persist, Store, Goes
<1>11. ASSUME NEW w \in Workers, Retry(w) PROVE Rest'
  BY <1>11 DEF Retry, Persist, Store
<1>12. ASSUME CloseGate PROVE Rest'
  BY <1>12 DEF CloseGate
<1>13. ASSUME BeginShutdown PROVE Rest'
  BY <1>13 DEF BeginShutdown
<1>14. ASSUME Drained PROVE Rest'
  BY <1>14 DEF Drained
<1>15. ASSUME Deadline PROVE Rest'
  BY <1>15 DEF Deadline
<1>16. ASSUME TakeResidual PROVE Rest'
  BY <1>16 DEF TakeResidual, Degrade
<1>17. CASE UNCHANGED vars
  BY <1>17 DEF vars
<1> QED  BY <1>1, <1>2, <1>3, <1>4, <1>5, <1>6, <1>7, <1>8, <1>9, <1>10,
  <1>11, <1>12, <1>13, <1>14, <1>15, <1>16, <1>17
  DEF Next, WorkerStep, SinkStep, ShutdownStep

(* The rows that were due when Shutdown began are stored, or still here    *)
(* and some worker will look at the channel again.                         *)
LEMMA EndingStep ==
  ASSUME TypeOK, Places, Batches, FailedBad, Ending, [Next]_vars
  PROVE  Ending'
<1> USE DEF TypeOK, Places, Batches, FailedBad, Ending, Held, rowVars,
            workerVars, tableVars, endVars, faultVars
<1>1. ASSUME NEW r \in Rows, Log(r) PROVE Ending'
  BY <1>1 DEF Log, Degrade
<1>2. ASSUME NEW w \in Workers, Look(w) PROVE Ending'
  BY <1>2 DEF Look, Goes
<1>3. ASSUME NEW w \in Workers, Receive(w) PROVE Ending'
  BY <1>3 DEF Receive, Goes
<1>4. ASSUME NEW w \in Workers, Count(w) PROVE Ending'
  BY <1>4 DEF Count, Goes
<1>5. ASSUME NEW w \in Workers, Tick(w) PROVE Ending'
  BY <1>5 DEF Tick, Goes
<1>6. ASSUME NEW w \in Workers, NoticeStop(w) PROVE Ending'
  BY <1>6 DEF NoticeStop
<1>7. ASSUME NEW w \in Workers, DrainEnd(w) PROVE Ending'
  BY <1>7 DEF DrainEnd, Goes
<1>8. ASSUME NEW w \in Workers, Abandon(w) PROVE Ending'
  BY <1>8 DEF Abandon, Degrade, Goes
<1>9. ASSUME NEW w \in Workers, Settle(w) PROVE Ending'
  BY <1>9 DEF Settle, Returns, Degrade
<1>10. ASSUME NEW w \in Workers, Insert(w) PROVE Ending'
  BY <1>10 DEF Insert, Persist, Store, Goes
<1>11. ASSUME NEW w \in Workers, Retry(w) PROVE Ending'
  BY <1>11 DEF Retry, Persist, Store
<1>12. ASSUME CloseGate PROVE Ending'
  BY <1>12 DEF CloseGate
<1>13. ASSUME BeginShutdown PROVE Ending'
  BY <1>13 DEF BeginShutdown
<1>14. ASSUME Drained PROVE Ending'
  BY <1>14 DEF Drained
<1>15. ASSUME Deadline PROVE Ending'
  BY <1>15 DEF Deadline
<1>16. ASSUME TakeResidual PROVE Ending'
  BY <1>16 DEF TakeResidual, Degrade
<1>17. CASE UNCHANGED vars
  BY <1>17 DEF vars
<1> QED  BY <1>1, <1>2, <1>3, <1>4, <1>5, <1>6, <1>7, <1>8, <1>9, <1>10,
  <1>11, <1>12, <1>13, <1>14, <1>15, <1>16, <1>17
  DEF Next, WorkerStep, SinkStep, ShutdownStep

-----------------------------------------------------------------------------
(* A service that has just started satisfies the invariant.                *)
LEMMA InvInit == Init => QueueInv
<1> SUFFICES ASSUME Init PROVE QueueInv  OBVIOUS
<1>1. Held = {} /\ Counting = {}
  BY DEF Init, Held, Counting
<1>2. InFlightExact
  BY <1>1, FS_EmptySet DEF Init, InFlightExact, Counting
<1>3. TypeOK
  <2>1. 0 \in 0..MaxFaults /\ 0 \in 0..MaxLostAcks
    BY SizesAssumption
  <2> QED  BY <2>1 DEF Init, TypeOK, Ats, Homes, Closers
<1>4. Places /\ Batches /\ NoneGone /\ Rest /\ Ending
  BY <1>1 DEF Init, Places, Batches, NoneGone, Rest, NotYetStored, StoredOnce,
              FailedBad, BadRowsIsolated, Ending
<1> QED  BY <1>2, <1>3, <1>4 DEF QueueInv

(* No step breaks it: the parts shown above, together.                     *)
LEMMA InvStep == QueueInv /\ [Next]_vars => QueueInv'
BY CounterStep, TypeStep, PlacesStep, RestStep, EndingStep DEF QueueInv, Rest

(* Every behaviour keeps the invariant.                                    *)
THEOREM QueueInvariant == Spec => []QueueInv
BY InvInit, InvStep, PTL DEF Spec

(* Types, of any number of rows and workers (AuditLogService).             *)
THEOREM QueueTypes == Spec => []TypeOK
<1>1. QueueInv => TypeOK
  BY DEF QueueInv
<1> QED  BY <1>1, QueueInvariant, PTL

(* The counter of rows in hand is exact (inFlight in worker, flushBatch    *)
(* and drainOnShutdown).                                                   *)
THEOREM CounterExact == Spec => []InFlightExact
<1>1. QueueInv => InFlightExact
  BY DEF QueueInv
<1> QED  BY <1>1, QueueInvariant, PTL

(* Retrying a failed batch row by row stores nothing twice and degrades    *)
(* nothing that is stored (retryRowsIndividually).                         *)
THEOREM NothingTwice == Spec => []StoredOnce
<1>1. QueueInv => StoredOnce
  BY DEF QueueInv, Rest
<1> QED  BY <1>1, QueueInvariant, PTL

(* A row that violates a constraint costs no other row (flushBatch).       *)
THEOREM OnlyBadRowsDegraded == Spec => []BadRowsIsolated
<1>1. QueueInv => BadRowsIsolated
  BY DEF QueueInv, Rest
<1> QED  BY <1>1, QueueInvariant, PTL

(* A Shutdown that returns nil has stored the rows that were due: the last *)
(* look at the channel of whichever worker found it empty (Shutdown).      *)
THEOREM CleanShutdown == Spec => []CleanMeansStored
<1>1. QueueInv => CleanMeansStored
  <2> SUFFICES ASSUME QueueInv, closer = "done", ~aborted, faults = 0
               PROVE  due \ Bad \subseteq stored
    BY DEF CleanMeansStored
  <2>1. \A w \in Workers : held[w] = {} /\ due \cap queue = {}
    BY DEF QueueInv, Ending
  <2>2. Held = {} /\ due \cap queue = {}
    BY <2>1, WorkersAssumption DEF Held
  <2> QED  BY <2>2 DEF QueueInv, Ending
<1> QED  BY <1>1, QueueInvariant, PTL

-----------------------------------------------------------------------------
(* The refinement of RowFates.  A step logs one row, or gives a fate to    *)
(* rows that were pending, or leaves all fates alone.                      *)
AbstractFate == [r \in Rows |-> Fate(r)]
Mode == IF fallback THEN "filed" ELSE "lost"

(* What the mapping calls the fate of a row is one of RowFates: a row the  *)
(* service accepted is always somewhere.                                   *)
LEMMA FateTyped ==
  ASSUME QueueInv
  PROVE  \A r \in Rows : Fate(r) \in Fates!Fates
BY DEF QueueInv, NoneGone, Fate, Fates!Fates

(* Steps that leave alone where rows are.                                  *)
LEMMA FatesUnchanged ==
  ASSUME UNCHANGED <<fallback, accepted, refused, queue, filed, lost>>, Held' = Held,
         \A r \in Rows \ (queue \cup Held) : r \in stored' <=> r \in stored
  PROVE  UNCHANGED <<AbstractFate, Mode>>
BY DEF AbstractFate, Fate, Mode

(* Steps that let go of rows.                                              *)
LEMMA FatesSettled ==
  ASSUME QueueInv, QueueInv', UNCHANGED <<fallback, accepted, refused, stored>>,
         NEW rows \in SUBSET Rows, NEW failing \in SUBSET rows, Degrade(failing),
         rows \subseteq queue \cup Held, queue' \cup Held' = (queue \cup Held) \ rows,
         rows \ failing \subseteq stored
  PROVE  Fates!Settle
<1>1. AbstractFate' \in [Rows -> Fates!Fates]
  BY FateTyped DEF AbstractFate, Fate, Fates!Fates, QueueInv, NoneGone
<1>2. ASSUME NEW r \in Rows, r \notin rows PROVE Fate(r)' = Fate(r)
  BY <1>2 DEF Fate, Degrade
<1>3. ASSUME NEW r \in rows
      PROVE  Fate(r) = "pending" /\ Fate(r)' \in {"stored", Mode}
  <2>1. r \in accepted
    BY <1>3 DEF QueueInv, Places, Held
  <2>2. filed \cap rows = {} /\ lost \cap rows = {}
    BY DEF QueueInv, Places, Held
  <2>3. Fate(r) = "pending"
    BY <1>3, <2>1 DEF Fate
  <2>4. r \in accepted' /\ r \notin queue' \cup Held'
    BY <1>3, <2>1
  <2>5. CASE r \in failing
    <3>1. CASE fallback
      BY <2>3, <2>4, <2>5, <3>1 DEF Fate, Degrade, Mode
    <3>2. CASE ~fallback
      BY <1>3, <2>2, <2>3, <2>4, <2>5, <3>2 DEF Fate, Degrade, Mode
    <3> QED  BY <3>1, <3>2
  <2>6. CASE r \notin failing
    <3>1. r \notin filed' /\ r \notin lost' /\ r \in stored'
      BY <1>3, <2>2, <2>6 DEF Degrade
    <3> QED  BY <2>3, <2>4, <3>1 DEF Fate
  <2> QED  BY <2>5, <2>6
<1> QED  BY <1>1, <1>2, <1>3 DEF Fates!Settle, AbstractFate, Mode

(* A service without rows maps to rows without fates.                      *)
LEMMA FatesInit == Init => Fates!Init
<1> SUFFICES ASSUME Init PROVE Fates!Init  OBVIOUS
<1>1. \A r \in Rows : Fate(r) = "new"
  BY DEF Init, Fate
<1> QED  BY <1>1 DEF Init, Fates!Init

(* Every step of the service is a step of RowFates or leaves the fates     *)
(* alone.                                                                  *)
LEMMA FatesStep ==
  ASSUME QueueInv, QueueInv', [Next]_vars
  PROVE  [Fates!Next]_(Fates!vars)
<1> USE DEF QueueInv
<1> DEFINE Still == UNCHANGED <<AbstractFate, Mode>>
           Goal == Fates!Next \/ Still
<1>1. ASSUME NEW r \in Rows, Log(r) PROVE Goal
  <2>1. Fate(r) = "new" /\ Mode' = Mode
    BY <1>1 DEF Log, Fate, Mode
  <2>2. Held' = Held /\ r \notin Held /\ stored' = stored
    BY <1>1 DEF Log, Held, Places, workerVars, tableVars
  <2>3. \A s \in Rows \ {r} : Fate(s)' = Fate(s)
    BY <1>1, <2>2 DEF Log, Degrade, Fate
  <2>4. Fate(r)' \in {"pending", Mode}
    BY <1>1, <2>2 DEF Log, Degrade, Fate, Mode, Places
  <2>5. AbstractFate' = [AbstractFate EXCEPT ![r] = Fate(r)']
    BY <2>3 DEF AbstractFate
  <2> QED  BY <2>1, <2>4, <2>5 DEF Fates!Next, Fates!Log, AbstractFate, Mode
<1>2. ASSUME NEW w \in Workers, Look(w) PROVE Goal
  <2>1. Held' = Held
    BY <1>2 DEF Look, Held, workerVars
  <2> QED  BY <1>2, <2>1, FatesUnchanged DEF Look, rowVars, tableVars
<1>3. ASSUME NEW w \in Workers, Receive(w) PROVE Goal
  <2>1. queue' \cup Held' = queue \cup Held
    BY <1>3 DEF Receive, Held, TypeOK
  <2> QED  BY <1>3, <2>1 DEF Receive, AbstractFate, Fate, Mode, tableVars
<1>4. ASSUME NEW w \in Workers, Count(w) PROVE Goal
  <2>1. Held' = Held
    BY <1>4 DEF Count, Held, workerVars
  <2> QED  BY <1>4, <2>1, FatesUnchanged DEF Count, rowVars, tableVars
<1>5. ASSUME NEW w \in Workers, Tick(w) PROVE Goal
  <2>1. Held' = Held
    BY <1>5 DEF Tick, Held, workerVars
  <2> QED  BY <1>5, <2>1, FatesUnchanged DEF Tick, rowVars, tableVars
<1>6. ASSUME NEW w \in Workers, NoticeStop(w) PROVE Goal
  <2>1. Held' = Held
    BY <1>6 DEF NoticeStop, Held, workerVars
  <2> QED  BY <1>6, <2>1, FatesUnchanged DEF NoticeStop, rowVars, tableVars
<1>7. ASSUME NEW w \in Workers, DrainEnd(w) PROVE Goal
  <2>1. Held' = Held
    BY <1>7 DEF DrainEnd, Held, workerVars
  <2> QED  BY <1>7, <2>1, FatesUnchanged DEF DrainEnd, rowVars, tableVars
<1>8. ASSUME NEW w \in Workers, Abandon(w) PROVE Goal
  <2>1. /\ queue' \cup Held' = (queue \cup Held) \ held[w]
        /\ held[w] \subseteq queue \cup Held
    BY <1>8 DEF Abandon, Goes, Held, TypeOK, Places, rowVars
  <2>2. Degrade(held[w]) /\ held[w] \subseteq held[w] /\ held[w] \ held[w] \subseteq stored
    BY <1>8 DEF Abandon, Goes, Degrade
  <2>3. held[w] \in SUBSET Rows
    BY DEF TypeOK
  <2> QED  BY <1>8, <2>1, <2>2, <2>3, FatesSettled DEF Abandon, Goes, Fates!Next, rowVars, tableVars
<1>9. ASSUME NEW w \in Workers, Settle(w) PROVE Goal
  <2>1. /\ queue' \cup Held' = (queue \cup Held) \ held[w]
        /\ held[w] \subseteq queue \cup Held
    BY <1>9 DEF Settle, Returns, Batches, Held, TypeOK, Places, rowVars
  <2>2. Degrade(failed[w]) /\ failed[w] \subseteq held[w] /\ held[w] \ failed[w] \subseteq stored
    BY <1>9 DEF Settle, Returns, Batches, Degrade
  <2>3. held[w] \in SUBSET Rows
    BY DEF TypeOK
  <2> QED  BY <1>9, <2>1, <2>2, <2>3, FatesSettled DEF Settle, Returns, Batches, Fates!Next, rowVars, tableVars
<1>10. ASSUME NEW w \in Workers, Insert(w) PROVE Goal
  <2>1. Held' = Held /\ stored' \subseteq stored \cup Held /\ stored \subseteq stored'
    BY <1>10 DEF Insert, Persist, Store, Held, TypeOK, Batches, tableVars
  <2> QED  BY <1>10, <2>1, FatesUnchanged DEF Insert, rowVars
<1>11. ASSUME NEW w \in Workers, Retry(w) PROVE Goal
  <2>1. Held' = Held /\ stored' \subseteq stored \cup Held /\ stored \subseteq stored'
    BY <1>11 DEF Retry, Persist, Store, Held, TypeOK, Batches, tableVars
  <2> QED  BY <1>11, <2>1, FatesUnchanged DEF Retry, rowVars
<1>12. ASSUME CloseGate PROVE Goal
  <2>1. Held' = Held
    BY <1>12 DEF CloseGate, Held, workerVars
  <2> QED  BY <1>12, <2>1, FatesUnchanged DEF CloseGate, rowVars, tableVars
<1>13. ASSUME BeginShutdown PROVE Goal
  <2>1. Held' = Held
    BY <1>13 DEF BeginShutdown, Held, workerVars
  <2> QED  BY <1>13, <2>1, FatesUnchanged DEF BeginShutdown, rowVars, tableVars
<1>14. ASSUME Drained PROVE Goal
  <2>1. Held' = Held
    BY <1>14 DEF Drained, Held, workerVars
  <2> QED  BY <1>14, <2>1, FatesUnchanged DEF Drained, rowVars, tableVars
<1>15. ASSUME Deadline PROVE Goal
  <2>1. Held' = Held
    BY <1>15 DEF Deadline, Held, workerVars
  <2> QED  BY <1>15, <2>1, FatesUnchanged DEF Deadline, rowVars, tableVars
<1>16. ASSUME TakeResidual PROVE Goal
  <2>1. queue' \cup Held' = (queue \cup Held) \ queue
    BY <1>16 DEF TakeResidual, Held, Places, workerVars
  <2>2. Degrade(queue) /\ queue \in SUBSET Rows
    BY <1>16 DEF TakeResidual, TypeOK
  <2> QED  BY <1>16, <2>1, <2>2, FatesSettled DEF TakeResidual, Fates!Next, tableVars
<1>17. ASSUME UNCHANGED vars PROVE Goal
  <2>1. Held' = Held
    BY <1>17 DEF vars, Held, workerVars
  <2>2. UNCHANGED <<fallback, accepted, refused, queue, filed, lost, stored>>
    BY <1>17 DEF vars, rowVars, tableVars
  <2> QED  BY <2>1, <2>2, FatesUnchanged
<1> QED  BY <1>1, <1>2, <1>3, <1>4, <1>5, <1>6, <1>7, <1>8, <1>9, <1>10,
  <1>11, <1>12, <1>13, <1>14, <1>15, <1>16, <1>17
  DEF Next, WorkerStep, SinkStep, ShutdownStep, Fates!vars, AbstractFate, Mode

(* The channel, its workers and Shutdown implement one fate for each row,  *)
(* whatever fails and whenever the deadline passes.                        *)
THEOREM QueueImplementsFates == Spec => ImplementsFates
BY FatesInit, FatesStep, QueueInvariant, PTL DEF Spec, ImplementsFates, Fates!Spec
=============================================================================
