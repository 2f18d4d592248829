----------------------------- MODULE AuditQueue -----------------------------
(***************************************************************************)
(* The asynchronous writer of audit rows (internal/modules/audit/          *)
(* audit_log_service.go) of one service graph: callers put rows into a     *)
(* bounded channel, workers take them out, insert them in batches and fall *)
(* back to a file, and Shutdown drains what is left until its deadline.    *)
(*                                                                         *)
(* The order of rows in the channel and in a batch is left out: several    *)
(* workers take from the channel and no order of storing is promised.  The *)
(* insert and each retry may fail, may be stored although reported as      *)
(* failed, or may never return.  Fallback files are taken to be writable.  *)
(* Degrading rows and taking them off the counter is one step: between the *)
(* two only the error of Shutdown could tell, and it would count more.     *)
(***************************************************************************)
EXTENDS Integers, FiniteSets

CONSTANTS
  Rows,         \* audit rows, each logged at most once
  Bad,          \* those that violate a constraint of the table
  Workers,      \* the goroutines of the service
  Capacity,     \* of the channel
  BatchSize,    \* rows a worker gathers before it inserts
  MaxFaults,    \* bound: inserts that fail for a reason of the database's
  MaxLostAcks   \* bound: inserts that were stored but are reported as failed

ASSUME RowsAssumption == IsFiniteSet(Rows) /\ Bad \subseteq Rows
ASSUME WorkersAssumption == IsFiniteSet(Workers) /\ Workers # {}
ASSUME SizesAssumption ==
  /\ Capacity \in Nat \ {0} /\ BatchSize \in Nat \ {0}
  /\ MaxFaults \in Nat /\ MaxLostAcks \in Nat

VARIABLES
  fallback,     \* cfg.AuditFallbackToFile
  accepted,     \* rows that were put into the channel
  refused,      \* rows that found it full
  queue,        \* s.logChan
  at,           \* where each worker is
  home,         \* the loop it is in, or "exit" on its last flush
  held,         \* the rows in its batch
  left,         \* those of a failed batch still to be retried
  failed,       \* those whose retry failed
  inFlight,     \* s.inFlight
  stored,       \* rows in audit_logs
  twice,        \* rows in audit_logs more than once
  bare,         \* rows in audit_logs without an HMAC
  filed,        \* rows in a fallback file
  lost,         \* rows reported as lost
  gate,         \* the material gate of the graph: "open" or "closed"
  stopped,      \* stopChan is closed
  aborted,      \* drainAbort is closed
  closer,       \* where Shutdown is
  due,          \* the accepted rows not yet settled when stopChan was closed
  faults, lostAcks   \* how often the database failed

rowVars == <<accepted, refused, queue>>
workerVars == <<at, home, held, left, failed, inFlight>>
tableVars == <<stored, twice, bare>>
endVars == <<gate, stopped, aborted, closer, due>>
faultVars == <<faults, lostAcks>>
vars == <<fallback, rowVars, workerVars, tableVars, filed, lost, endVars, faultVars>>

Ats == {"ready", "looked", "counting", "flushing", "retrying", "settling", "exited"}
Homes == {"select", "drain", "exit"}
Closers == {"off", "waiting", "aborting", "done"}
Held == UNION {held[w] : w \in Workers}

Init ==
  /\ fallback \in BOOLEAN
  /\ accepted = {} /\ refused = {} /\ queue = {}
  /\ at = [w \in Workers |-> "ready"] /\ home = [w \in Workers |-> "select"]
  /\ held = [w \in Workers |-> {}] /\ left = [w \in Workers |-> {}]
  /\ failed = [w \in Workers |-> {}] /\ inFlight = 0
  /\ stored = {} /\ twice = {} /\ bare = {} /\ filed = {} /\ lost = {}
  /\ gate = "open" /\ stopped = FALSE /\ aborted = FALSE
  /\ closer = "off" /\ due = {}
  /\ faults = 0 /\ lostAcks = 0

-----------------------------------------------------------------------------
(* A row that does not reach the table goes to the file if that is enabled,*)
(* and is counted as lost otherwise.                                       *)
Degrade(rows) ==
  IF fallback THEN filed' = filed \cup rows /\ UNCHANGED lost
              ELSE lost' = lost \cup rows /\ UNCHANGED filed

(* Log never waits.  It does not ask whether the service still runs.       *)
Log(r) ==
  /\ r \notin accepted \cup refused
  /\ \/ /\ Cardinality(queue) < Capacity
        /\ queue' = queue \cup {r} /\ accepted' = accepted \cup {r}
        /\ UNCHANGED <<refused, filed, lost>>
     \/ /\ Cardinality(queue) >= Capacity
        /\ refused' = refused \cup {r} /\ Degrade({r})
        /\ UNCHANGED <<queue, accepted>>
  /\ UNCHANGED <<fallback, workerVars, tableVars, endVars, faultVars>>

-----------------------------------------------------------------------------
Goes(w, from, to) == at[w] = from /\ at' = [at EXCEPT ![w] = to]

(* drainOnShutdown looks at drainAbort first, then at the channel.         *)
Look(w) ==
  /\ home[w] = "drain" /\ ~aborted
  /\ Goes(w, "ready", "looked")
  /\ UNCHANGED <<fallback, rowVars, home, held, left, failed, inFlight,
                 tableVars, filed, lost, endVars, faultVars>>

(* Both loops receive a row first and count it afterwards.                 *)
Receive(w) ==
  /\ Goes(w, IF home[w] = "drain" THEN "looked" ELSE "ready", "counting")
  /\ \E r \in queue : /\ queue' = queue \ {r}
                      /\ held' = [held EXCEPT ![w] = @ \cup {r}]
  /\ UNCHANGED <<fallback, accepted, refused, home, left, failed, inFlight,
                 tableVars, filed, lost, endVars, faultVars>>

Count(w) ==
  /\ Goes(w, "counting", IF Cardinality(held[w]) >= BatchSize THEN "flushing" ELSE "ready")
  /\ inFlight' = inFlight + 1
  /\ UNCHANGED <<fallback, rowVars, home, held, left, failed,
                 tableVars, filed, lost, endVars, faultVars>>

TickFull(w) ==                 \* a bug: the ticker flushes full batches only
  /\ home[w] = "select" /\ Cardinality(held[w]) >= BatchSize
  /\ Goes(w, "ready", "flushing")
  /\ UNCHANGED <<fallback, rowVars, home, held, left, failed, inFlight,
                 tableVars, filed, lost, endVars, faultVars>>

(* The ticker flushes what there is.                                       *)
Tick(w) ==
  /\ home[w] = "select" /\ held[w] # {}
  /\ Goes(w, "ready", "flushing")
  /\ UNCHANGED <<fallback, rowVars, home, held, left, failed, inFlight,
                 tableVars, filed, lost, endVars, faultVars>>

(* stopChan is closed: on to draining.                                     *)
NoticeStop(w) ==
  /\ stopped /\ home[w] = "select" /\ at[w] = "ready"
  /\ home' = [home EXCEPT ![w] = "drain"]
  /\ UNCHANGED <<fallback, rowVars, at, held, left, failed, inFlight,
                 tableVars, filed, lost, endVars, faultVars>>

DrainEndEarly(w) ==            \* a bug: flushes its own batch and leaves the queue
  /\ Goes(w, "looked", IF held[w] = {} THEN "exited" ELSE "flushing")
  /\ home' = [home EXCEPT ![w] = "exit"]
  /\ UNCHANGED <<fallback, rowVars, held, left, failed, inFlight,
                 tableVars, filed, lost, endVars, faultVars>>

(* The channel is empty: flush and end.                                    *)
DrainEnd(w) ==
  /\ queue = {}
  /\ Goes(w, "looked", IF held[w] = {} THEN "exited" ELSE "flushing")
  /\ home' = [home EXCEPT ![w] = "exit"]
  /\ UNCHANGED <<fallback, rowVars, held, left, failed, inFlight,
                 tableVars, filed, lost, endVars, faultVars>>

AbandonSilently(w) ==          \* a bug: nobody is told of the rows of the batch
  /\ home[w] = "drain" /\ aborted
  /\ Goes(w, "ready", "exited")
  /\ held' = [held EXCEPT ![w] = {}]
  /\ inFlight' = inFlight - Cardinality(held[w])
  /\ UNCHANGED <<fallback, rowVars, home, left, failed, tableVars, filed, lost,
                 endVars, faultVars>>

(* The deadline has passed: no more inserts.                               *)
Abandon(w) ==
  /\ home[w] = "drain" /\ aborted
  /\ Goes(w, "ready", "exited")
  /\ Degrade(held[w])
  /\ held' = [held EXCEPT ![w] = {}]
  /\ inFlight' = inFlight - Cardinality(held[w])
  /\ UNCHANGED <<fallback, rowVars, home, left, failed, tableVars, endVars, faultVars>>

-----------------------------------------------------------------------------
(* One INSERT: all its rows or none.  BeforeCreate stamps a row only if it *)
(* can borrow the key, and lets the insert go on if it cannot.             *)
Store(rows) ==
  /\ stored' = stored \cup rows /\ twice' = twice \cup (rows \cap stored)
  /\ bare' = IF gate = "closed" THEN bare \cup rows ELSE bare

PersistPartly(rows, ok) ==     \* a bug: a failing batch keeps its good rows
  \/ ok /\ rows \cap Bad = {} /\ Store(rows) /\ UNCHANGED faultVars
  \/ ~ok /\ rows \cap Bad # {} /\ Store(rows \ Bad) /\ UNCHANGED faultVars

Persist(rows, ok) ==
  \/ ok /\ rows \cap Bad = {} /\ Store(rows) /\ UNCHANGED faultVars
  \/ ~ok /\ rows \cap Bad # {} /\ UNCHANGED <<tableVars, faultVars>>
  \/ /\ ~ok /\ faults < MaxFaults /\ faults' = faults + 1
     /\ UNCHANGED <<tableVars, lostAcks>>
  \/ /\ ~ok /\ rows \cap Bad = {} /\ lostAcks < MaxLostAcks
     /\ Store(rows) /\ lostAcks' = lostAcks + 1 /\ UNCHANGED faults

InsertDropsBatch(w) ==         \* a bug: a failed batch is degraded as a whole
  /\ \E ok \in BOOLEAN :
       /\ Persist(held[w], ok)
       /\ failed' = IF ok THEN failed ELSE [failed EXCEPT ![w] = held[w]]
  /\ Goes(w, "flushing", "settling")
  /\ UNCHANGED <<fallback, rowVars, home, held, left, inFlight, filed, lost, endVars>>

(* The batch in one statement.                                             *)
Insert(w) ==
  /\ \E ok \in BOOLEAN :
       /\ Persist(held[w], ok)
       /\ Goes(w, "flushing", IF ok THEN "settling" ELSE "retrying")
       /\ left' = IF ok THEN left ELSE [left EXCEPT ![w] = held[w]]
  /\ UNCHANGED <<fallback, rowVars, home, held, failed, inFlight, filed, lost, endVars>>

(* After a failure each row in a statement of its own.                     *)
Retry(w) ==
  /\ at[w] = "retrying"
  /\ \E r \in left[w], ok \in BOOLEAN :
       /\ Persist({r}, ok)
       /\ left' = [left EXCEPT ![w] = @ \ {r}]
       /\ failed' = IF ok THEN failed ELSE [failed EXCEPT ![w] = @ \cup {r}]
  /\ UNCHANGED <<fallback, rowVars, at, home, held, inFlight, filed, lost, endVars>>

Returns(w) == /\ at[w] \in {"settling", "retrying"} /\ left[w] = {}
              /\ at' = [at EXCEPT ![w] = IF home[w] = "exit" THEN "exited" ELSE "ready"]
              /\ held' = [held EXCEPT ![w] = {}] /\ failed' = [failed EXCEPT ![w] = {}]
              /\ Degrade(failed[w])
              /\ UNCHANGED <<fallback, rowVars, home, left, tableVars, endVars, faultVars>>

SettleUncounted(w) ==          \* a bug: a batch with failed rows stays counted
  Returns(w) /\ inFlight' = inFlight - Cardinality(held[w] \ failed[w])

(* flushBatch degrades what still failed and takes the batch off the count.*)
Settle(w) == Returns(w) /\ inFlight' = inFlight - Cardinality(held[w])

-----------------------------------------------------------------------------
(* Releasing a graph closes its material gate before anything else, the    *)
(* audit service among it, is released.                                    *)
CloseGate ==
  /\ gate = "open" /\ gate' = "closed"
  /\ UNCHANGED <<fallback, rowVars, workerVars, tableVars, filed, lost,
                 stopped, aborted, closer, due, faultVars>>

BeginShutdown ==
  /\ gate = "closed" /\ closer = "off"
  /\ stopped' = TRUE /\ closer' = "waiting" /\ due' = queue \cup Held
  /\ UNCHANGED <<fallback, rowVars, workerVars, tableVars, filed, lost,
                 gate, aborted, faultVars>>

(* All workers ended before the deadline: Shutdown returns nil.            *)
Drained ==
  /\ closer = "waiting" /\ \A w \in Workers : at[w] = "exited"
  /\ closer' = "done"
  /\ UNCHANGED <<fallback, rowVars, workerVars, tableVars, filed, lost,
                 gate, stopped, aborted, due, faultVars>>

DeadlineIgnored ==             \* a bug: the wait goes on as long as a sink hangs
  /\ closer = "waiting" /\ \A w \in Workers : at[w] \notin {"flushing", "retrying"}
  /\ aborted' = TRUE /\ closer' = "aborting"
  /\ UNCHANGED <<fallback, rowVars, workerVars, tableVars, filed, lost,
                 gate, stopped, due, faultVars>>

Deadline ==
  /\ closer = "waiting"
  /\ aborted' = TRUE /\ closer' = "aborting"
  /\ UNCHANGED <<fallback, rowVars, workerVars, tableVars, filed, lost,
                 gate, stopped, due, faultVars>>

(* A grace period later, whatever the workers do, what is left in the      *)
(* channel is degraded.  The numbers of the error are left out.            *)
TakeResidual ==
  /\ closer = "aborting" /\ closer' = "done"
  /\ queue' = {} /\ Degrade(queue)
  /\ UNCHANGED <<fallback, accepted, refused, workerVars, tableVars,
                 gate, stopped, aborted, due, faultVars>>

-----------------------------------------------------------------------------
(* What a worker does without waiting for the database.                    *)
WorkerStep(w) == \/ Look(w) \/ Receive(w) \/ Count(w) \/ Tick(w) \/ NoticeStop(w)
                 \/ DrainEnd(w) \/ Abandon(w) \/ Settle(w)
SinkStep(w) == Insert(w) \/ Retry(w)
ShutdownStep == Drained \/ Deadline \/ TakeResidual

Next == \/ \E r \in Rows : Log(r)
        \/ \E w \in Workers : WorkerStep(w) \/ SinkStep(w)
        \/ CloseGate \/ BeginShutdown \/ ShutdownStep

Spec == Init /\ [][Next]_vars

(* Goroutines run and timers fire; a database need not answer.             *)
FairSpec == /\ Spec /\ WF_vars(ShutdownStep)
            /\ \A w \in Workers : WF_vars(WorkerStep(w))

-----------------------------------------------------------------------------
(* Types.  inFlight is never negative: the counter of worker              *)
(* (audit_log_service.go) goes up before the batch it counts goes down.    *)
TypeOK ==
  /\ fallback \in BOOLEAN /\ accepted \subseteq Rows /\ refused \subseteq Rows
  /\ queue \subseteq Rows
  /\ at \in [Workers -> Ats] /\ home \in [Workers -> Homes]
  /\ held \in [Workers -> SUBSET Rows] /\ left \in [Workers -> SUBSET Rows]
  /\ failed \in [Workers -> SUBSET Rows] /\ inFlight \in Nat
  /\ stored \subseteq Rows /\ twice \subseteq Rows /\ bare \subseteq Rows
  /\ filed \subseteq Rows /\ lost \subseteq Rows
  /\ gate \in {"open", "closed"} /\ stopped \in BOOLEAN /\ aborted \in BOOLEAN
  /\ closer \in Closers /\ due \subseteq Rows
  /\ faults \in 0..MaxFaults /\ lostAcks \in 0..MaxLostAcks

(* inFlight counts the rows that workers have, but for the one that each   *)
(* may have received and not yet counted; no path of flushBatch or of the  *)
(* drain leaves a row on the count or takes one off twice.                 *)
InFlightExact ==
  inFlight = Cardinality(Held) - Cardinality({w \in Workers : at[w] = "counting"})

(* While the database tells the truth about its inserts, the retries after *)
(* a failed batch store no row twice, and no row counted as dropped or     *)
(* written to the file is in the table as well (retryRowsIndividually).    *)
StoredOnce == lostAcks = 0 => twice = {} /\ stored \cap (filed \cup lost) = {}

(* A row that violates a constraint takes no other row of its batch with   *)
(* it: with a database that works, only bad rows are degraded.             *)
BadRowsIsolated ==
  faults = 0 /\ lostAcks = 0 /\ ~aborted => accepted \cap (filed \cup lost) \subseteq Bad

(* Shutdown that returns nil has stored every row that had been accepted   *)
(* when it began, in the channel or in a batch, but for the bad ones.      *)
CleanMeansStored ==
  closer = "done" /\ ~aborted /\ faults = 0 => due \ Bad \subseteq stored

(* Every row in the table carries its HMAC (BeforeCreate, StampOne).       *)
Stamped == bare = {}

(* The service implements RowFates: one fate for each row, kept for good,  *)
(* and pending until the service lets go of it.                            *)
Fate(r) == IF r \notin accepted \cup refused THEN "new"
           ELSE IF r \in queue \cup Held THEN "pending"
           ELSE IF r \in filed THEN "filed"
           ELSE IF r \in lost THEN "lost"
           ELSE IF r \in stored THEN "stored" ELSE "gone"
Fates == INSTANCE RowFates WITH fate <- [r \in Rows |-> Fate(r)],
                                fallback <- IF fallback THEN "filed" ELSE "lost"
ImplementsFates == Fates!Spec

(* Shutdown returns, whether or not the database ever answers.             *)
ShutdownEnds == closer = "waiting" ~> closer = "done"

(* While the database answers, a row accepted by a service that runs gets  *)
(* its fate, however few follow it and whatever fails.                     *)
Answers == \A w \in Workers : WF_vars(SinkStep(w))
RowsSettle ==
  Answers => \A r \in Rows :
    r \in accepted /\ ~stopped ~> r \in accepted \ (queue \cup Held)
=============================================================================
