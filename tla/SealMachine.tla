---------------------------- MODULE SealMachine ----------------------------
(***************************************************************************)
(* internal/seal: the four-state sealing machine under concurrency.        *)
(*                                                                         *)
(* Every state change is one CompareAndSwap(observed, new) on the pointer  *)
(* to an immutable sealNode.  Unseal attempts, the stage-2 goroutines they *)
(* leave behind when they time out, background releases and runtime Seal   *)
(* requests all race on that pointer.  A graph's MaterialGate is the other *)
(* shared object: the borrowers of key material, the runtime Seal that     *)
(* closes the gate, and the release that waits for the borrowers.          *)
(*                                                                         *)
(* Left out: the rejected, timeout and discarded counters, error texts and *)
(* the lengths of durations.  A cancelled request context is a choice of   *)
(* the step that looks at it; a journal write may be durable although it   *)
(* was reported as failed, because its deadline hit first.                 *)
(***************************************************************************)
EXTENDS SealCells, FiniteSets

CONSTANTS Sealers,   \* calls of Machine.Seal
          Users,     \* operations that borrow key material
          Sources,   \* per-source limiter keys
          SourceOf,  \* [Attempts -> Sources]
          Threshold, \* LimiterConfig.GlobalThreshold
          MaxBoots   \* bound: restarts of the process

ASSUME ConstantsAssumption ==
  /\ Attempts \cap Sealers = {}
  /\ SourceOf \in [Attempts -> Sources]
  /\ Threshold \in Nat \ {0}
  /\ MaxBoots \in Nat

VARIABLES
  node,      \* the current sealNode
  ptr,       \* its identity: the number of nodes installed before it
  pc,        \* where each attempt's goroutine (then its reaper) is
  seen,      \* attempt.node: the node observed, then the one installed
  seenPtr,   \* and its identity
  stage2,    \* what each attempt's stage-2 goroutine has come to
  graph,     \* the resources each attempt's stage 2 registered
  spc,       \* where each runtime Seal request is
  sseen,     \* the unsealed node it observed
  sseenPtr,  \* the identity it compares against: that node, then its own
  sfailed,   \* its drain or release failed
  sealBusy,  \* Machine.sealBusy
  closed,    \* MaterialGate.closed of each graph
  lease,     \* the graph whose gate each user holds a MaterialLease of
  journal,   \* the records durable for each attempt and Seal request
  backoff,   \* the sources whose backoff has not elapsed
  failures,  \* Limiter.globalFailures
  expired,   \* generations up to here have let their cooldown elapse
  boots      \* restarts so far

nodeVars    == <<node, ptr>>
attemptVars == <<pc, seen, seenPtr>>
graphVars   == <<stage2, graph>>
sealerVars  == <<spc, sseen, sseenPtr, sfailed, sealBusy>>
gateVars    == <<closed, lease>>
limiterVars == <<backoff, failures, expired>>
vars == <<nodeVars, attemptVars, graphVars, sealerVars, gateVars, journal,
          limiterVars, boots>>

-----------------------------------------------------------------------------
Outcomes == {"success", "material_failure", "init_failed", "timeout", "aborted"}
Records  == Outcomes \cup {"received", "published",
                           "seal_received", "seal_completed", "seal_failed"}

(* Between winning cell 2 and the CAS that ends the unsealing.             *)
HolderPcs == {"prepare", "unprepared", "prepared", "verifying", "aborting",
              "aborted", "refuted", "counting", "counted", "armed", "building",
              "timing", "timedout", "faulting", "faulted", "succeeding",
              "publishing", "retracting", "retractDrain", "retracted",
              "unretracted"}
(* After that CAS: reaping, releasing, or confirming the publication.      *)
SettledPcs == {"zombie", "closing", "draining", "clearing",
               "confirming", "resetting"}
EndedPcs   == {"rejected", "failed", "stuck", "served", "dead"}
Pcs == {"idle", "loaded", "acquiring"} \cup HolderPcs \cup SettledPcs \cup EndedPcs

SealerPcs == {"idle", "checking", "recording", "closing", "draining",
              "reporting", "clearing", "failing", "refused", "done", "dead"}

TypeOK ==
  /\ node \in Nodes /\ ptr \in Nat
  /\ pc \in [Attempts -> Pcs]
  /\ seen \in [Attempts -> Nodes] /\ seenPtr \in [Attempts -> Nat]
  /\ stage2 \in [Attempts -> {"none", "running", "ok", "err"}]
  /\ graph \in [Attempts -> {"none", "partial", "held", "orphaned", "leaked", "released"}]
  /\ spc \in [Sealers -> SealerPcs]
  /\ sseen \in [Sealers -> Nodes] /\ sseenPtr \in [Sealers -> Nat]
  /\ sfailed \in [Sealers -> BOOLEAN] /\ sealBusy \in BOOLEAN
  /\ closed \in [Attempts -> BOOLEAN] /\ lease \in [Users -> Attempts \cup {None}]
  /\ journal \in [Attempts \cup Sealers -> SUBSET Records]
  /\ backoff \in SUBSET Sources /\ failures \in Nat /\ expired \in Nat
  /\ boots \in 0 .. MaxBoots

Init ==
  /\ node = BootNode /\ ptr = 0
  /\ pc = [a \in Attempts |-> "idle"]
  /\ seen = [a \in Attempts |-> BootNode] /\ seenPtr = [a \in Attempts |-> 0]
  /\ stage2 = [a \in Attempts |-> "none"] /\ graph = [a \in Attempts |-> "none"]
  /\ spc = [s \in Sealers |-> "idle"]
  /\ sseen = [s \in Sealers |-> BootNode] /\ sseenPtr = [s \in Sealers |-> 0]
  /\ sfailed = [s \in Sealers |-> FALSE] /\ sealBusy = FALSE
  /\ closed = [a \in Attempts |-> FALSE] /\ lease = [u \in Users |-> None]
  /\ journal = [p \in Attempts \cup Sealers |-> {}]
  /\ backoff = {} /\ failures = 0 /\ expired = 0 /\ boots = 0

-----------------------------------------------------------------------------
(* Shared steps.                                                           *)
Go(a, from, to) == pc[a] = from /\ pc' = [pc EXCEPT ![a] = to]
SGo(s, from, to) == spc[s] = from /\ spc' = [spc EXCEPT ![s] = to]

Install(n) == node' = n /\ ptr' = ptr + 1

(* casCell: the CAS succeeds while the attempt's node is still current.    *)
Current(a) == seenPtr[a] = ptr
CasUnchecked(a, n) == Install(n)      \* a bug: Store for CompareAndSwap
Cas(a, n) == IF Current(a) THEN Install(n) ELSE UNCHANGED nodeVars

(* A journal write by p: acknowledged (then it is durable), or reported as *)
(* failed, in which case it may have landed all the same.                  *)
Write(p, record, ok) ==
  \E landed \in BOOLEAN :
     /\ ok => landed
     /\ journal' = [journal EXCEPT ![p] = IF landed THEN @ \cup {record} ELSE @]

(* CompleteCleanup(gen): its load-and-CAS loop takes effect at the CAS.    *)
CompleteCleanup(gen) ==
  IF gen # 0 /\ node.cleanup = gen /\ node.state \in {"sealed", "sealed-faulted"}
  THEN Install(ApplyCell(node, CellCleanupDone))
  ELSE UNCHANGED nodeVars

Gen(a) == seen[a].gen
NoLease(g) == \A u \in Users : lease[u] # g

(* acquireBlocker: the preconditions of cell 2 on the node that was read.  *)
Blocked(n) == n.state = "unsealed" \/ n.cleanup # 0 \/ n.state = "unsealing"
Cooling(n) == n.cool > expired

-----------------------------------------------------------------------------
(* acquire: the node is read first, the limiter is asked next, and only    *)
(* then is the CAS to unsealing tried.                                     *)
Load(a) ==
  /\ Go(a, "idle", IF Cooling(node) THEN "rejected" ELSE "loaded")
  /\ seen' = [seen EXCEPT ![a] = node] /\ seenPtr' = [seenPtr EXCEPT ![a] = ptr]
  /\ UNCHANGED <<nodeVars, graphVars, sealerVars, gateVars, journal, limiterVars, boots>>

AskLimiterOnly(a) ==                  \* a bug: the blockers are not looked at
  /\ Go(a, "loaded", IF SourceOf[a] \in backoff THEN "rejected" ELSE "acquiring")
  /\ UNCHANGED <<nodeVars, seen, seenPtr, graphVars, sealerVars, gateVars, journal,
                 limiterVars, boots>>

AskBlockersOnly(a) ==                 \* a bug: the source's backoff is not looked at
  /\ Go(a, "loaded", IF Blocked(seen[a]) THEN "rejected" ELSE "acquiring")
  /\ UNCHANGED <<nodeVars, seen, seenPtr, graphVars, sealerVars, gateVars, journal,
                 limiterVars, boots>>

AskLimiter(a) ==
  /\ Go(a, "loaded", IF SourceOf[a] \in backoff \/ Blocked(seen[a])
                     THEN "rejected" ELSE "acquiring")
  /\ UNCHANGED <<nodeVars, seen, seenPtr, graphVars, sealerVars, gateVars, journal,
                 limiterVars, boots>>

Acquire(a) ==
  /\ IF Current(a)
     THEN LET n == ApplyCell(seen[a], CellAcquire)
          IN  /\ Go(a, "acquiring", "prepare")
              /\ Install(n)
              /\ seen' = [seen EXCEPT ![a] = n]
              /\ seenPtr' = [seenPtr EXCEPT ![a] = ptr + 1]
     ELSE Go(a, "acquiring", "rejected") /\ UNCHANGED <<nodeVars, seen, seenPtr>>
  /\ UNCHANGED <<graphVars, sealerVars, gateVars, journal, limiterVars, boots>>

(* A step of a that only writes one record to the journal.                 *)
WriteStep(a, from, record, acked, lost) ==
  \E ok \in BOOLEAN :
    /\ Go(a, from, IF ok THEN acked ELSE lost)
    /\ Write(a, record, ok)
    /\ UNCHANGED <<nodeVars, seen, seenPtr, graphVars, sealerVars, gateVars,
                   limiterVars, boots>>

(* A step of a that only fires casCell.                                    *)
CasStep(a, from, n, to) ==
  /\ Go(a, from, to) /\ Cas(a, n)
  /\ UNCHANGED <<seen, seenPtr, graphVars, sealerVars, gateVars, journal,
                 limiterVars, boots>>

(* run, up to the end of verification.                                     *)
WriteReceivedLax(a) ==                \* a bug: a failed write lets the run go on
  WriteStep(a, "prepare", "received", "prepared", "prepared")
WriteReceived(a) == WriteStep(a, "prepare", "received", "prepared", "unprepared")
AbortPrePrepare(a) == CasStep(a, "unprepared", ApplyCell(seen[a], CellPreAbort), "failed")

BeginVerify(a) ==
  \E cancelled \in BOOLEAN :
    /\ Go(a, "prepared", IF cancelled THEN "aborting" ELSE "verifying")
    /\ UNCHANGED <<nodeVars, seen, seenPtr, graphVars, sealerVars, gateVars, journal,
                   limiterVars, boots>>

Verify(a) ==
  \/ /\ Go(a, "verifying", "building")
     /\ stage2' = [stage2 EXCEPT ![a] = "running"]
     /\ graph' = [graph EXCEPT ![a] = "partial"]
     /\ UNCHANGED <<nodeVars, seen, seenPtr, sealerVars, gateVars, journal,
                    limiterVars, boots>>
  \/ \E to \in {"aborting", "refuted"} :
       /\ Go(a, "verifying", to)
       /\ UNCHANGED <<nodeVars, seen, seenPtr, graphVars, sealerVars, gateVars, journal,
                      limiterVars, boots>>

(* abortPostPrepare: the outcome is written before the CAS, and the CAS    *)
(* happens whether or not the write succeeded.                             *)
WriteAborted(a) == WriteStep(a, "aborting", "aborted", "aborted", "aborted")
AbortPostPrepare(a) == CasStep(a, "aborted", ApplyCell(seen[a], CellPostAbort), "failed")

(* materialFailure: outcome, then the limiter, then the CAS that also      *)
(* carries the cooldown the limiter asked for.                             *)
WriteMaterialFailure(a) == WriteStep(a, "refuted", "material_failure", "counting", "counting")

RecordMaterialFailure(a) ==
  /\ Go(a, "counting", IF failures + 1 < Threshold THEN "counted" ELSE "armed")
  /\ failures' = failures + 1
  /\ backoff' = backoff \cup {SourceOf[a]}
  /\ UNCHANGED <<nodeVars, seen, seenPtr, graphVars, sealerVars, gateVars, journal,
                 expired, boots>>

MaterialFailure(a) ==
  \/ CasStep(a, "counted", MaterialBad(seen[a], FALSE), "failed")
  \/ CasStep(a, "armed", MaterialBad(seen[a], TRUE), "failed")

-----------------------------------------------------------------------------
(* Stage 2 runs in a goroutine of its own.  It returns a complete graph,   *)
(* an error with or without the half-built graph, or it panics: recover    *)
(* then has no graph to hand over and what was registered is orphaned.     *)
Stage2Returns(a) ==
  /\ stage2[a] = "running"
  /\ \E r \in {<<"ok", "held">>, <<"err", "held">>, <<"err", "none">>, <<"err", "orphaned">>} :
       /\ stage2' = [stage2 EXCEPT ![a] = r[1]]
       /\ graph' = [graph EXCEPT ![a] = r[2]]
  /\ UNCHANGED <<nodeVars, attemptVars, sealerVars, gateVars, journal, limiterVars, boots>>

(* runStage2's select: the result, or the timer; both may be ready.        *)
AwaitStage2Forever(a) ==              \* a bug: no timer
  /\ \/ stage2[a] = "ok" /\ Go(a, "building", "succeeding")
     \/ stage2[a] = "err" /\ Go(a, "building", "faulting")
  /\ UNCHANGED <<nodeVars, seen, seenPtr, graphVars, sealerVars, gateVars, journal,
                 limiterVars, boots>>

AwaitStage2(a) ==
  /\ \/ stage2[a] = "ok" /\ Go(a, "building", "succeeding")
     \/ stage2[a] = "err" /\ Go(a, "building", "faulting")
     \/ Go(a, "building", "timing")
  /\ UNCHANGED <<nodeVars, seen, seenPtr, graphVars, sealerVars, gateVars, journal,
                 limiterVars, boots>>

(* timedOut: the token is set before the reaper of the zombie starts.      *)
WriteTimeout(a) == WriteStep(a, "timing", "timeout", "timedout", "timedout")
TimedOut(a) == CasStep(a, "timedout", ApplyCell(seen[a], CellTimeout), "zombie")

(* reap: the zombie's own ending is tried like any other and is discarded. *)
Reap(a) ==
  \/ /\ stage2[a] = "ok"
     /\ CasStep(a, "zombie", Published(seen[a], a), "closing")
  \/ /\ stage2[a] = "err"
     /\ CasStep(a, "zombie", InitFailed(seen[a]), "closing")

WriteInitFailed(a) == WriteStep(a, "faulting", "init_failed", "faulted", "faulted")
InitFailureKept(a) ==                 \* a bug: the failed graph is not released
  CasStep(a, "faulted", InitFailed(seen[a]), "failed")
InitFailure(a) == CasStep(a, "faulted", InitFailed(seen[a]), "closing")

(* publish: SUCCESS is durable before the CAS that releases the services.  *)
WriteSuccessStranded(a) ==            \* a bug: a lost SUCCESS returns at once
  WriteStep(a, "succeeding", "success", "publishing", "failed")
WriteSuccessTwice(a) ==               \* a bug: a lost SUCCESS records a failure too
  WriteStep(a, "succeeding", "success", "publishing", "faulting")
WriteSuccess(a) == WriteStep(a, "succeeding", "success", "publishing", "retracting")
Publish(a) ==
  CasStep(a, "publishing", Published(seen[a], a),
          IF Current(a) THEN "confirming" ELSE "retracting")
WritePublished(a) == WriteStep(a, "confirming", "published", "resetting", "resetting")
RecordSuccess(a) ==
  /\ Go(a, "resetting", "served")
  /\ failures' = 0 /\ backoff' = backoff \ {SourceOf[a]}
  /\ UNCHANGED <<nodeVars, seen, seenPtr, graphVars, sealerVars, gateVars, journal,
                 expired, boots>>

-----------------------------------------------------------------------------
(* releaseGraph: nothing for a nil graph; otherwise close its gate, wait   *)
(* for the borrowers and release what is registered.  The wait has a       *)
(* deadline, and the release itself may fail or outlast it.                *)
CloseGraph(a) ==
  \/ /\ graph[a] \in {"none", "orphaned"}
     /\ Go(a, "closing", "clearing")
     /\ UNCHANGED <<nodeVars, seen, seenPtr, graphVars, sealerVars, gateVars, journal,
                    limiterVars, boots>>
  \/ /\ graph[a] = "held"
     /\ Go(a, "closing", "draining") \/ Go(a, "retracting", "retractDrain")
     /\ closed' = [closed EXCEPT ![a] = TRUE]
     /\ UNCHANGED <<nodeVars, seen, seenPtr, graphVars, sealerVars, lease, journal,
                    limiterVars, boots>>

ReleaseGraph(a) ==
  /\ NoLease(a)
  /\ \/ /\ Go(a, "draining", "clearing") \/ Go(a, "retractDrain", "retracted")
        /\ graph' = [graph EXCEPT ![a] = "released"]
     \/ /\ Go(a, "draining", "stuck") \/ Go(a, "retractDrain", "unretracted")
        /\ graph' = [graph EXCEPT ![a] = "leaked"]
  /\ UNCHANGED <<nodeVars, seen, seenPtr, stage2, sealerVars, gateVars, journal,
                 limiterVars, boots>>

DrainTimesOut(a) ==
  /\ Go(a, "draining", "stuck") \/ Go(a, "retractDrain", "unretracted")
  /\ UNCHANGED <<nodeVars, seen, seenPtr, graphVars, sealerVars, gateVars, journal,
                 limiterVars, boots>>

(* releaseAndClear: cell 8, only once the release returned nil.            *)
ClearCleanup(a) ==
  /\ Go(a, "clearing", "failed")
  /\ CompleteCleanup(Gen(a))
  /\ UNCHANGED <<seen, seenPtr, graphVars, sealerVars, gateVars, journal,
                 limiterVars, boots>>

(* unpublished: cell 5b, or the stage-2 failure cell when the release did  *)
(* not succeed.                                                            *)
Unpublished(a) ==
  \/ CasStep(a, "retracted", ApplyCell(seen[a], CellUnpublished), "failed")
  \/ CasStep(a, "unretracted", ApplyCell(seen[a], CellInitFailed), "failed")

-----------------------------------------------------------------------------
(* Seal: the request, its durable record, then the gate and the node.      *)
SealBegin(s) ==
  /\ SGo(s, "idle", IF sealBusy THEN "refused" ELSE "checking")
  /\ sealBusy' = TRUE
  /\ UNCHANGED <<nodeVars, attemptVars, graphVars, sseen, sseenPtr, sfailed, gateVars,
                 journal, limiterVars, boots>>

SealCheck(s) ==
  /\ IF node.state = "unsealed" /\ node.cleanup = 0
     THEN SGo(s, "checking", "recording") /\ UNCHANGED sealBusy
     ELSE SGo(s, "checking", "refused") /\ sealBusy' = FALSE
  /\ sseen' = [sseen EXCEPT ![s] = node] /\ sseenPtr' = [sseenPtr EXCEPT ![s] = ptr]
  /\ UNCHANGED <<nodeVars, attemptVars, graphVars, sfailed, gateVars, journal,
                 limiterVars, boots>>

SealRecord(s) ==
  /\ \E ok \in BOOLEAN :
       /\ SGo(s, "recording", IF ok THEN "closing" ELSE "refused")
       /\ sealBusy' = ok
       /\ Write(s, "seal_received", ok)
  /\ UNCHANGED <<nodeVars, attemptVars, graphVars, sseen, sseenPtr, sfailed, gateVars,
                 limiterVars, boots>>

SealWithoutGate(s) ==                 \* a bug: the CAS alone, the gate stays open
  /\ spc[s] = "closing"
  /\ IF sseenPtr[s] = ptr
     THEN /\ SGo(s, "closing", "draining")
          /\ Install(ApplyCell(sseen[s], CellSeal))
          /\ sseenPtr' = [sseenPtr EXCEPT ![s] = ptr + 1]
          /\ UNCHANGED sealBusy
     ELSE /\ SGo(s, "closing", "refused")
          /\ sealBusy' = FALSE
          /\ UNCHANGED <<nodeVars, sseenPtr>>
  /\ UNCHANGED <<attemptVars, graphVars, sseen, sfailed, gateVars, journal,
                 limiterVars, boots>>

(* CloseWith: the gate closes in the same critical section as the CAS.     *)
SealClose(s) ==
  LET g == sseen[s].services
  IN  /\ spc[s] = "closing"
      /\ IF ~closed[g] /\ sseenPtr[s] = ptr
         THEN /\ SGo(s, "closing", "draining")
              /\ Install(ApplyCell(sseen[s], CellSeal))
              /\ sseenPtr' = [sseenPtr EXCEPT ![s] = ptr + 1]
              /\ closed' = [closed EXCEPT ![g] = TRUE]
              /\ UNCHANGED sealBusy
         ELSE /\ SGo(s, "closing", "refused")
              /\ sealBusy' = FALSE
              /\ UNCHANGED <<nodeVars, sseenPtr, closed>>
      /\ UNCHANGED <<attemptVars, graphVars, sseen, sfailed, lease, journal,
                     limiterVars, boots>>

SealReleaseUnbounded(s) ==            \* a bug: the drain has no deadline
  LET g == sseen[s].services
  IN  /\ SGo(s, "draining", "reporting") /\ NoLease(g)
      /\ \E ok \in BOOLEAN :
           /\ graph' = [graph EXCEPT ![g] = IF ok THEN "released" ELSE "leaked"]
           /\ sfailed' = [sfailed EXCEPT ![s] = ~ok]
      /\ UNCHANGED <<nodeVars, attemptVars, stage2, sseen, sseenPtr, sealBusy, gateVars,
                     journal, limiterVars, boots>>

SealRelease(s) ==
  LET g == sseen[s].services
  IN  /\ SGo(s, "draining", "reporting")
      /\ \/ /\ NoLease(g)
            /\ \E ok \in BOOLEAN :
                 /\ graph' = [graph EXCEPT ![g] = IF ok THEN "released" ELSE "leaked"]
                 /\ sfailed' = [sfailed EXCEPT ![s] = ~ok]
         \/ sfailed' = [sfailed EXCEPT ![s] = TRUE] /\ UNCHANGED graph
      /\ UNCHANGED <<nodeVars, attemptVars, stage2, sseen, sseenPtr, sealBusy, gateVars,
                     journal, limiterVars, boots>>

SealReport(s) ==
  /\ \E ok \in BOOLEAN :
       /\ SGo(s, "reporting", IF sfailed[s] \/ ~ok THEN "failing" ELSE "clearing")
       /\ Write(s, IF sfailed[s] THEN "seal_failed" ELSE "seal_completed", ok)
  /\ UNCHANGED <<nodeVars, attemptVars, graphVars, sseen, sseenPtr, sfailed, sealBusy,
                 gateVars, limiterVars, boots>>

SealedNode(s) == ApplyCell(sseen[s], CellSeal)

SealEnd(s) ==
  /\ \/ SGo(s, "clearing", "done") /\ CompleteCleanup(SealedNode(s).gen)
     \/ /\ SGo(s, "failing", "done")
        /\ IF sseenPtr[s] = ptr THEN Install(SealFailed(SealedNode(s)))
                                ELSE UNCHANGED nodeVars
  /\ sealBusy' = FALSE
  /\ UNCHANGED <<attemptVars, graphVars, sseen, sseenPtr, sfailed, gateVars, journal,
                 limiterVars, boots>>

-----------------------------------------------------------------------------
(* Borrow and Finish of a graph's MaterialGate by whoever can reach it:    *)
(* requests it serves and workers it started.                              *)
Borrow(u, a) ==
  /\ lease[u] = None /\ graph[a] # "none" /\ ~closed[a]
  /\ lease' = [lease EXCEPT ![u] = a]
  /\ UNCHANGED <<nodeVars, attemptVars, graphVars, sealerVars, closed, journal,
                 limiterVars, boots>>

Finish(u) ==
  /\ lease[u] # None
  /\ lease' = [lease EXCEPT ![u] = None]
  /\ UNCHANGED <<nodeVars, attemptVars, graphVars, sealerVars, closed, journal,
                 limiterVars, boots>>

(* Time passes: a source's backoff, or the armed cooldown, elapses.        *)
Elapse ==
  /\ \/ /\ \E src \in backoff : backoff' = backoff \ {src}
        /\ UNCHANGED expired
     \/ /\ Cooling(node) /\ expired' = node.cool
        /\ UNCHANGED backoff
  /\ UNCHANGED <<nodeVars, attemptVars, graphVars, sealerVars, gateVars, journal,
                 failures, boots>>

(* Cell 9: the process ends and starts again; only the journal survives.   *)
Restart ==
  /\ boots < MaxBoots /\ boots' = boots + 1
  /\ node' = BootNode /\ ptr' = ptr + 1
  /\ pc' = [a \in Attempts |-> IF pc[a] \in {"idle"} \cup EndedPcs THEN pc[a] ELSE "dead"]
  /\ spc' = [s \in Sealers |-> IF spc[s] \in {"idle", "refused", "done"} THEN spc[s] ELSE "dead"]
  /\ stage2' = [a \in Attempts |-> "none"] /\ graph' = [a \in Attempts |-> "none"]
  /\ closed' = [a \in Attempts |-> FALSE] /\ lease' = [u \in Users |-> None]
  /\ sealBusy' = FALSE /\ backoff' = {} /\ failures' = 0 /\ expired' = 0
  /\ UNCHANGED <<seen, seenPtr, sseen, sseenPtr, sfailed, journal>>

-----------------------------------------------------------------------------
(* What an attempt's own goroutine, its reaper and its releaser do.        *)
AttemptStep(a) ==
  \/ AskLimiter(a) \/ Acquire(a)
  \/ WriteReceived(a) \/ AbortPrePrepare(a) \/ BeginVerify(a) \/ Verify(a)
  \/ WriteAborted(a) \/ AbortPostPrepare(a)
  \/ WriteMaterialFailure(a) \/ RecordMaterialFailure(a) \/ MaterialFailure(a)
  \/ AwaitStage2(a) \/ WriteTimeout(a) \/ TimedOut(a) \/ Reap(a)
  \/ WriteInitFailed(a) \/ InitFailure(a)
  \/ WriteSuccess(a) \/ Publish(a) \/ WritePublished(a) \/ RecordSuccess(a)
  \/ CloseGraph(a) \/ ReleaseGraph(a) \/ DrainTimesOut(a) \/ ClearCleanup(a)
  \/ Unpublished(a)

SealStep(s) ==
  \/ SealCheck(s) \/ SealRecord(s) \/ SealClose(s) \/ SealRelease(s)
  \/ SealReport(s) \/ SealEnd(s)

Next ==
  \/ \E a \in Attempts : Load(a) \/ AttemptStep(a) \/ Stage2Returns(a)
  \/ \E s \in Sealers : SealBegin(s) \/ SealStep(s)
  \/ \E u \in Users : Finish(u) \/ \E a \in Attempts : Borrow(u, a)
  \/ Elapse \/ Restart

Spec == Init /\ [][Next]_vars

(* Goroutines and timers make progress: verification and journal writes    *)
(* return, every wait has a deadline.  Stage 2 need not ever return, and   *)
(* no request need ever arrive.                                            *)
Fairness == /\ \A a \in Attempts : WF_vars(AttemptStep(a))
            /\ \A s \in Sealers : WF_vars(SealStep(s))

FairSpec == Spec /\ Fairness

-----------------------------------------------------------------------------
(* Properties.                                                             *)

Holder(a) == pc[a] \in HolderPcs
Live(a)   == graph[a] \in {"partial", "held", "leaked"}

(* The machine is unsealing exactly while one attempt is on its way to the *)
(* CAS that ends it, and that attempt's node is the current one: no exit   *)
(* path of run() strands the state, and no holder's CAS can be lost.       *)
HolderOwnsNode ==
  /\ node.state = "unsealing" <=> \E a \in Attempts : Holder(a)
  /\ \A a \in Attempts : Holder(a) => Current(a) /\ seen[a] = node
  /\ \A a, b \in Attempts : Holder(a) /\ Holder(b) => a = b

(* "No two service graphs": at most one stage 2 ever has resources that    *)
(* are registered and not yet released, across timeouts, failures, zombies *)
(* and runtime seals (cell 2's precondition cleanup == nil).               *)
OneLiveGraph == \A a, b \in Attempts : Live(a) /\ Live(b) => a = b

(* The write-ahead discipline of journal.go: what was verified has a       *)
(* durable received, what is served a durable success, and a gate closed   *)
(* by a Seal request a durable seal_received.                              *)
WriteAhead ==
  /\ \A a \in Attempts :
       /\ pc[a] = "verifying" \/ stage2[a] # "none" => "received" \in journal[a]
       /\ node.services = a => "success" \in journal[a]
  /\ \A s \in Sealers :
       spc[s] \in {"draining", "reporting", "clearing", "failing"}
         => "seal_received" \in journal[s]

(* At most one outcome is ever written for an attempt, whatever endings    *)
(* its goroutine, its zombie and its rollback run through.                 *)
OneOutcome ==
  \A a \in Attempts : Cardinality(journal[a] \cap Outcomes) <= 1

(* Once it no longer holds the unsealing, nothing an attempt or its zombie *)
(* does reaches the node, except clearing the token of its own generation. *)
ZombiesAreHarmless ==
  [][\A a \in Attempts :
       pc[a] \in SettledPcs /\ pc'[a] # pc[a] /\ boots' = boots
         => \/ node' = node
            \/ node.cleanup = Gen(a) /\ node' = [node EXCEPT !.cleanup = 0]]_vars

(* Nobody wins the unsealing while its source backs off or the node cools  *)
(* down, although both are read before the CAS.                            *)
LimiterHonoured ==
  [][\A a \in Attempts :
       pc[a] = "acquiring" /\ pc'[a] = "prepare"
         => SourceOf[a] \notin backoff /\ ~Cooling(node)]_vars

(* The machine implements the table it is written from.                    *)
Table == INSTANCE SealTable
ImplementsTable == Table!Spec

(* Every graph's gate is the lending gate of LeaseGate, closed once and    *)
(* for all whether a Seal request, a releaser or a rollback closes it, as  *)
(* long as the process lives.                                              *)
Gate(a) == INSTANCE LeaseGate WITH
  phase     <- IF ~closed[a] THEN "open" ELSE IF NoLease(a) THEN "dry" ELSE "closing",
  borrowers <- {u \in Users : lease[u] = a},
  wiped     <- graph[a] \in {"released", "leaked"}
GatesLend ==
  /\ \A a \in Attempts : Gate(a)!Init
  /\ [][boots' = boots => \A a \in Attempts : Gate(a)!Next \/ UNCHANGED Gate(a)!vars]_vars

(* Unsealing always ends, even if stage 2 never returns.                   *)
UnsealingEnds == node.state = "unsealing" ~> node.state # "unsealing"

(* A Seal request always ends, whoever keeps a lease.                      *)
SealEnds == \A s \in Sealers :
  spc[s] = "checking" ~> spc[s] \in {"refused", "done", "dead"}

(* A token goes away unless stage 2 never returns or a release failed.     *)
CleanupEnds ==
  node.cleanup # 0 ~>
    \/ node.cleanup = 0
    \/ \E a \in Attempts :
         \/ stage2[a] = "running"
         \/ pc[a] = "stuck"
         \/ pc[a] = "failed" /\ graph[a] \in {"held", "leaked"}
    \/ node.fault = "seal_cleanup_failed"
=============================================================================
