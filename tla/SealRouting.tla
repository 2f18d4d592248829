---------------------------- MODULE SealRouting ----------------------------
(***************************************************************************)
(* The HTTP side of sealing, composed with SealMachine: the unseal handler *)
(* (internal/api/seal_handler.go) runs Machine.Unseal under the journal's  *)
(* single admission ticket, and after a success hands the graph's router   *)
(* to the swappable handler of the server (cmd/server/sealwire.go).        *)
(*                                                                         *)
(* The stage-1 router refuses every business request.  The router of a     *)
(* graph lets one through while the machine is unsealed.  Left out: the    *)
(* minimum interval between admissions (it only delays) and the checks of  *)
(* source and grant that answer before any of this.                        *)
(***************************************************************************)
EXTENDS SealMachine

VARIABLES
  handler,   \* "idle", "waiting", "inside", "publishing", "answered" or "dead"
  ticket,    \* Journal.admitToken: the attempt holding it, None if free
  router     \* swappableHandler.current: a graph's router, None for stage 1

routingVars == <<handler, ticket, router>>
allVars == <<vars, routingVars>>

RoutingInit ==
  /\ Init
  /\ handler = [a \in Attempts |-> "idle"] /\ ticket = None /\ router = None

Step(a, from, to) == handler[a] = from /\ handler' = [handler EXCEPT ![a] = to]

-----------------------------------------------------------------------------
Arrive(a) == Step(a, "idle", "waiting") /\ UNCHANGED <<vars, ticket, router>>

(* Admit: one ticket; a cancelled request or a faulted journal gets none.  *)
Admit(a) ==
  /\ ticket = None
  /\ \/ Step(a, "waiting", "inside") /\ ticket' = a
     \/ Step(a, "waiting", "answered") /\ UNCHANGED ticket
  /\ UNCHANGED <<vars, router>>

(* machine.Unseal runs between Admit and ReleaseTicket.  What is left of   *)
(* the attempt then is a zombie's reaper or the releaser of a failed graph.*)
Returned(a) == pc[a] \in {"rejected", "failed", "served", "stuck",
                          "zombie", "closing", "draining", "clearing"}

ReleaseTicketLax(a) ==         \* a bug: every verified attempt is published
  /\ Returned(a)
  /\ Step(a, "inside", IF pc[a] \in {"served", "closing"} THEN "publishing" ELSE "answered")
  /\ ticket' = None
  /\ UNCHANGED <<vars, router>>

ReleaseTicketOnSuccess(a) ==   \* a bug: the error path forgets the ticket
  /\ Returned(a)
  /\ Step(a, "inside", IF pc[a] = "served" THEN "publishing" ELSE "answered")
  /\ ticket' = IF pc[a] = "served" THEN None ELSE ticket
  /\ UNCHANGED <<vars, router>>

ReleaseTicket(a) ==
  /\ Returned(a)
  /\ Step(a, "inside", IF pc[a] = "served" THEN "publishing" ELSE "answered")
  /\ ticket' = None
  /\ UNCHANGED <<vars, router>>

(* publishStage2: one pointer swap, after the ticket went back.            *)
PublishRouter(a) ==
  /\ Step(a, "publishing", "answered")
  /\ router' = a
  /\ UNCHANGED <<vars, ticket>>

(* The machine's own steps; an attempt starts once its handler is inside.  *)
MachineStep ==
  /\ \/ \E a \in Attempts : \/ handler[a] = "inside" /\ Load(a)
                            \/ AttemptStep(a) \/ Stage2Returns(a)
     \/ \E s \in Sealers : SealBegin(s) \/ SealStep(s)
     \/ \E u \in Users : Finish(u) \/ \E a \in Attempts : Borrow(u, a)
     \/ Elapse
  /\ UNCHANGED routingVars

(* A new process starts with the stage-1 router.                           *)
RestartServer ==
  /\ Restart
  /\ handler' = [a \in Attempts |->
                   IF handler[a] \in {"idle", "answered"} THEN handler[a] ELSE "dead"]
  /\ ticket' = None /\ router' = None

HandlerStep(a) == Admit(a) \/ ReleaseTicket(a) \/ PublishRouter(a)

RoutingNext ==
  \/ \E a \in Attempts : Arrive(a) \/ HandlerStep(a)
  \/ MachineStep \/ RestartServer

RoutingSpec == RoutingInit /\ [][RoutingNext]_allVars

(* Goroutines make progress, the channel behind the ticket is not starved. *)
RoutingFairSpec ==
  /\ RoutingSpec
  /\ \A a \in Attempts : /\ WF_allVars(HandlerStep(a))
                         /\ WF_allVars(AttemptStep(a) /\ UNCHANGED routingVars)
                         /\ WF_allVars(handler[a] = "inside" /\ Load(a) /\ UNCHANGED routingVars)
  /\ \A s \in Sealers : WF_allVars(SealStep(s) /\ UNCHANGED routingVars)

-----------------------------------------------------------------------------
(* A business request that passes the gate finds the graph on offer: the   *)
(* router whose gate is open is the router of node.services.               *)
Passes == router # None /\ node.state = "unsealed"
GateMatchesGraph == Passes => router = node.services

(* No unseal request waits for its ticket for ever, whatever becomes of    *)
(* the attempts that hold it.                                              *)
RequestsAnswered ==
  \A a \in Attempts : handler[a] = "waiting" ~> handler[a] \in {"answered", "dead"}
=============================================================================
