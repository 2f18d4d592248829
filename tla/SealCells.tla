----------------------------- MODULE SealCells -----------------------------
(***************************************************************************)
(* The transition table of internal/seal/transitions.go: which cells a     *)
(* situation falls in, and the node a cell turns an observed node into.    *)
(* No state here: SealTable runs the table as a machine of its own and     *)
(* SealMachine computes every node it installs with these operators.       *)
(***************************************************************************)
EXTENDS Naturals

CONSTANTS Attempts,  \* calls of Machine.Unseal; each names the graph it builds
          None       \* nil: no service graph, no attempt

ASSUME NoneAssumption == None \notin Attempts

-----------------------------------------------------------------------------
NoState == "none"    \* sealNode.sourceState == ""
NoFault == "none"    \* sealNode.faultCode == ""
Boot    == "boot"    \* the pseudo state before a process has a node

SealStates == {"sealed", "unsealing", "unsealed", "sealed-faulted"}
Faults     == {NoFault, "init_failed", "seal_cleanup_failed"}

(* cleanup is the generation in the token, 0 for nil; cool is the          *)
(* generation that armed the global cooldown, 0 for none (cooldownUntil).  *)
Nodes == [gen : Nat, state : SealStates, source : SealStates \cup {NoState},
          services : Attempts \cup {None}, fault : Faults,
          cleanup : Nat, cool : Nat]

Events == {"boot", "unseal_request", "seal_request", "pre_prepare_abort",
           "material_failure", "post_prepare_abort", "stage2_published",
           "stage2_unpublished", "stage2_failure", "stage2_timeout",
           "cleanup_done", "process_exit", "seal_cleanup_failed"}

Situations == [from : SealStates \cup {Boot}, event : Events,
               cleanup : BOOLEAN, holder : BOOLEAN]

-----------------------------------------------------------------------------
(* A cell: the situations it matches (from, events, cleanup, holder), the  *)
(* state it leads to and what it does to the cleanup token.                *)
AnyState == SealStates \cup {Boot}

CellBoot ==
  [id |-> "1", from |-> {Boot}, events |-> {"boot"}, cleanup |-> BOOLEAN,
   holder |-> BOOLEAN, target |-> "sealed", sets |-> FALSE, clears |-> FALSE]
CellAcquire ==
  [id |-> "2", from |-> {"sealed", "sealed-faulted"}, events |-> {"unseal_request"},
   cleanup |-> {FALSE}, holder |-> {TRUE}, target |-> "unsealing",
   sets |-> FALSE, clears |-> FALSE]
CellRejected ==
  [id |-> "3", from |-> AnyState, events |-> {"unseal_request", "seal_request"},
   cleanup |-> BOOLEAN, holder |-> {FALSE}, target |-> "@unchanged",
   sets |-> FALSE, clears |-> FALSE]

(* Cells 3b, 4, 4b, 5, 5b, 6 and 7: what may end an unsealing.             *)
Ending(id, event, target, sets) ==
  [id |-> id, from |-> {"unsealing"}, events |-> {event}, cleanup |-> BOOLEAN,
   holder |-> BOOLEAN, target |-> target, sets |-> sets, clears |-> FALSE]

CellPreAbort    == Ending("3b", "pre_prepare_abort",  "@source", FALSE)
CellMaterialBad == Ending("4",  "material_failure",   "@source", FALSE)
CellPostAbort   == Ending("4b", "post_prepare_abort", "@source", FALSE)
CellPublished   == Ending("5",  "stage2_published",   "unsealed", FALSE)
CellUnpublished == Ending("5b", "stage2_unpublished", "@source", FALSE)
CellInitFailed  == Ending("6",  "stage2_failure",     "sealed-faulted", TRUE)
(* A bug to be caught: the timeout leaves no token behind.                 *)
CellTimeoutNoToken == Ending("7", "stage2_timeout", "@source", FALSE)
CellTimeout     == Ending("7",  "stage2_timeout",     "@source", TRUE)

CellCleanupDone ==
  [id |-> "8", from |-> {"sealed", "sealed-faulted"}, events |-> {"cleanup_done"},
   cleanup |-> {TRUE}, holder |-> BOOLEAN, target |-> "@unchanged",
   sets |-> FALSE, clears |-> TRUE]
CellProcessExit ==
  [id |-> "9", from |-> AnyState, events |-> {"process_exit"}, cleanup |-> BOOLEAN,
   holder |-> BOOLEAN, target |-> "sealed", sets |-> FALSE, clears |-> FALSE]
CellSeal ==
  [id |-> "10", from |-> {"unsealed"}, events |-> {"seal_request"},
   cleanup |-> {FALSE}, holder |-> {TRUE}, target |-> "sealed",
   sets |-> TRUE, clears |-> FALSE]
CellSealFailed ==
  [id |-> "11", from |-> {"sealed"}, events |-> {"seal_cleanup_failed"},
   cleanup |-> {TRUE}, holder |-> BOOLEAN, target |-> "sealed-faulted",
   sets |-> FALSE, clears |-> FALSE]

Cells == {CellBoot, CellAcquire, CellRejected, CellPreAbort, CellMaterialBad,
          CellPostAbort, CellPublished, CellUnpublished, CellInitFailed,
          CellTimeout, CellCleanupDone, CellProcessExit, CellSeal, CellSealFailed}

(* Resolve: the cells whose predicate holds; none makes a move illegal.    *)
Resolve(s) == {c \in Cells : /\ s.from \in c.from /\ s.event \in c.events
                             /\ s.cleanup \in c.cleanup /\ s.holder \in c.holder}

-----------------------------------------------------------------------------
(* applyCell: the target node.  Every cell but the two "unchanged" ones    *)
(* forgets the source state and the services; the fault code survives only *)
(* in sealed-faulted.  The token names the NEW generation.                 *)
Towards(n, c) ==
  CASE c.target = "@unchanged" -> n
    [] c.target = "@source" ->
         [n EXCEPT !.state = n.source, !.source = NoState, !.services = None,
                   !.fault = IF n.source = "sealed-faulted" THEN @ ELSE NoFault]
    [] c.target = "unsealing" ->
         [n EXCEPT !.gen = @ + 1, !.state = "unsealing", !.source = n.state,
                   !.services = None]
    [] OTHER ->
         [n EXCEPT !.state = c.target, !.source = NoState, !.services = None,
                   !.gen = IF c.id = "10" THEN @ + 1 ELSE @,
                   !.fault = IF c.target = "sealed-faulted" THEN @ ELSE NoFault]

ApplyCell(n, c) ==
  LET m == Towards(n, c)
  IN  [m EXCEPT !.cleanup = IF c.sets THEN m.gen ELSE IF c.clears THEN 0 ELSE @]

(* The nodes the mut arguments of casCell turn a cell's result into.       *)
Published(n, g)    == [ApplyCell(n, CellPublished) EXCEPT !.services = g]
InitFailed(n)      == [ApplyCell(n, CellInitFailed) EXCEPT !.fault = "init_failed"]
SealFailed(n)      == [ApplyCell(n, CellSealFailed) EXCEPT !.fault = "seal_cleanup_failed"]
MaterialBad(n, armed) ==
  LET m == ApplyCell(n, CellMaterialBad)
  IN  IF armed THEN [m EXCEPT !.cool = n.gen] ELSE m

(* New(): cell 1, a zero node that is sealed.                              *)
BootNode == [gen |-> 0, state |-> "sealed", source |-> NoState, services |-> None,
             fault |-> NoFault, cleanup |-> 0, cool |-> 0]

=============================================================================
