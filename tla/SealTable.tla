----------------------------- MODULE SealTable -----------------------------
(***************************************************************************)
(* The fourteen-cell table as a specification: a node that only ever moves *)
(* by firing a cell whose predicate matches the node as it is NOW.  This   *)
(* is what internal/seal promises its readers (Snapshot); SealMachine,     *)
(* where each caller computes its new node from one it observed earlier,   *)
(* is checked to implement it.                                             *)
(***************************************************************************)
EXTENDS SealCells, FiniteSets

VARIABLE node        \* the value behind Machine.node (atomic.Pointer[sealNode])

-----------------------------------------------------------------------------
(* The table as a machine: each move fires the cell that matches now.      *)
Hits(event, holder) ==
  Resolve([from |-> node.state, event |-> event,
           cleanup |-> node.cleanup # 0, holder |-> holder])

Init == node = BootNode

Acquire == \E c \in Hits("unseal_request", TRUE) : node' = ApplyCell(node, c)
Reject == \E e \in {"unseal_request", "seal_request"} :
             \E c \in Hits(e, FALSE) : node' = ApplyCell(node, c)
Abort == \E e \in {"pre_prepare_abort", "post_prepare_abort", "stage2_unpublished"} :
            \E c \in Hits(e, FALSE) : node' = ApplyCell(node, c)
FailMaterial == Hits("material_failure", FALSE) # {} /\
                \E armed \in BOOLEAN : node' = MaterialBad(node, armed)
Publish == Hits("stage2_published", FALSE) # {} /\
           \E g \in Attempts : node' = Published(node, g)
FailStage2 == \E c \in Hits("stage2_failure", FALSE) :
                 node' \in {InitFailed(node), ApplyCell(node, c)}
TimeOut == \E c \in Hits("stage2_timeout", FALSE) : node' = ApplyCell(node, c)
CleanUp == \E c \in Hits("cleanup_done", FALSE) : node' = ApplyCell(node, c)
Seal == \E c \in Hits("seal_request", TRUE) : node' = ApplyCell(node, c)
FailSeal == Hits("seal_cleanup_failed", FALSE) # {} /\ node' = SealFailed(node)
Exit == Hits("process_exit", FALSE) # {} /\ node' = BootNode

Next == \/ Acquire \/ Reject \/ Abort \/ FailMaterial \/ Publish \/ FailStage2
        \/ TimeOut \/ CleanUp \/ Seal \/ FailSeal \/ Exit

Spec == Init /\ [][Next]_node
=============================================================================
