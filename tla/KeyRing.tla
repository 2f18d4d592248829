------------------------------ MODULE KeyRing ------------------------------
(***************************************************************************)
(* What whoever stores an encrypted value or a stamped row may count on    *)
(* (openspec/specs/key-management/spec.md): a version of a key is made     *)
(* once, the key of a value that is stored stays within reach of every KEK *)
(* the server can start with, and the newest key of a purpose always does. *)
(* Campaigns that change the KEK are not visible here at all.              *)
(*                                                                         *)
(* An entry is a slot (purpose and version) with the key made for it.  A   *)
(* value may still be stored under an entry that is gone: its encryption   *)
(* was not waited for.  That is a known limit of the code, not a promise.  *)
(***************************************************************************)
EXTENDS Naturals

CONSTANTS Values, None

VARIABLES
  issued,   \* every entry ever made
  usable,   \* the entries that every KEK the server starts with can unwrap
  held      \* per value the entry it is stored under, or None

ringVars == <<issued, usable, held>>

Begin == issued = {} /\ usable = {} /\ held = [x \in Values |-> None]

(* New versions, each with its one key, at once in reach.                  *)
Issue ==
  LET new == issued' \ issued IN
  /\ new # {} /\ issued \subseteq issued'
  /\ \A e \in new : e[2] = 1 /\ \A old \in issued : e[1] # old[1]
  /\ usable' = usable \cup new
  /\ UNCHANGED held

(* Only what no stored value needs, and never the newest of a purpose.     *)
Destroy ==
  /\ UNCHANGED <<issued, held>>
  /\ LET left == usable' gone == usable \ left IN
     /\ left \subseteq usable
     /\ \A e \in gone :
          /\ \A x \in Values : held[x] # e
          /\ \E newer \in left : newer[1][1] = e[1][1] /\ newer[1][2] > e[1][2]

Hold ==
  \E x \in Values, e \in issued :
    /\ held' = [held EXCEPT ![x] = e]
    /\ UNCHANGED <<issued, usable>>

Promise == Begin /\ [][Issue \/ Destroy \/ Hold]_ringVars
=============================================================================
