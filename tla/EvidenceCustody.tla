-------------------------- MODULE EvidenceCustody --------------------------
(***************************************************************************)
(* What keeping recordings in two places promises.  A recording starts as  *)
(* a file on the host.  Buckets get copies of it, the ledger vouches for   *)
(* those it has seen arrive whole, and it never takes that back: the       *)
(* product deletes nothing in a bucket.  The file may go when somebody     *)
(* else has the recording, or when its time is over: its retention has     *)
(* ended, or an administrator has deleted it.                              *)
(***************************************************************************)
CONSTANTS Recordings, Buckets

VARIABLES onHost,     \* the recordings whose file is on the host
          vouched,    \* the buckets the ledger vouches for
          over        \* the recordings whose time is over

vars == <<onHost, vouched, over>>

Init == onHost = {} /\ vouched = [r \in Recordings |-> {}] /\ over = {}

Land(r) == /\ r \notin onHost \cup over /\ vouched[r] = {}
           /\ onHost' = onHost \cup {r}
           /\ UNCHANGED <<vouched, over>>

Vouch(r, b) == /\ vouched' = [vouched EXCEPT ![r] = @ \cup {b}]
               /\ UNCHANGED <<onHost, over>>

Leave(r) == /\ vouched[r] # {} \/ r \in over
            /\ onHost' = onHost \ {r}
            /\ UNCHANGED <<vouched, over>>

Finish(r) == over' = over \cup {r} /\ UNCHANGED <<onHost, vouched>>

Next == \E r \in Recordings : \/ Land(r) \/ Leave(r) \/ Finish(r)
                              \/ \E b \in Buckets : Vouch(r, b)

Spec == Init /\ [][Next]_vars
=============================================================================
