------------------------------ MODULE DataKeys ------------------------------
(***************************************************************************)
(* The table of data keys and the processes that share it                  *)
(* (internal/modules/keyvault): versions of keys per purpose, each wrapped *)
(* by a key-encryption key (KEK), their rotation, the change of the KEK    *)
(* (rewrap, restart with the new one, settle) and the explicit cleanup.    *)
(*                                                                         *)
(* Every writer works in one transaction under one try-lock of the         *)
(* database, so each is a step here; a busy lock is a step not taken.      *)
(* What is read outside the lock - a process's cache of keys, the version  *)
(* it takes for current - may be stale: several processes run when the     *)
(* start guard was overridden, and one restarts with another KEK while a   *)
(* second still runs with the old one.  Values are encrypted and stored in *)
(* two steps, with anything in between.                                    *)
(*                                                                         *)
(* A delegated KEK may be the target of a second rewrap after an abandoned *)
(* one; a local KEK is refused once it was seen.  Not modelled: a cache    *)
(* with a time to live, the pages and the limit of a re-encryption (it may *)
(* stop at any value), rows damaged from outside.                          *)
(***************************************************************************)
EXTENDS Naturals

CONSTANTS
  Instances,   \* processes
  KEKs,        \* key-encryption keys somebody may start a process with
  Delegated,   \* those kept by an outside service
  Secrets,     \* columns encrypted under a data key
  AuditRows,   \* audit rows stamped with an audit_integrity key
  MaxVersion,  \* bound on rotations
  None

ASSUME KeysAssumption ==
  /\ Delegated \subseteq KEKs /\ None \notin KEKs
  /\ MaxVersion \in Nat /\ MaxVersion >= 1

Purposes == {"data", "audit_integrity"}
Versions == 1..MaxVersion
Slots    == Purposes \X Versions
Values   == Secrets \cup AuditRows
Sealed   == [slot : Slots, key : Nat]
ASSUME NothingAssumption == None \notin Sealed /\ None \notin Slots \X Nat
PurposeOf(x) == IF x \in Secrets THEN "data" ELSE "audit_integrity"

(* The unretired row of a KEK for a slot; key 0 is no material: no row, or *)
(* the placeholder of a version whose key was destroyed.                   *)
Forms == {"none", "live", "pending"}
NoRow == [form |-> "none", active |-> FALSE, key |-> 0]
Down  == [at |-> "down", kek |-> None, active |-> [p \in Purposes |-> 0],
          keys |-> [s \in Slots |-> 0]]

VARIABLES
  table,     \* per KEK and slot, its unretired row
  retired,   \* per KEK and slot, its retired rows: "none", "wrapped", "purged"
  inst,      \* per process: where it is, its KEK, its cache
  minted,    \* how many keys were made for each slot
  loop,      \* per process, the version its re-encryption works towards, or 0
  stored,    \* per value, the slot and key it is stored under, or None
  inflight   \* per value, who encrypted it under what and has not stored it

tableVars == <<table, retired, minted>>
vars == <<table, retired, minted, inst, loop, stored, inflight>>

Init ==
  /\ table = [k \in KEKs |-> [s \in Slots |-> NoRow]]
  /\ retired = [k \in KEKs |-> [s \in Slots |-> "none"]]
  /\ minted = [s \in Slots |-> 0]
  /\ inst = [i \in Instances |-> Down]
  /\ loop = [i \in Instances |-> 0]
  /\ stored = [x \in Values |-> None]
  /\ inflight = [x \in Values |-> None]

-----------------------------------------------------------------------------
(* Reading the table.                                                      *)

Unretired(k, s) == table[k][s].form # "none"
Known(s) == \E k \in KEKs : Unretired(k, s) \/ retired[k][s] # "none"
Empty    == \A s \in Slots : ~Known(s)
Pending  == {k \in KEKs : \E s \in Slots : table[k][s].form = "pending"}
Backlog(env) == \E k \in KEKs \ {env}, s \in Slots : table[k][s].form = "live"

ActiveOf(k, p) == {v \in Versions : Unretired(k, <<p, v>>) /\ table[k][<<p, v>>].active}

(* load and validateKeyChain: what a process that starts with k insists on.*)
Starts(k) ==
  /\ \A p \in Purposes : \E v \in Versions : ActiveOf(k, p) = {v}
  /\ \A s \in Slots : Unretired(k, s)
       => /\ table[k][s].key = 0 => ~table[k][s].active
          /\ \A u \in 1..s[2] : Known(<<s[1], u>>)
  /\ \A s \in Slots : Known(s) => Unretired(k, s)
  /\ \A j, q \in Pending : j = q
Startable == {k \in KEKs : Starts(k)}

-----------------------------------------------------------------------------
(* Starting.                                                               *)

At(i, where) == inst[i].at = where
SetAt(i, where) == inst' = [inst EXCEPT ![i].at = where]
Cache(i, s) == inst[i].keys[s]
Mine(i) == table[inst[i].kek]

StartEmpty(i, k) ==
  /\ At(i, "down") /\ Empty
  /\ inst' = [inst EXCEPT ![i] = [Down EXCEPT !.at = "empty", !.kek = k]]
  /\ UNCHANGED <<tableVars, loop, stored, inflight>>

Load(i, k) ==
  /\ At(i, "down") /\ k \in Startable
  /\ inst' = [inst EXCEPT ![i] =
       [at |-> "loaded", kek |-> k,
        active |-> [p \in Purposes |-> CHOOSE v \in Versions : v \in ActiveOf(k, p)],
        keys |-> [s \in Slots |-> table[k][s].key]]]
  /\ UNCHANGED <<tableVars, loop, stored, inflight>>

(* bootstrap: the first keys of all purposes in one transaction, refused   *)
(* when another process was faster; the start then fails.                  *)
FirstRow(s) == IF s[2] = 1 THEN [form |-> "live", active |-> TRUE, key |-> minted[s] + 1]
                           ELSE NoRow
Bootstrap(i) ==
  /\ At(i, "empty") /\ Empty
  /\ table' = [table EXCEPT ![inst[i].kek] = [s \in Slots |-> FirstRow(s)]]
  /\ minted' = [s \in Slots |-> IF s[2] = 1 THEN minted[s] + 1 ELSE minted[s]]
  /\ inst' = [inst EXCEPT ![i].at = "up", ![i].active = [p \in Purposes |-> 1],
                          ![i].keys = [s \in Slots |-> FirstRow(s).key]]
  /\ UNCHANGED <<retired, loop, stored, inflight>>
BootstrapLost(i) ==
  /\ At(i, "empty") /\ ~Empty
  /\ inst' = [inst EXCEPT ![i] = Down]
  /\ UNCHANGED <<tableVars, loop, stored, inflight>>

(* finalizeSwitch: what is pending under the KEK that started is live, and *)
(* the live rows of others retire, if none of their slots is left without. *)
Promoted(k, s) == [table[k][s] EXCEPT !.form = IF @ = "pending" THEN "live" ELSE @]
RetiresTo(k, s) == IF table[k][s].key # 0 THEN "wrapped"
                   ELSE IF retired[k][s] = "none" THEN "purged" ELSE retired[k][s]

Settle(i) ==
  LET env == inst[i].kek IN
  /\ SetAt(i, "up")
  /\ table' = [k \in KEKs |-> [s \in Slots |->
       IF k = env THEN Promoted(k, s)
       ELSE IF table[k][s].form = "live" THEN NoRow ELSE table[k][s]]]
  /\ retired' = [k \in KEKs |-> [s \in Slots |->
       IF k # env /\ table[k][s].form = "live" THEN RetiresTo(k, s) ELSE retired[k][s]]]
  /\ UNCHANGED <<minted, loop, stored, inflight>>
FinalizeUnguarded(i) ==                 \* a bug: what retires is not checked
  At(i, "loaded") /\ Settle(i)
FinalizeSwitch(i) ==
  /\ At(i, "loaded")
  /\ \A k \in KEKs \ {inst[i].kek}, s \in Slots :
       table[k][s].form = "live" => Promoted(inst[i].kek, s).form = "live"
  /\ Settle(i)

(* The lock is busy, a guard fails or the database does: started all the   *)
(* same.                                                                   *)
FinalizeSkipped(i) ==
  /\ At(i, "loaded") /\ SetAt(i, "up")
  /\ UNCHANGED <<tableVars, loop, stored, inflight>>

(* A crash or an end: what was encrypted and not stored is gone with it.   *)
Stop(i) ==
  /\ ~At(i, "down")
  /\ inst' = [inst EXCEPT ![i] = Down] /\ loop' = [loop EXCEPT ![i] = 0]
  /\ inflight' = [x \in Values |->
       IF inflight[x] # None /\ inflight[x].by = i THEN None ELSE inflight[x]]
  /\ UNCHANGED <<tableVars, stored>>

-----------------------------------------------------------------------------
(* Changing the KEK.                                                       *)

(* RewrapKEK: clones of the caller's rows, wrapped from the cache.         *)
Unseen(k) == \A s \in Slots :
  /\ ~Unretired(k, s)
  /\ k \notin Delegated => retired[k][s] = "none"
RewrapKEK(i, k) ==
  LET env == inst[i].kek IN
  /\ At(i, "up") /\ Pending = {} /\ ~Backlog(env) /\ k # env /\ Unseen(k)
  /\ \A s \in Slots : table[env][s].key # 0 => Cache(i, s) # 0
  /\ table' = [table EXCEPT ![k] = [s \in Slots |->
       IF Unretired(env, s)
       THEN [form |-> "pending", active |-> table[env][s].active,
             key |-> IF table[env][s].key = 0 THEN 0 ELSE Cache(i, s)]
       ELSE NoRow]]
  /\ UNCHANGED <<retired, minted, inst, loop, stored, inflight>>

(* AbandonRewrap: never the caller's own, which it is decrypting with.     *)
AbandonRewrap(i) ==
  /\ At(i, "up") /\ Pending # {} /\ inst[i].kek \notin Pending
  /\ table' = [k \in KEKs |-> [s \in Slots |->
       IF table[k][s].form = "pending" THEN NoRow ELSE table[k][s]]]
  /\ retired' = [k \in KEKs |-> [s \in Slots |->
       IF table[k][s].form = "pending" THEN RetiresTo(k, s) ELSE retired[k][s]]]
  /\ UNCHANGED <<minted, inst, loop, stored, inflight>>

-----------------------------------------------------------------------------
(* Rotation.                                                               *)

(* requireFreshActiveTx: the cache's version is the table's.               *)
LiveActive(i, p) == {v \in Versions : /\ Mine(i)[<<p, v>>].form = "live"
                                      /\ Mine(i)[<<p, v>>].active}
Fresh(i, p) == /\ inst[i].active[p] \in LiveActive(i, p)
               /\ \A v \in LiveActive(i, p) : v <= inst[i].active[p]
MayRotate(i, p) == At(i, "up") /\ Pending = {} /\ Fresh(i, p)

Behind(v) == \E x \in Secrets : stored[x] # None /\ stored[x].slot[2] # v

(* bumpActiveKeyTx and commitBumpedKey, under the unique index.            *)
BumpActiveKey(i, p) ==
  LET env == inst[i].kek
      old == <<p, inst[i].active[p]>>
      new == <<p, inst[i].active[p] + 1>>
  IN  /\ new \in Slots /\ ~Unretired(env, new)
      /\ table' = [table EXCEPT
           ![env][new] = [form |-> "live", active |-> TRUE, key |-> minted[new] + 1],
           ![env][old].active = FALSE]
      /\ minted' = [minted EXCEPT ![new] = @ + 1]
      /\ inst' = [inst EXCEPT ![i].active[p] = @ + 1,
                              ![i].keys[new] = minted[new] + 1]
      /\ UNCHANGED <<retired, stored, inflight>>

RotateDataDEK(i) ==
  /\ MayRotate(i, "data")
  /\ ~Behind(inst[i].active["data"])
  /\ BumpActiveKey(i, "data")
  /\ loop' = [loop EXCEPT ![i] = inst[i].active["data"] + 1]
ResumeRotation(i) ==
  /\ MayRotate(i, "data") /\ Behind(inst[i].active["data"])
  /\ loop' = [loop EXCEPT ![i] = inst[i].active["data"]]
  /\ UNCHANGED <<tableVars, inst, stored, inflight>>
RotateAuditKey(i) ==
  /\ MayRotate(i, "audit_integrity")
  /\ BumpActiveKey(i, "audit_integrity")
  /\ UNCHANGED loop

-----------------------------------------------------------------------------
(* Encryption, with the version this process takes for current.            *)

Current(i, p) == <<p, inst[i].active[p]>>
HeldUnder(x, s) == stored[x] # None /\ stored[x].slot = s

(* acquireDataCipher: a data key that is missing from the cache and needed *)
(* is unwrapped again from the process's own row.  A missing audit key is  *)
(* simply missing.                                                         *)
Refetch(i, s) ==
  /\ At(i, "up") /\ s[1] = "data" /\ Cache(i, s) = 0 /\ Mine(i)[s].key # 0
  /\ s = Current(i, "data") \/ (\E x \in Secrets : HeldUnder(x, s))
  /\ inst' = [inst EXCEPT ![i].keys[s] = Mine(i)[s].key]
  /\ UNCHANGED <<tableVars, loop, stored, inflight>>

Encrypt(i, x) ==
  LET s == Current(i, PurposeOf(x)) IN
  /\ At(i, "up") /\ inflight[x] = None /\ Cache(i, s) # 0
  /\ x \in AuditRows => stored[x] = None
  /\ inflight' = [inflight EXCEPT ![x] = [by |-> i, slot |-> s, key |-> Cache(i, s)]]
  /\ UNCHANGED <<tableVars, inst, loop, stored>>

Store(x) ==
  /\ inflight[x] # None
  /\ stored' = [stored EXCEPT ![x] = [slot |-> inflight[x].slot, key |-> inflight[x].key]]
  /\ inflight' = [inflight EXCEPT ![x] = None]
  /\ UNCHANGED <<tableVars, inst, loop>>

(* One value of reencryptEnvelopeColumn; it replaces only what it has read.*)
Reencrypt(i, x) ==
  LET s == Current(i, "data") IN
  /\ At(i, "up") /\ loop[i] # 0
  /\ x \in Secrets /\ stored[x] # None /\ stored[x].slot[2] # loop[i]
  /\ Cache(i, stored[x].slot) = stored[x].key /\ Cache(i, s) # 0
  /\ stored' = [stored EXCEPT ![x] = [slot |-> s, key |-> Cache(i, s)]]
  /\ UNCHANGED <<tableVars, inst, loop, inflight>>

ReencryptEnds(i) ==
  /\ loop[i] # 0 /\ loop' = [loop EXCEPT ![i] = 0]
  /\ UNCHANGED <<tableVars, inst, stored, inflight>>

-----------------------------------------------------------------------------
(* CleanupRetiredMaterial: copies under retired KEKs, and the keys of      *)
(* retired versions that no stored value refers to.  What it purged under  *)
(* its own KEK's name also leaves the cache.                               *)

Copies == {c \in KEKs \X Slots : retired[c[1]][c[2]] = "wrapped"}
Referenced(s) == \E x \in Values : HeldUnder(x, s)
Retirable(env) == {s \in Slots : /\ Unretired(env, s) /\ ~table[env][s].active
                                 /\ table[env][s].key # 0}

Purge(i, versions) ==
  LET env == inst[i].kek IN
  /\ At(i, "up") /\ Pending = {} /\ ~Backlog(env)
  /\ \A c \in Copies : table[env][c[2]].form = "live" /\ table[env][c[2]].key # 0
  /\ table' = [table EXCEPT ![env] = [s \in Slots |->
       IF s \in versions THEN [@[s] EXCEPT !.key = 0] ELSE @[s]]]
  /\ retired' = [k \in KEKs |-> [s \in Slots |->
       IF retired[k][s] = "wrapped" THEN "purged" ELSE retired[k][s]]]
  /\ inst' = [inst EXCEPT ![i].keys = [s \in Slots |->
       IF s \in versions \/ <<env, s>> \in Copies THEN 0 ELSE @[s]]]
  /\ UNCHANGED <<minted, loop, stored, inflight>>
CleanupUnscanned(i) == Purge(i, Retirable(inst[i].kek))  \* a bug: no scan
CleanupRetiredMaterial(i) ==
  Purge(i, {s \in Retirable(inst[i].kek) : ~Referenced(s)})

-----------------------------------------------------------------------------
Next ==
  \/ \E i \in Instances :
       \/ \E k \in KEKs : StartEmpty(i, k) \/ Load(i, k) \/ RewrapKEK(i, k)
       \/ Bootstrap(i) \/ BootstrapLost(i) \/ FinalizeSwitch(i) \/ FinalizeSkipped(i)
       \/ Stop(i) \/ AbandonRewrap(i)
       \/ RotateDataDEK(i) \/ ResumeRotation(i) \/ RotateAuditKey(i)
       \/ ReencryptEnds(i) \/ CleanupRetiredMaterial(i)
       \/ \E s \in Slots : Refetch(i, s)
       \/ \E x \in Values : Encrypt(i, x) \/ Reencrypt(i, x)
  \/ \E x \in Values : Store(x)

Spec == Init /\ [][Next]_vars

-----------------------------------------------------------------------------
(* Properties.                                                             *)

TypeOK ==
  /\ table \in [KEKs -> [Slots -> [form : Forms, active : BOOLEAN, key : Nat]]]
  /\ retired \in [KEKs -> [Slots -> {"none", "wrapped", "purged"}]]
  /\ minted \in [Slots -> Nat]
  /\ inst \in [Instances -> [at : {"down", "empty", "loaded", "up"},
                             kek : KEKs \cup {None}, active : [Purposes -> 0..MaxVersion],
                             keys : [Slots -> Nat]]]
  /\ loop \in [Instances -> 0..MaxVersion]
  /\ stored \in [Values -> Sealed \cup {None}]
  /\ inflight \in [Values -> [by : Instances, slot : Slots, key : Nat] \cup {None}]

(* Whatever rewraps, abandonments, settlements, rotations and cleanups     *)
(* several processes interleave, the server can be started: with some KEK, *)
(* and with the one a rewrap that was not abandoned prepared ("no order of *)
(* abandon and settlement can lose the live rows", key_manager_service.go).*)
Bootable ==
  ~Empty => Startable # {} /\ Pending \subseteq Startable

(* The table, whoever writes it, is a KeyRing.                             *)
Entries == UNION {{s} \X (1..minted[s]) : s \in Slots}
WithinReach(ks) == {e \in Entries : \A k \in ks : table[k][e[1]].key = e[2]}
Usable == UNION {WithinReach(ks) : ks \in {Startable} \ {{}}}
Held == [x \in Values |-> IF stored[x] = None THEN None
                          ELSE <<stored[x].slot, stored[x].key>>]
Ring == INSTANCE KeyRing WITH
  issued <- Entries,
  usable <- Usable,
  held <- Held
ImplementsRing == Ring!Promise

(* While the server is up, the key it stamps audit rows with is at hand    *)
(* (key-management/spec.md:16: keys are unwrapped at the start and cached  *)
(* for as long as the server is unsealed).                                 *)
KeysAtHand ==
  \A i \in Instances : At(i, "up") => Cache(i, Current(i, "audit_integrity")) # 0
=============================================================================
