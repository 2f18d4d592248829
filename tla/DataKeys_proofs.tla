--------------------------- MODULE DataKeys_proofs --------------------------
(***************************************************************************)
(* Proofs about DataKeys: whatever processes do to the table, the server   *)
(* can be started, and the table implements a KeyRing.                     *)
(***************************************************************************)
EXTENDS DataKeys, TLAPS

-----------------------------------------------------------------------------
(* The inductive invariant.  Unless the table is empty one KEK is at home: *)
(* its rows are live, one for every slot ever seen, and no other's are.    *)
(* What is pending is pending under one KEK and a copy of those rows.      *)

Row == [form : Forms, active : BOOLEAN, key : Nat]
Proc == [at : {"down", "empty", "loaded", "up"}, kek : KEKs \cup {None},
         active : [Purposes -> 0..MaxVersion], keys : [Slots -> Nat]]
Clone(row) == [row EXCEPT !.form = IF @ = "live" THEN "pending" ELSE @]

Blank == \A k \in KEKs, s \in Slots : table[k][s].form = "none" => table[k][s] = NoRow

Once == \A s \in Slots :
  /\ minted[s] = IF Known(s) THEN 1 ELSE 0
  /\ \A k \in KEKs : table[k][s].key \in {0, 1}

(* The versions of a purpose are 1..v, and v is the one in use.            *)
Newest(h, p, v) == \A s \in Slots : s[1] = p =>
  /\ Known(s) <=> s[2] <= v
  /\ table[h][s].active <=> s[2] = v

Home(h) ==
  /\ \A s \in Slots : Known(s) => table[h][s].form = "live"
  /\ \A s \in Slots : table[h][s].active => table[h][s].key # 0
  /\ \A k \in KEKs \ {h}, s \in Slots : table[k][s].form # "live"
  /\ \A j, q \in Pending : j = q
  /\ \A k \in Pending, s \in Slots : table[k][s] = Clone(table[h][s])
  /\ \A p \in Purposes : \E v \in Versions : Newest(h, p, v)

Homely == ~Empty => \E h \in KEKs : Home(h)

(* The processes: what they hold in memory or stored was made.             *)
Running == \A i \in Instances :
  /\ inst[i].at # "down" => inst[i].kek \in KEKs
  /\ inst[i].at \in {"loaded", "up"}
       => ~Empty /\ \A p \in Purposes : inst[i].active[p] \in Versions

Made(s, key) == key = 1 /\ minted[s] = 1
CacheMade == \A i \in Instances, s \in Slots :
  inst[i].keys[s] # 0 => Made(s, inst[i].keys[s])
StoredMade == \A x \in Values : stored[x] # None => Made(stored[x].slot, stored[x].key)
FlightMade == \A x \in Values :
  inflight[x] # None => Made(inflight[x].slot, inflight[x].key)

KInv == /\ TypeOK /\ Blank /\ Once /\ Homely
        /\ Running /\ CacheMade /\ StoredMade /\ FlightMade

-----------------------------------------------------------------------------
(* Parts of TypeOK, one per variable, and what follows from them.          *)

TableType    == table \in [KEKs -> [Slots -> Row]]
RetiredType  == retired \in [KEKs -> [Slots -> {"none", "wrapped", "purged"}]]
InstType     == inst \in [Instances -> Proc]

LEMMA Init_KInv == Init => KInv
<1> SUFFICES ASSUME Init PROVE KInv  OBVIOUS
<1>1. TypeOK  BY KeysAssumption DEF Init, TypeOK, NoRow, Down, Forms
<1>2. \A s \in Slots : ~Known(s)  BY DEF Init, Known, Unretired, NoRow
<1>3. Empty  BY <1>2 DEF Empty
<1>4. Blank  BY DEF Init, Blank
<1>5. Once  BY <1>2 DEF Init, Once, NoRow
<1>6. Homely  BY <1>3 DEF Homely
<1>7. Running  BY DEF Init, Running, Down
<1>8. CacheMade /\ StoredMade /\ FlightMade
  BY DEF Init, CacheMade, StoredMade, FlightMade, Down
<1>9. QED  BY <1>1, <1>4, <1>5, <1>6, <1>7, <1>8 DEF KInv

(* What only the processes do leaves the table's part of it.               *)
LEMMA TableKept ==
  ASSUME KInv, UNCHANGED tableVars
  PROVE  /\ Blank' /\ Once' /\ Homely' /\ (Empty' <=> Empty)
         /\ \A s \in Slots : Known(s)' <=> Known(s)
         /\ \A h \in KEKs : Home(h) => Home(h)'
<1>1. table' = table /\ retired' = retired /\ minted' = minted  BY DEF tableVars
<1>2. \A s \in Slots : Known(s)' <=> Known(s)  BY <1>1 DEF Known, Unretired
<1>3. Empty' <=> Empty  BY <1>2 DEF Empty
<1>4. Blank'  BY <1>1 DEF KInv, Blank
<1>5. Once'  BY <1>1, <1>2 DEF KInv, Once
<1>6. ASSUME NEW h \in KEKs, Home(h) PROVE Home(h)'
  <2>1. Pending' = Pending  BY <1>1 DEF Pending
  <2>2. \A p \in Purposes, v \in Versions : Newest(h, p, v) => Newest(h, p, v)'
    BY <1>1, <1>2 DEF Newest
  <2>3. \A s \in Slots : Known(s)' => table'[h][s].form = "live"  BY <1>1, <1>2, <1>6 DEF Home
  <2>4. \A p \in Purposes : \E v \in Versions : Newest(h, p, v)'  BY <1>6, <2>2 DEF Home
  <2>5. QED  BY <1>1, <1>6, <2>1, <2>3, <2>4 DEF Home
<1>7. Homely'  BY <1>3, <1>6 DEF KInv, Homely
<1>8. QED  BY <1>2, <1>3, <1>4, <1>5, <1>6, <1>7

(* Where a process runs, some slot is known and one KEK is home.           *)
LEMMA HomeOf ==
  ASSUME KInv, NEW i \in Instances, inst[i].at \in {"loaded", "up"}
  PROVE  /\ inst[i].kek \in KEKs /\ ~Empty
         /\ \E h \in KEKs : Home(h)
         /\ \E s \in Slots : Known(s)
BY DEF KInv, Running, Homely, Empty

(* No live row of another: the process runs under the home.                *)
LEMMA NoBacklog ==
  ASSUME KInv, NEW i \in Instances, inst[i].at \in {"loaded", "up"},
         ~Backlog(inst[i].kek)
  PROVE  Home(inst[i].kek)
<1>1. PICK h \in KEKs : Home(h)  BY HomeOf
<1>2. PICK s \in Slots : Known(s)  BY HomeOf
<1>3. table[h][s].form = "live"  BY <1>1, <1>2 DEF Home
<1>4. h = inst[i].kek  BY <1>3 DEF Backlog
<1>5. QED  BY <1>1, <1>4

(* A slot is a purpose and a version.                                      *)
LEMMA SlotOf == \A p \in Purposes, v \in Versions : <<p, v>> \in Slots
BY DEF Slots

LEMMA PartsOf ==
  ASSUME NEW s \in Slots
  PROVE  s = <<s[1], s[2]>> /\ s[1] \in Purposes /\ s[2] \in Versions
BY DEF Slots

(* A slot that was never seen has no row.                                  *)
LEMMA KnownBy ==
  ASSUME NEW s \in Slots, NEW k \in KEKs, table[k][s].form # "none" \/ retired[k][s] # "none"
  PROVE  Known(s)
BY DEF Known, Unretired

LEMMA KnownSame ==
  ASSUME NEW s \in Slots,
         \A k \in KEKs : /\ table'[k][s].form = "none" <=> table[k][s].form = "none"
                         /\ retired'[k][s] = "none" <=> retired[k][s] = "none"
  PROVE  Known(s)' <=> Known(s)
BY DEF Known, Unretired

LEMMA Unseen_NoRow ==
  ASSUME Blank, NEW s \in Slots, ~Known(s), NEW k \in KEKs
  PROVE  table[k][s] = NoRow /\ retired[k][s] = "none"
BY DEF Blank, Known, Unretired

-----------------------------------------------------------------------------
(* The steps that change the table.                                        *)

(* The first keys: the process's own KEK becomes home.                     *)
LEMMA BootstrapTable ==
  ASSUME KInv, NEW i \in Instances, Bootstrap(i), NEW env \in KEKs, env = inst[i].kek
  PROVE  /\ Blank' /\ Once' /\ Home(env)'
         /\ \A s \in Slots : /\ Known(s)' <=> s[2] = 1
                             /\ minted'[s] = IF s[2] = 1 THEN 1 ELSE 0
                             /\ table'[env][s].key = minted'[s]
<1>1. env \in KEKs  OBVIOUS
<1>2. \A s \in Slots, k \in KEKs :
        ~Known(s) /\ table[k][s] = NoRow /\ retired[k][s] = "none" /\ minted[s] = 0
  BY Unseen_NoRow DEF KInv, Bootstrap, Empty, Once
<1>3. \A s \in Slots, k \in KEKs :
        table'[k][s] = IF k = env /\ s[2] = 1
                       THEN [form |-> "live", active |-> TRUE, key |-> 1] ELSE NoRow
  <2>1. table' = [table EXCEPT ![env] = [s \in Slots |-> FirstRow(s)]]  BY DEF Bootstrap
  <2>2. TableType  BY DEF KInv, TypeOK, TableType, Row
  <2>3. \A s \in Slots : FirstRow(s) = IF s[2] = 1
          THEN [form |-> "live", active |-> TRUE, key |-> 1] ELSE NoRow
    <3>1. \A s \in Slots : minted[s] + 1 = 1  BY <1>1, <1>2
    <3>2. QED  BY <3>1 DEF FirstRow
  <2>4. /\ table'[env] = [s \in Slots |-> FirstRow(s)]
        /\ \A k \in KEKs : k # env => table'[k] = table[k]
    BY <2>1, <2>2 DEF TableType
  <2>5. \A s \in Slots : table'[env][s] = FirstRow(s)  BY <2>4
  <2>6. \A s \in Slots, k \in KEKs : k # env => table'[k][s] = NoRow  BY <1>2, <2>4
  <2>7. QED  BY <2>3, <2>5, <2>6
<1>4. \A s \in Slots : minted'[s] = IF s[2] = 1 THEN 1 ELSE 0
  <2>1. minted' = [s \in Slots |-> IF s[2] = 1 THEN minted[s] + 1 ELSE minted[s]]
    BY DEF Bootstrap
  <2>2. \A s \in Slots : minted[s] = 0
    <3>1. \A s \in Slots : ~Known(s)  BY DEF Bootstrap, Empty
    <3>2. QED  BY <3>1 DEF KInv, Once
  <2>3. QED  BY <2>1, <2>2
<1>5. \A s \in Slots : Known(s)' <=> s[2] = 1
  BY <1>1, <1>2, <1>3 DEF Bootstrap, Known, Unretired, NoRow
<1>6. Blank'  BY <1>3 DEF Blank, NoRow
<1>7. Once'  BY <1>3, <1>4, <1>5 DEF Once, NoRow
<1>8. Home(env)'
  <2>1. Pending' = {}  BY <1>3 DEF Pending, NoRow
  <2>2. \A p \in Purposes : Newest(env, p, 1)'
    <3>1. SUFFICES ASSUME NEW s \in Slots
                   PROVE  /\ Known(s)' <=> s[2] <= 1
                          /\ table'[env][s].active <=> s[2] = 1
      BY DEF Newest
    <3>2. s[2] \in Nat /\ s[2] >= 1  BY PartsOf DEF Versions
    <3>3. table'[env][s].active <=> s[2] = 1  BY <1>1, <1>3 DEF NoRow
    <3>4. QED  BY <1>5, <3>2, <3>3
  <2>3. 1 \in Versions  BY KeysAssumption DEF Versions
  <2>4. QED  BY <1>1, <1>3, <1>5, <2>1, <2>2, <2>3 DEF Home, NoRow
<1>9. QED  BY <1>1, <1>3, <1>4, <1>5, <1>6, <1>7, <1>8 DEF NoRow

(* A rotation is made by a process under the home, and its version is new. *)
LEMMA BumpTable ==
  ASSUME KInv, NEW i \in Instances, NEW p \in Purposes, MayRotate(i, p), BumpActiveKey(i, p),
         NEW env \in KEKs, env = inst[i].kek,
         NEW a, a = inst[i].active[p], NEW new, new = <<p, a + 1>>
  PROVE  /\ Blank' /\ Once' /\ Home(env) /\ Home(env)'
         /\ new \in Slots /\ a \in Versions /\ ~Known(new)
         /\ \A s \in Slots :
              /\ Known(s)' <=> Known(s) \/ s = new
              /\ minted'[s] = IF s = new THEN 1 ELSE minted[s]
              /\ table'[env][s].key = IF s = new THEN 1 ELSE table[env][s].key
<1> DEFINE made == [form |-> "live", active |-> TRUE, key |-> 1]
<1>0. PICK old : old = <<p, a>>  OBVIOUS
<1>1. a \in Versions /\ Pending = {}
      /\ table[env][old].form = "live" /\ table[env][old].active
  BY <1>0 DEF KInv, Running, MayRotate, At, Fresh, LiveActive, Mine
<1>2. old \in Slots  BY <1>0, <1>1, SlotOf
<1>3. Home(env)
  <2>1. PICK h \in KEKs : Home(h)  BY HomeOf DEF MayRotate, At
  <2>2. QED  BY <1>1, <1>2, <2>1 DEF Home
<1>4. Newest(env, p, a)
  <2>1. PICK v \in Versions : Newest(env, p, v)  BY <1>3 DEF Home
  <2>2. old[1] = p /\ old[2] = a  BY <1>0
  <2>3. a = v  BY <1>1, <1>2, <2>1, <2>2 DEF Newest
  <2>4. QED  BY <2>1, <2>3
<1>5. new \in Slots /\ ~Known(new) /\ old # new /\ a + 1 \in Versions
  <2>1. new \in Slots /\ ~Unretired(env, new)  BY DEF BumpActiveKey
  <2>2. a + 1 \in Versions  BY <2>1 DEF Slots
  <2>3. ~Known(new)  BY <1>3, <2>1 DEF Home, Unretired
  <2>4. old # new  BY <1>0, <1>1 DEF Versions
  <2>5. QED  BY <2>1, <2>2, <2>3, <2>4
<1>6. minted[new] = 0 /\ minted \in [Slots -> Nat] /\ TableType
  BY <1>5 DEF KInv, Once, TypeOK, TableType, Row
<1>7. /\ table'[env][new] = [form |-> "live", active |-> TRUE, key |-> 1]
      /\ table'[env][old] = [table[env][old] EXCEPT !.active = FALSE]
      /\ \A s \in Slots : s # old /\ s # new => table'[env][s] = table[env][s]
      /\ \A k \in KEKs : k # env => table'[k] = table[k]
  <2>1. table' = [table EXCEPT ![env][new] = made, ![env][old].active = FALSE]
    BY <1>0, <1>6 DEF BumpActiveKey
  <2> HIDE DEF made
  <2>2. QED  BY <2>1, <1>1, <1>2, <1>5, <1>6 DEF TableType, made
<1>8. table[env][old] \in Row  BY <1>1, <1>2, <1>6 DEF TableType
<1>9. /\ table'[env][old].form = "live" /\ ~table'[env][old].active
      /\ table'[env][old].key = table[env][old].key
      /\ table'[env][new].form = "live" /\ table'[env][new].active
      /\ table'[env][new].key = 1
      /\ \A s \in Slots : s # old /\ s # new => table'[env][s] = table[env][s]
      /\ \A k \in KEKs : k # env => table'[k] = table[k]
  <2>1. table'[env][new] = made  BY <1>7
  <2>2. table'[env][new].form = "live" /\ table'[env][new].active /\ table'[env][new].key = 1
    BY <2>1
  <2>3. QED  BY <1>1, <1>7, <1>8, <2>2 DEF Row
<1>10. retired' = retired /\ \A s \in Slots : minted'[s] = IF s = new THEN 1 ELSE minted[s]
  BY <1>5, <1>6 DEF BumpActiveKey
<1>11. \A s \in Slots : Known(s)' <=> Known(s) \/ s = new
  <2>1. Known(new)'  BY <1>5, <1>9 DEF Known, Unretired
  <2>2. ASSUME NEW s \in Slots, s # new PROVE Known(s)' <=> Known(s)
    <3>1. \A k \in KEKs : table'[k][s].form = "none" <=> table[k][s].form = "none"
      BY <1>1, <1>9, <2>2
    <3>2. QED  BY <1>10, <3>1, KnownSame
  <2>3. QED  BY <2>1, <2>2
<1>12. Blank'  BY <1>9 DEF KInv, Blank
<1>13. Once'  BY <1>9, <1>10, <1>11, <1>2 DEF KInv, Once
<1>14. Home(env)'
  <2>1. \A k \in KEKs, s \in Slots : table'[k][s].form # "pending"
    BY <1>1, <1>9 DEF Pending
  <2>2. Pending' = {}  BY <2>1 DEF Pending
  <2>3. \A q \in Purposes : \E v \in Versions : Newest(env, q, v)'
    <3>1. SUFFICES ASSUME NEW q \in Purposes PROVE \E v \in Versions : Newest(env, q, v)'
      OBVIOUS
    <3>2. CASE q = p
      <4>1. Newest(env, p, a + 1)'
        <5>1. SUFFICES ASSUME NEW s \in Slots, s[1] = p
                       PROVE  /\ Known(s)' <=> s[2] <= a + 1
                              /\ table'[env][s].active <=> s[2] = a + 1
          BY DEF Newest
        <5>2. s[2] \in Nat /\ a \in Nat  BY <1>1, PartsOf DEF Versions
        <5>3. (s = old <=> s[2] = a) /\ (s = new <=> s[2] = a + 1)
          BY PartsOf, <5>1, <1>0
        <5>4. (Known(s) <=> s[2] <= a) /\ (table[env][s].active <=> s[2] = a)
          BY <1>4, <5>1 DEF Newest
        <5>5. Known(s)' <=> s[2] <= a + 1  BY <1>11, <5>2, <5>3, <5>4
        <5>6. table'[env][s].active <=> s[2] = a + 1
          BY <1>1, <1>9, <5>2, <5>3, <5>4
        <5>7. QED  BY <5>5, <5>6
      <4>2. QED  BY <1>5, <3>2, <4>1
    <3>3. CASE q # p
      <4>1. PICK v \in Versions : Newest(env, q, v)  BY <1>3 DEF Home
      <4>2. \A s \in Slots : s[1] = q => s # old /\ s # new  BY <3>3, <1>0
      <4>3. Newest(env, q, v)'  BY <1>9, <1>11, <4>1, <4>2 DEF Newest
      <4>4. QED  BY <4>3
    <3>4. QED  BY <3>2, <3>3
  <2>4. \A s \in Slots : /\ Known(s)' => table'[env][s].form = "live"
                         /\ table'[env][s].active => table'[env][s].key # 0
    BY <1>3, <1>9, <1>11 DEF Home
  <2>5. \A k \in KEKs \ {env}, s \in Slots : table'[k][s].form # "live"
    BY <1>3, <1>9 DEF Home
  <2>6. QED  BY <2>2, <2>3, <2>4, <2>5 DEF Home
<1>15. \A s \in Slots : table'[env][s].key = IF s = new THEN 1 ELSE table[env][s].key
  BY <1>9
<1>16. QED
  BY <1>1, <1>3, <1>5, <1>10, <1>11, <1>12, <1>13, <1>14, <1>15

(* The rows a rewrap makes are those of home, under another KEK.           *)
LEMMA RewrapTable ==
  ASSUME KInv, NEW i \in Instances, NEW k \in KEKs, RewrapKEK(i, k),
         NEW env \in KEKs, env = inst[i].kek
  PROVE  /\ Blank' /\ Once' /\ Home(env) /\ Home(env)'
         /\ table'[env] = table[env] /\ \A s \in Slots : Known(s)' <=> Known(s)
<1>1. inst[i].at = "up" /\ Pending = {} /\ k # env /\ ~Backlog(env) /\ Unseen(k)
      /\ retired' = retired /\ minted' = minted
  BY DEF RewrapKEK, At
<1>2. Home(env)  BY <1>1, NoBacklog
<1>3. table'[env] = table[env] /\ (\A j \in KEKs : j # k => table'[j] = table[j])
      /\ table'[k] = [s \in Slots |-> IF Unretired(env, s)
           THEN [form |-> "pending", active |-> table[env][s].active,
                 key |-> IF table[env][s].key = 0 THEN 0 ELSE Cache(i, s)]
           ELSE NoRow]
  BY <1>1 DEF RewrapKEK, KInv, TypeOK
<1>4. \A s \in Slots : table[env][s] \in Row /\ table[env][s].key \in {0, 1}
  BY DEF KInv, TypeOK, Row, Once
<1>5. \A s \in Slots : Unretired(env, s) => table'[k][s] =
        [form |-> "pending", active |-> table[env][s].active, key |-> table[env][s].key]
  <2>1. SUFFICES ASSUME NEW s \in Slots, table[env][s].key = 1 PROVE Cache(i, s) = 1
    BY <1>3, <1>4
  <2>2. Cache(i, s) # 0  BY <2>1 DEF RewrapKEK
  <2>3. QED  BY <2>2 DEF KInv, CacheMade, Made, Cache
<1>6. \A s \in Slots : Unretired(env, s) =>
        /\ table[env][s].form = "live" /\ table'[k][s] = Clone(table[env][s])
        /\ table'[k][s].form = "pending" /\ table'[k][s].key = table[env][s].key
  <2>1. SUFFICES ASSUME NEW s \in Slots, Unretired(env, s)
                 PROVE  /\ table[env][s].form = "live" /\ table'[k][s] = Clone(table[env][s])
                        /\ table'[k][s].form = "pending"
                        /\ table'[k][s].key = table[env][s].key
    OBVIOUS
  <2>2. table[env][s].form = "live"  BY <1>2, <2>1, KnownBy DEF Home, Unretired
  <2>3. table'[k][s] = [form |-> "pending", active |-> table[env][s].active,
                        key |-> table[env][s].key]
    BY <1>5, <2>1
  <2>4. Clone(table[env][s]) = [form |-> "pending", active |-> table[env][s].active,
                                key |-> table[env][s].key]
    BY <1>4, <2>2 DEF Clone, Row
  <2>5. QED  BY <2>2, <2>3, <2>4
<1>7. \A s \in Slots : ~Unretired(env, s) =>
        table'[k][s] = NoRow /\ table[env][s] = NoRow /\ table'[k][s] = Clone(table[env][s])
  BY <1>3 DEF KInv, Blank, Unretired, Clone, NoRow
<1>8. \A s \in Slots : Known(s)' <=> Known(s)
  <2>1. SUFFICES ASSUME NEW s \in Slots PROVE Known(s)' <=> Known(s)  OBVIOUS
  <2>2. CASE Unretired(env, s)
    BY <1>1, <1>3, <2>2 DEF Known, Unretired
  <2>3. CASE ~Unretired(env, s)
    <3>1. table'[k][s].form = "none"  BY <1>7, <2>3 DEF NoRow
    <3>2. table[k][s].form = "none"  BY <1>1 DEF Unseen, Unretired
    <3>3. QED  BY <1>1, <1>3, <3>1, <3>2, KnownSame
  <2>4. QED  BY <2>2, <2>3
<1>9. Blank'
  <2>1. \A s \in Slots : table'[k][s].form = "none" => table'[k][s] = NoRow
    BY <1>6, <1>7
  <2>2. QED  BY <1>3, <2>1 DEF KInv, Blank
<1>10. Once'
  <2>1. \A s \in Slots : table'[k][s].key \in {0, 1}  BY <1>4, <1>6, <1>7 DEF NoRow
  <2>2. \A j \in KEKs, s \in Slots : table'[j][s].key \in {0, 1}
    BY <1>3, <2>1 DEF KInv, Once
  <2>3. QED  BY <1>1, <1>8, <2>2 DEF KInv, Once
<1>11. Home(env)'
  <2>1. \A j \in KEKs, s \in Slots : j # k => table'[j][s].form # "pending"
    BY <1>1, <1>3 DEF Pending
  <2>2. \A j \in Pending' : j = k  BY <2>1 DEF Pending
  <2>3. \A s \in Slots : table'[k][s] = Clone(table'[env][s]) /\ table'[k][s].form # "live"
    BY <1>3, <1>6, <1>7 DEF NoRow
  <2>4. \A s \in Slots : /\ Known(s)' => table'[env][s].form = "live"
                         /\ table'[env][s].active => table'[env][s].key # 0
    BY <1>2, <1>3, <1>8 DEF Home
  <2>5. \A j \in KEKs \ {env}, s \in Slots : table'[j][s].form # "live"
    <3>1. \A j \in KEKs, s \in Slots : j # env => table[j][s].form # "live"
      BY <1>2 DEF Home
    <3>2. \A j \in KEKs : j # k => table'[j] = table[j]  BY <1>3
    <3>3. QED  BY <2>3, <3>1, <3>2
  <2>6. \A p \in Purposes : \E v \in Versions : Newest(env, p, v)'
    BY <1>2, <1>3, <1>8 DEF Home, Newest
  <2>7. \A j \in Pending', s \in Slots : table'[j][s] = Clone(table'[env][s])
    BY <2>2, <2>3
  <2>8. \A j, q \in Pending' : j = q  BY <2>2
  <2>9. QED  BY <2>4, <2>5, <2>6, <2>7, <2>8 DEF Home
<1>12. QED  BY <1>2, <1>3, <1>8, <1>9, <1>10, <1>11

(* What is pending is never home, and its rows are only copies.            *)
LEMMA AbandonTable ==
  ASSUME KInv, NEW i \in Instances, AbandonRewrap(i), NEW h \in KEKs, Home(h)
  PROVE  /\ Blank' /\ Once' /\ Home(h)' /\ table'[h] = table[h]
         /\ \A s \in Slots : Known(s)' <=> Known(s)
<1>1. minted' = minted /\ \A k \in KEKs, s \in Slots :
        /\ table'[k][s] = IF table[k][s].form = "pending" THEN NoRow ELSE table[k][s]
        /\ retired'[k][s] = IF table[k][s].form = "pending" THEN RetiresTo(k, s)
                            ELSE retired[k][s]
  BY DEF AbandonRewrap
<1>2. table' \in [KEKs -> [Slots -> {table'[k][s] : k \in KEKs, s \in Slots}]]
      /\ table \in [KEKs -> [Slots -> Row]]
  BY DEF AbandonRewrap, KInv, TypeOK, Row
<1>3. \A s \in Slots : table[h][s].form # "pending"
  <2>1. SUFFICES ASSUME NEW s \in Slots, table[h][s].form = "pending" PROVE FALSE  OBVIOUS
  <2>2. Known(s)  BY <2>1, KnownBy
  <2>3. QED  BY <2>1, <2>2 DEF Home
<1>4. table'[h] = table[h]
  <2>1. \A s \in Slots : table'[h][s] = table[h][s]  BY <1>1, <1>3
  <2>2. QED  BY <1>2, <2>1
<1>5. \A k \in KEKs, s \in Slots : RetiresTo(k, s) # "none"  BY DEF RetiresTo
<1>6. \A s \in Slots : Known(s)' <=> Known(s)
  <2>1. SUFFICES ASSUME NEW s \in Slots PROVE Known(s)' <=> Known(s)  OBVIOUS
  <2>2. CASE \E k \in KEKs : table[k][s].form = "pending"
    BY <1>1, <1>5, <2>2 DEF Known, Unretired
  <2>3. CASE \A k \in KEKs : table[k][s].form # "pending"
    BY <1>1, <2>3, KnownSame
  <2>4. QED  BY <2>2, <2>3
<1>7. Blank'  BY <1>1 DEF KInv, Blank, NoRow
<1>8. Once'
  <2>1. \A k \in KEKs, s \in Slots : table'[k][s].key \in {0, 1}
    BY <1>1 DEF KInv, Once, NoRow
  <2>2. QED  BY <1>1, <1>6, <2>1 DEF KInv, Once
<1>9. Home(h)'
  <2>1. \A k \in KEKs, s \in Slots : table'[k][s].form # "pending"  BY <1>1 DEF NoRow
  <2>2. Pending' = {}  BY <2>1 DEF Pending
  <2>3. \A k \in KEKs \ {h}, s \in Slots : table'[k][s].form # "live"
    BY <1>1 DEF Home, NoRow
  <2>4. \A p \in Purposes : \E v \in Versions : Newest(h, p, v)'
    BY <1>4, <1>6 DEF Home, Newest
  <2>5. QED  BY <1>4, <1>6, <2>2, <2>3, <2>4 DEF Home
<1>10. QED  BY <1>4, <1>6, <1>7, <1>8, <1>9

(* A settlement under home changes nothing.  Under another KEK its guard   *)
(* found a pending row for each live one: home moves to the copy.          *)
LEMMA SettleHere ==
  ASSUME KInv, NEW i \in Instances, FinalizeSwitch(i), Home(inst[i].kek)
  PROVE  table' = table /\ retired' = retired /\ minted' = minted
<1> DEFINE env == inst[i].kek
<1>1. env \in KEKs  BY HomeOf DEF FinalizeSwitch, At
<1>2. \A s \in Slots : table[env][s].form # "pending"
  <2>1. SUFFICES ASSUME NEW s \in Slots, table[env][s].form = "pending" PROVE FALSE  OBVIOUS
  <2>2. Known(s)  BY <1>1, <2>1, KnownBy
  <2>3. QED  BY <2>1, <2>2 DEF Home
<1>3. \A s \in Slots : Promoted(env, s) = table[env][s]
  <2>1. table[env] \in [Slots -> Row]  BY <1>1 DEF KInv, TypeOK, Row
  <2>2. QED  BY <1>2, <2>1 DEF Promoted, Row
<1>4. \A k \in KEKs, s \in Slots : k # env => table[k][s].form # "live"  BY DEF Home
<1> HIDE DEF env
<1>5. table' = [k \in KEKs |-> [s \in Slots |-> table[k][s]]]
  BY <1>3, <1>4 DEF FinalizeSwitch, Settle, env
<1>6. retired' = [k \in KEKs |-> [s \in Slots |-> retired[k][s]]]
  BY <1>4 DEF FinalizeSwitch, Settle, env
<1>7. table' = table  BY <1>5 DEF KInv, TypeOK
<1>8. retired' = retired  BY <1>6 DEF KInv, TypeOK
<1>9. QED  BY <1>7, <1>8 DEF FinalizeSwitch, Settle

LEMMA SettleThere ==
  ASSUME KInv, NEW i \in Instances, FinalizeSwitch(i),
         NEW env \in KEKs, env = inst[i].kek, NEW h \in KEKs, Home(h), h # env
  PROVE  /\ Blank' /\ Once' /\ Home(env)' /\ table'[env] = table[h]
         /\ minted' = minted /\ \A s \in Slots : Known(s)' <=> Known(s)
<1>1. minted' = minted /\ \A k \in KEKs, s \in Slots :
        /\ table'[k][s] = IF k = env THEN Promoted(k, s)
                          ELSE IF table[k][s].form = "live" THEN NoRow ELSE table[k][s]
        /\ retired'[k][s] = IF k # env /\ table[k][s].form = "live" THEN RetiresTo(k, s)
                            ELSE retired[k][s]
  BY DEF FinalizeSwitch, Settle
<1>2. table[h] \in [Slots -> Row] /\ table[env] \in [Slots -> Row]
      /\ table'[env] = [s \in Slots |-> Promoted(env, s)]
  BY DEF FinalizeSwitch, Settle, KInv, TypeOK, Row
<1>3. \A s \in Slots : table[h][s].form = "live" => table[env][s].form = "pending"
  <2>1. \A s \in Slots : table[h][s].form = "live" => Promoted(env, s).form = "live"
    BY DEF FinalizeSwitch
  <2>2. \A s \in Slots : table[env][s].form # "live"  BY DEF Home
  <2>3. \A s \in Slots : table[env][s].form # "pending"
                           => Promoted(env, s).form = table[env][s].form
    BY <1>2 DEF Promoted, Row
  <2>4. QED  BY <2>1, <2>2, <2>3
<1>4. env \in Pending
  <2>1. PICK s \in Slots : Known(s)  BY HomeOf DEF FinalizeSwitch, At
  <2>2. table[env][s].form = "pending"  BY <1>3, <2>1 DEF Home
  <2>3. QED  BY <2>2 DEF Pending
<1>5. \A s \in Slots : table[env][s] = Clone(table[h][s])  BY <1>4 DEF Home
<1>6. \A s \in Slots : table[h][s].form \in {"none", "live"}
  <2>1. SUFFICES ASSUME NEW s \in Slots, table[h][s].form # "none"
                 PROVE  table[h][s].form = "live"
    OBVIOUS
  <2>2. QED  BY <2>1, KnownBy DEF Home
<1>7. \A s \in Slots : Promoted(env, s) = table[h][s]
  <2>1. SUFFICES ASSUME NEW s \in Slots PROVE Promoted(env, s) = table[h][s]  OBVIOUS
  <2>2. table[h][s] \in Row /\ table[env][s] = Clone(table[h][s])  BY <1>2, <1>5
  <2>3. CASE table[h][s].form = "live"  BY <2>2, <2>3 DEF Promoted, Clone, Row
  <2>4. CASE table[h][s].form = "none"  BY <2>2, <2>4 DEF Promoted, Clone, Row
  <2>5. QED  BY <1>6, <2>3, <2>4
<1>8. table'[env] = table[h]
  <2>1. table'[env] = [s \in Slots |-> table[h][s]]  BY <1>2, <1>7
  <2>2. QED  BY <1>2, <2>1
<1>9. \A k \in KEKs, s \in Slots : k # env => table'[k][s] = NoRow
  <2>1. SUFFICES ASSUME NEW k \in KEKs, NEW s \in Slots, k # env PROVE table'[k][s] = NoRow
    OBVIOUS
  <2>2. table[k][s].form # "pending"  BY <1>4, <2>1 DEF Home, Pending
  <2>3. table[k][s] \in Row  BY DEF KInv, TypeOK, Row
  <2>4. table[k][s].form \in {"none", "live"}  BY <2>2, <2>3 DEF Row, Forms
  <2>5. table'[k][s] = IF table[k][s].form = "live" THEN NoRow ELSE table[k][s]
    BY <1>1, <2>1
  <2>6. QED  BY <2>4, <2>5 DEF KInv, Blank
<1>10. \A s \in Slots : Known(s)' <=> Known(s)
  <2>1. SUFFICES ASSUME NEW s \in Slots PROVE Known(s)' <=> Known(s)  OBVIOUS
  <2>2. CASE Known(s)
    <3>1. table'[env][s].form = "live"  BY <1>8, <2>2 DEF Home
    <3>2. QED  BY <2>2, <3>1 DEF Known, Unretired
  <2>3. CASE ~Known(s)
    <3>1. \A k \in KEKs : table[k][s] = NoRow /\ retired[k][s] = "none"
      BY <2>3, Unseen_NoRow DEF KInv
    <3>2. \A k \in KEKs : table'[k][s] = NoRow  BY <1>8, <1>9, <3>1
    <3>3. \A k \in KEKs : retired'[k][s] = "none"  BY <1>1, <3>1 DEF NoRow
    <3>4. QED  BY <2>3, <3>2, <3>3 DEF Known, Unretired, NoRow
  <2>4. QED  BY <2>2, <2>3
<1>11. Blank'
  <2>1. \A s \in Slots : table'[env][s].form = "none" => table'[env][s] = NoRow
    BY <1>8 DEF KInv, Blank
  <2>2. QED  BY <1>9, <2>1 DEF Blank
<1>12. Once'
  <2>1. \A s \in Slots : table'[env][s].key \in {0, 1}  BY <1>8 DEF KInv, Once
  <2>2. \A k \in KEKs, s \in Slots : k # env => table'[k][s].key = 0  BY <1>9 DEF NoRow
  <2>3. QED  BY <1>1, <1>10, <2>1, <2>2 DEF KInv, Once
<1>13. Home(env)'
  <2>1. \A k \in KEKs, s \in Slots : table'[k][s].form # "pending"
    BY <1>6, <1>8, <1>9 DEF NoRow
  <2>2. Pending' = {}  BY <2>1 DEF Pending
  <2>3. \A k \in KEKs \ {env}, s \in Slots : table'[k][s].form # "live"
    BY <1>9 DEF NoRow
  <2>4. \A p \in Purposes : \E v \in Versions : Newest(env, p, v)'
    BY <1>8, <1>10 DEF Home, Newest
  <2>5. \A s \in Slots : /\ Known(s)' => table'[env][s].form = "live"
                         /\ table'[env][s].active => table'[env][s].key # 0
    BY <1>8, <1>10 DEF Home
  <2>6. QED  BY <2>2, <2>3, <2>4, <2>5 DEF Home
<1>14. QED  BY <1>1, <1>8, <1>10, <1>11, <1>12, <1>13

(* A cleanup is made under home and takes keys of retired versions only.   *)
LEMMA PurgeTable ==
  ASSUME KInv, NEW i \in Instances, NEW env \in KEKs, env = inst[i].kek,
         NEW versions, versions \subseteq Retirable(env), Purge(i, versions)
  PROVE  /\ Blank' /\ Once' /\ Home(env) /\ Home(env)' /\ minted' = minted
         /\ \A s \in Slots :
              /\ Known(s)' <=> Known(s)
              /\ table'[env][s].key = IF s \in versions THEN 0 ELSE table[env][s].key
<1>1. inst[i].at = "up" /\ Pending = {} /\ ~Backlog(env) /\ minted' = minted
  BY DEF Purge, At
<1>2. Home(env)  BY <1>1, NoBacklog
<1>3. /\ \A s \in Slots : table'[env][s] = IF s \in versions
            THEN [table[env][s] EXCEPT !.key = 0] ELSE table[env][s]
      /\ \A k \in KEKs : k # env => table'[k] = table[k]
      /\ \A k \in KEKs, s \in Slots :
           retired'[k][s] = IF retired[k][s] = "wrapped" THEN "purged" ELSE retired[k][s]
  BY DEF Purge, KInv, TypeOK
<1>4. \A s \in Slots : table[env][s] \in Row  BY DEF KInv, TypeOK, Row
<1>5. \A s \in versions : s \in Slots /\ ~table[env][s].active
  BY DEF Retirable
<1>6. \A s \in Slots :
        /\ table'[env][s].form = table[env][s].form
        /\ table'[env][s].active <=> table[env][s].active
        /\ table'[env][s].key = IF s \in versions THEN 0 ELSE table[env][s].key
  BY <1>3, <1>4 DEF Row
<1>7. \A k \in KEKs, s \in Slots : table'[k][s].form = table[k][s].form  BY <1>3, <1>6
<1>8. \A s \in Slots : Known(s)' <=> Known(s)
  <2>1. SUFFICES ASSUME NEW s \in Slots PROVE Known(s)' <=> Known(s)  OBVIOUS
  <2>2. \A k \in KEKs : retired'[k][s] = "none" <=> retired[k][s] = "none"  BY <1>3
  <2>3. QED  BY <1>7, <2>2, KnownSame
<1>9. Blank'
  <2>1. \A s \in versions : table[env][s].form # "none"  BY DEF Retirable, Unretired
  <2>2. \A s \in Slots : table'[env][s].form = "none" => table'[env][s] = table[env][s]
    BY <1>3, <1>6, <2>1
  <2>3. QED  BY <1>3, <1>6, <2>2 DEF KInv, Blank
<1>10. Once'
  <2>1. \A k \in KEKs, s \in Slots : table'[k][s].key \in {0, 1}
    BY <1>3, <1>6 DEF KInv, Once
  <2>2. QED  BY <1>1, <1>8, <2>1 DEF KInv, Once
<1>11. Home(env)'
  <2>1. Pending' = {}  BY <1>1, <1>7 DEF Pending
  <2>2. \A s \in Slots : /\ Known(s)' => table'[env][s].form = "live"
                         /\ table'[env][s].active => table'[env][s].key # 0
    BY <1>2, <1>5, <1>6, <1>8 DEF Home
  <2>3. \A k \in KEKs \ {env}, s \in Slots : table'[k][s].form # "live"
    BY <1>2, <1>7 DEF Home
  <2>4. \A p \in Purposes : \E v \in Versions : Newest(env, p, v)'
    BY <1>2, <1>6, <1>8 DEF Home, Newest
  <2>5. QED  BY <2>1, <2>2, <2>3, <2>4 DEF Home
<1>12. QED  BY <1>1, <1>2, <1>6, <1>8, <1>9, <1>10, <1>11

-----------------------------------------------------------------------------
(* Types.                                                                  *)

LEMMA TypeUnfold ==
  TypeOK => /\ TableType /\ RetiredType /\ InstType
            /\ minted \in [Slots -> Nat] /\ loop \in [Instances -> 0..MaxVersion]
            /\ stored \in [Values -> Sealed \cup {None}]
            /\ inflight \in [Values -> [by : Instances, slot : Slots, key : Nat] \cup {None}]
BY DEF TypeOK, TableType, RetiredType, InstType, Row, Proc

LEMMA TypeFold ==
  ASSUME TableType', RetiredType', InstType', (minted \in [Slots -> Nat])',
         (loop \in [Instances -> 0..MaxVersion])',
         (stored \in [Values -> Sealed \cup {None}])',
         (inflight \in [Values -> [by : Instances, slot : Slots, key : Nat] \cup {None}])'
  PROVE  TypeOK'
BY DEF TypeOK, TableType, RetiredType, InstType, Row, Proc

LEMMA ProcUpdates ==
  ASSUME NEW r \in Proc
  PROVE  /\ \A keys \in [Slots -> Nat] : [r EXCEPT !.keys = keys] \in Proc
         /\ \A where \in {"down", "empty", "loaded", "up"} : [r EXCEPT !.at = where] \in Proc
         /\ \A act \in [Purposes -> 0..MaxVersion] : [r EXCEPT !.active = act] \in Proc
         /\ \A k \in KEKs : [r EXCEPT !.kek = k] \in Proc
         /\ r.keys \in [Slots -> Nat] /\ r.active \in [Purposes -> 0..MaxVersion]
BY DEF Proc

LEMMA DownProc == Down \in Proc /\ \A k \in KEKs : [Down EXCEPT !.at = "empty", !.kek = k] \in Proc
<1>1. 0 \in 0..MaxVersion /\ 0 \in Nat  BY KeysAssumption
<1>2. Down \in Proc  BY <1>1 DEF Down, Proc
<1>3. \A k \in KEKs : [Down EXCEPT !.at = "empty", !.kek = k] \in Proc
  BY <1>2 DEF Proc
<1>4. QED  BY <1>2, <1>3

LEMMA CurrentSlot ==
  ASSUME KInv, NEW i \in Instances, inst[i].at = "up", NEW p \in Purposes
  PROVE  Current(i, p) \in Slots /\ Current(i, p) = <<p, inst[i].active[p]>>
BY SlotOf DEF KInv, Running, Current

LEMMA PurposeOfValue == \A x \in Values : PurposeOf(x) \in Purposes
BY DEF PurposeOf, Purposes

LEMMA RetiresType ==
  ASSUME TypeOK, NEW k \in KEKs, NEW s \in Slots
  PROVE  RetiresTo(k, s) \in {"none", "wrapped", "purged"}
BY TypeUnfold DEF RetiresTo, RetiredType

LEMMA TypeStep ==
  ASSUME KInv, Next
  PROVE  TypeOK'
<1>1. TypeOK  BY DEF KInv
<1>2. ASSUME NEW i \in Instances, NEW k \in KEKs, StartEmpty(i, k) PROVE TypeOK'
  <2>1. InstType'  BY <1>1, <1>2, DownProc, TypeUnfold DEF StartEmpty, InstType
  <2>2. QED
    BY <1>1, <1>2, <2>1, TypeUnfold, TypeFold DEF StartEmpty, tableVars, TableType, RetiredType
<1>3. ASSUME NEW i \in Instances, NEW k \in KEKs, Load(i, k) PROVE TypeOK'
  <2>1. \A p \in Purposes : (CHOOSE v \in Versions : v \in ActiveOf(k, p)) \in 0..MaxVersion
    <3>1. \A p \in Purposes : \E v \in Versions : v \in ActiveOf(k, p)
      BY <1>3 DEF Load, Startable, Starts
    <3>2. Versions \subseteq 0..MaxVersion  BY KeysAssumption DEF Versions
    <3>3. QED  BY <3>1, <3>2
  <2>2. \A s \in Slots : table[k][s].key \in Nat  BY <1>1, TypeUnfold DEF TableType, Row
  <2>3. InstType'  BY <1>1, <1>3, <2>1, <2>2, TypeUnfold DEF Load, InstType, Proc
  <2>4. QED  BY <1>1, <1>3, <2>3, TypeUnfold, TypeFold DEF Load, tableVars, TableType, RetiredType
<1>4. ASSUME NEW i \in Instances, NEW k \in KEKs, RewrapKEK(i, k) PROVE TypeOK'
  <2>1. inst[i].kek \in KEKs  BY <1>4 DEF RewrapKEK, At, KInv, Running
  <2>2. \A s \in Slots : Cache(i, s) \in Nat  BY <1>1, TypeUnfold DEF InstType, Proc, Cache
  <2>3. \A s \in Slots : table[inst[i].kek][s].active \in BOOLEAN
    BY <1>1, <2>1, TypeUnfold DEF TableType, Row
  <2>4. NoRow \in Row  BY DEF NoRow, Row, Forms
  <2>5. [s \in Slots |-> IF Unretired(inst[i].kek, s)
           THEN [form |-> "pending", active |-> table[inst[i].kek][s].active,
                 key |-> IF table[inst[i].kek][s].key = 0 THEN 0 ELSE Cache(i, s)]
           ELSE NoRow] \in [Slots -> Row]
    BY <2>2, <2>3, <2>4 DEF Row, Forms
  <2>6. TableType'  BY <1>1, <1>4, <2>5, TypeUnfold DEF RewrapKEK, TableType
  <2>7. QED  BY <1>1, <1>4, <2>6, TypeUnfold, TypeFold DEF RewrapKEK, RetiredType, InstType
<1>5. ASSUME NEW i \in Instances, Bootstrap(i) PROVE TypeOK'
  <2>1. \A s \in Slots : FirstRow(s) \in Row /\ FirstRow(s).key \in Nat
    BY <1>1, TypeUnfold DEF FirstRow, Row, Forms, NoRow
  <2>2. TableType'  BY <1>1, <1>5, <2>1, TypeUnfold DEF Bootstrap, TableType
  <2>3. (minted \in [Slots -> Nat])'  BY <1>1, <1>5, TypeUnfold DEF Bootstrap
  <2>4. InstType'
    <3>1. 1 \in 0..MaxVersion  BY KeysAssumption
    <3>2. [s \in Slots |-> FirstRow(s).key] \in [Slots -> Nat]
          /\ [p \in Purposes |-> 1] \in [Purposes -> 0..MaxVersion]
      BY <2>1, <3>1
    <3>3. PICK keys : keys = [s \in Slots |-> FirstRow(s).key]  OBVIOUS
    <3>4. PICK act : act = [p \in Purposes |-> 1]  OBVIOUS
    <3>5. inst' = [inst EXCEPT ![i].at = "up", ![i].active = act, ![i].keys = keys]
      BY <1>5, <3>3, <3>4 DEF Bootstrap
    <3>6. QED  BY <1>1, <3>2, <3>3, <3>4, <3>5, ProcUpdates, TypeUnfold DEF InstType
  <2>5. QED  BY <1>1, <1>5, <2>2, <2>3, <2>4, TypeUnfold, TypeFold DEF Bootstrap, RetiredType
<1>6. ASSUME NEW i \in Instances, BootstrapLost(i) PROVE TypeOK'
  <2>1. InstType'  BY <1>1, <1>6, DownProc, TypeUnfold DEF BootstrapLost, InstType
  <2>2. QED
    BY <1>1, <1>6, <2>1, TypeUnfold, TypeFold DEF BootstrapLost, tableVars, TableType, RetiredType
<1>7. ASSUME NEW i \in Instances, FinalizeSwitch(i) PROVE TypeOK'
  <2>1. \A s \in Slots, k \in KEKs : Promoted(k, s) \in Row /\ NoRow \in Row
    BY <1>1, TypeUnfold DEF Promoted, TableType, Row, Forms, NoRow
  <2>2. TableType'  BY <1>1, <1>7, <2>1, TypeUnfold DEF FinalizeSwitch, Settle, TableType
  <2>3. RetiredType'
    BY <1>1, <1>7, RetiresType, TypeUnfold DEF FinalizeSwitch, Settle, RetiredType
  <2>4. InstType'
    BY <1>1, <1>7, ProcUpdates, TypeUnfold DEF FinalizeSwitch, Settle, SetAt, InstType
  <2>5. QED  BY <1>1, <1>7, <2>2, <2>3, <2>4, TypeUnfold, TypeFold DEF FinalizeSwitch, Settle
<1>8. ASSUME NEW i \in Instances, FinalizeSkipped(i) PROVE TypeOK'
  BY <1>1, <1>8, ProcUpdates, TypeUnfold, TypeFold
  DEF FinalizeSkipped, SetAt, tableVars, TableType, RetiredType, InstType
<1>9. ASSUME NEW i \in Instances, Stop(i) PROVE TypeOK'
  <2>1. InstType'  BY <1>1, <1>9, DownProc, TypeUnfold DEF Stop, InstType
  <2>2. 0 \in 0..MaxVersion  BY KeysAssumption
  <2>3. QED
    BY <1>1, <1>9, <2>1, <2>2, TypeUnfold, TypeFold DEF Stop, tableVars, TableType, RetiredType
<1>10. ASSUME NEW i \in Instances, AbandonRewrap(i) PROVE TypeOK'
  <2>1. TableType'
    BY <1>1, <1>10, TypeUnfold DEF AbandonRewrap, TableType, Row, Forms, NoRow
  <2>2. RetiredType'  BY <1>1, <1>10, RetiresType, TypeUnfold DEF AbandonRewrap, RetiredType
  <2>3. QED  BY <1>1, <1>10, <2>1, <2>2, TypeUnfold, TypeFold DEF AbandonRewrap, InstType
<1>11. ASSUME NEW i \in Instances, NEW p \in Purposes, BumpActiveKey(i, p)
       PROVE  TableType' /\ RetiredType' /\ InstType' /\ (minted \in [Slots -> Nat])'
              /\ inst[i].active[p] + 1 \in Versions
  <2>1. PICK a : a = inst[i].active[p]  OBVIOUS
  <2>2. PICK new : new = <<p, a + 1>>  OBVIOUS
  <2>3. PICK old : old = <<p, a>>  OBVIOUS
  <2>4. new \in Slots /\ a + 1 \in Versions /\ a + 1 \in 0..MaxVersion
    <3>1. new \in Slots  BY <1>11, <2>1, <2>2 DEF BumpActiveKey
    <3>2. QED  BY <2>2, <3>1, KeysAssumption DEF Slots, Versions
  <2>5. TableType'
    <3>1. table' = [table EXCEPT
            ![inst[i].kek][new] = [form |-> "live", active |-> TRUE, key |-> minted[new] + 1],
            ![inst[i].kek][old].active = FALSE]
      BY <1>11, <2>1, <2>2, <2>3 DEF BumpActiveKey
    <3>2. [form |-> "live", active |-> TRUE, key |-> minted[new] + 1] \in Row
      BY <1>1, <2>4, TypeUnfold DEF Row, Forms
    <3>3. \A r \in Row : [r EXCEPT !.active = FALSE] \in Row  BY DEF Row
    <3>4. QED  BY <1>1, <3>1, <3>2, <3>3, TypeUnfold DEF TableType
  <2>6. inst' = [inst EXCEPT ![i].active[p] = @ + 1, ![i].keys[new] = minted[new] + 1]
    BY <1>11, <2>1, <2>2 DEF BumpActiveKey
  <2>7. InstType'
    <3>1. inst[i] \in Proc /\ minted[new] + 1 \in Nat  BY <1>1, <2>4, TypeUnfold DEF InstType
    <3>2. [inst[i].active EXCEPT ![p] = @ + 1] \in [Purposes -> 0..MaxVersion]
          /\ [inst[i].keys EXCEPT ![new] = minted[new] + 1] \in [Slots -> Nat]
      BY <2>1, <2>4, <3>1 DEF Proc
    <3>3. [inst[i] EXCEPT !.active[p] = @ + 1, !.keys[new] = minted[new] + 1] \in Proc
      BY <3>1, <3>2 DEF Proc
    <3>4. inst' = [inst EXCEPT ![i] =
            [inst[i] EXCEPT !.active[p] = @ + 1, !.keys[new] = minted[new] + 1]]
      BY <1>1, <2>6, TypeUnfold DEF InstType, Proc
    <3>5. QED  BY <1>1, <3>3, <3>4, TypeUnfold DEF InstType
  <2>8. (minted \in [Slots -> Nat])'  BY <1>1, <1>11, TypeUnfold DEF BumpActiveKey
  <2>9. RetiredType'  BY <1>1, <1>11, TypeUnfold DEF BumpActiveKey, RetiredType
  <2>10. QED  BY <2>1, <2>4, <2>5, <2>7, <2>8, <2>9
<1>12. "data" \in Purposes /\ "audit_integrity" \in Purposes  BY DEF Purposes
<1>13. ASSUME NEW i \in Instances, RotateDataDEK(i) PROVE TypeOK'
  <2>1. loop' = [loop EXCEPT ![i] = inst[i].active["data"] + 1]  BY <1>13 DEF RotateDataDEK
  <2>2. inst[i].active["data"] + 1 \in 0..MaxVersion
    BY <1>11, <1>12, <1>13, KeysAssumption DEF RotateDataDEK, Versions
  <2>3. (loop \in [Instances -> 0..MaxVersion])'  BY <1>1, <2>1, <2>2, TypeUnfold
  <2>4. QED
    BY <1>1, <1>11, <1>12, <1>13, <2>3, TypeUnfold, TypeFold DEF RotateDataDEK, BumpActiveKey
<1>14. ASSUME NEW i \in Instances, ResumeRotation(i) PROVE TypeOK'
  <2>1. inst[i].active["data"] \in 0..MaxVersion  BY <1>1, <1>12, TypeUnfold DEF InstType, Proc
  <2>2. QED
    BY <1>1, <1>14, <2>1, TypeUnfold, TypeFold
    DEF ResumeRotation, tableVars, TableType, RetiredType, InstType
<1>15. ASSUME NEW i \in Instances, RotateAuditKey(i) PROVE TypeOK'
  BY <1>1, <1>11, <1>12, <1>15, TypeUnfold, TypeFold DEF RotateAuditKey, BumpActiveKey
<1>16. ASSUME NEW i \in Instances, ReencryptEnds(i) PROVE TypeOK'
  <2>1. 0 \in 0..MaxVersion  BY KeysAssumption
  <2>2. QED
    BY <1>1, <1>16, <2>1, TypeUnfold, TypeFold
    DEF ReencryptEnds, tableVars, TableType, RetiredType, InstType
<1>17. ASSUME NEW i \in Instances, CleanupRetiredMaterial(i) PROVE TypeOK'
  <2>1. PICK versions : Purge(i, versions)  BY <1>17 DEF CleanupRetiredMaterial
  <2>2. inst[i].kek \in KEKs  BY <2>1 DEF Purge, At, KInv, Running
  <2>3. \A r \in Row : [r EXCEPT !.key = 0] \in Row  BY DEF Row
  <2>4. TableType'  BY <1>1, <2>1, <2>2, <2>3, TypeUnfold DEF Purge, TableType
  <2>5. RetiredType'  BY <1>1, <2>1, TypeUnfold DEF Purge, RetiredType
  <2>6. InstType'
    <3>1. PICK keys : keys = [s \in Slots |->
            IF s \in versions \/ <<inst[i].kek, s>> \in Copies THEN 0 ELSE inst[i].keys[s]]
      OBVIOUS
    <3>2. inst' = [inst EXCEPT ![i].keys = keys]  BY <2>1, <3>1 DEF Purge
    <3>3. keys \in [Slots -> Nat]  BY <1>1, <3>1, TypeUnfold DEF InstType, Proc
    <3>4. QED  BY <1>1, <3>2, <3>3, ProcUpdates, TypeUnfold DEF InstType
  <2>7. QED  BY <1>1, <2>1, <2>4, <2>5, <2>6, TypeUnfold, TypeFold DEF Purge
<1>18. ASSUME NEW i \in Instances, NEW s \in Slots, Refetch(i, s) PROVE TypeOK'
  <2>1. inst[i].kek \in KEKs  BY <1>18 DEF Refetch, At, KInv, Running
  <2>2. table[inst[i].kek][s].key \in Nat  BY <1>1, <2>1, TypeUnfold DEF TableType, Row
  <2>3. InstType'
    <3>1. inst' = [inst EXCEPT ![i].keys =
            [inst[i].keys EXCEPT ![s] = table[inst[i].kek][s].key]]
      BY <1>18 DEF Refetch, Mine
    <3>2. [inst[i].keys EXCEPT ![s] = table[inst[i].kek][s].key] \in [Slots -> Nat]
      BY <1>1, <2>2, TypeUnfold DEF InstType, Proc
    <3>3. QED  BY <1>1, <3>1, <3>2, ProcUpdates, TypeUnfold DEF InstType
  <2>4. QED
    BY <1>1, <1>18, <2>3, TypeUnfold, TypeFold DEF Refetch, tableVars, TableType, RetiredType
<1>19. ASSUME NEW i \in Instances, NEW x \in Values, Encrypt(i, x) PROVE TypeOK'
  <2>1. PICK s \in Slots : s = Current(i, PurposeOf(x))
    BY <1>19, CurrentSlot, PurposeOfValue DEF Encrypt, At
  <2>2. inflight' = [inflight EXCEPT ![x] = [by |-> i, slot |-> s, key |-> Cache(i, s)]]
    BY <1>19, <2>1 DEF Encrypt
  <2>3. Cache(i, s) \in Nat  BY <1>1, TypeUnfold DEF InstType, Proc, Cache
  <2>4. QED
    BY <1>1, <1>19, <2>2, <2>3, TypeUnfold, TypeFold
    DEF Encrypt, tableVars, TableType, RetiredType, InstType
<1>20. ASSUME NEW i \in Instances, NEW x \in Values, Reencrypt(i, x) PROVE TypeOK'
  <2>1. PICK s \in Slots : s = Current(i, "data")
    BY <1>12, <1>20, CurrentSlot DEF Reencrypt, At
  <2>2. stored' = [stored EXCEPT ![x] = [slot |-> s, key |-> Cache(i, s)]]
    BY <1>20, <2>1 DEF Reencrypt
  <2>3. Cache(i, s) \in Nat  BY <1>1, TypeUnfold DEF InstType, Proc, Cache
  <2>4. QED
    BY <1>1, <1>20, <2>2, <2>3, TypeUnfold, TypeFold
    DEF Reencrypt, Sealed, tableVars, TableType, RetiredType, InstType
<1>21. ASSUME NEW x \in Values, Store(x) PROVE TypeOK'
  BY <1>1, <1>21, TypeUnfold, TypeFold
  DEF Store, Sealed, tableVars, TableType, RetiredType, InstType
<1>22. QED
  BY <1>2, <1>3, <1>4, <1>5, <1>6, <1>7, <1>8, <1>9, <1>10, <1>13, <1>14, <1>15, <1>16,
     <1>17, <1>18, <1>19, <1>20, <1>21 DEF Next

-----------------------------------------------------------------------------
(* The rest of the invariant, step by step.                                *)

(* What was made stays made, and a table once filled stays so.             *)
Grows == \A s \in Slots : (minted[s] = 1 => minted'[s] = 1) /\ (Known(s) => Known(s)')

LEMMA ProcsKept ==
  ASSUME KInv, Grows
  PROVE  /\ ~Empty => ~Empty'
         /\ inst' = inst => Running' /\ CacheMade'
         /\ stored' = stored => StoredMade'
         /\ inflight' = inflight => FlightMade'
<1>1. ~Empty => ~Empty'  BY DEF Grows, Empty
<1>2. ASSUME inst' = inst PROVE Running' /\ CacheMade'
  BY <1>1, <1>2 DEF Grows, KInv, Running, CacheMade, Made
<1>3. ASSUME stored' = stored PROVE StoredMade'
  <2>1. \A x \in Values : stored[x] # None => stored[x].slot \in Slots
    BY TypeUnfold DEF KInv, Sealed
  <2>2. QED  BY <1>3, <2>1 DEF Grows, KInv, StoredMade, Made
<1>4. ASSUME inflight' = inflight PROVE FlightMade'
  <2>1. \A x \in Values : inflight[x] # None => inflight[x].slot \in Slots
    BY TypeUnfold DEF KInv
  <2>2. QED  BY <1>4, <2>1 DEF Grows, KInv, FlightMade, Made
<1>5. QED  BY <1>1, <1>2, <1>3, <1>4

LEMMA QuietGrows ==
  ASSUME KInv, UNCHANGED tableVars
  PROVE  Grows
<1>1. table' = table /\ retired' = retired /\ minted' = minted  BY DEF tableVars
<1>2. QED  BY <1>1 DEF Grows, Known, Unretired

(* One process at a time.                                                  *)
LEMMA ProcSet ==
  ASSUME KInv, Grows, NEW i \in Instances, NEW r \in Proc, inst' = [inst EXCEPT ![i] = r],
         r.at # "down" => r.kek \in KEKs,
         r.at \in {"loaded", "up"}
           => ~Empty' /\ \A p \in Purposes : r.active[p] \in Versions,
         \A s \in Slots : r.keys[s] # 0 => r.keys[s] = 1 /\ minted'[s] = 1
  PROVE  Running' /\ CacheMade'
<1>1. Running /\ CacheMade /\ InstType  BY TypeUnfold DEF KInv
<1>2. \A j \in Instances : inst'[j] = IF j = i THEN r ELSE inst[j]  BY <1>1 DEF InstType
<1>3. ~Empty => ~Empty'  BY ProcsKept
<1>4. Running'  BY <1>1, <1>2, <1>3 DEF Running
<1>5. CacheMade'  BY <1>1, <1>2 DEF CacheMade, Made, Grows
<1>6. QED  BY <1>4, <1>5

LEMMA ProcMoves ==
  ASSUME KInv, Grows, NEW i \in Instances, inst' = [inst EXCEPT ![i].at = "up"],
         inst[i].at \in {"loaded", "up"}
  PROVE  Running' /\ CacheMade'
<1>1. inst[i] \in Proc  BY TypeUnfold DEF KInv, InstType
<1>2. PICK r \in Proc : r = [inst[i] EXCEPT !.at = "up"]  BY <1>1, ProcUpdates
<1>3. inst' = [inst EXCEPT ![i] = r]  BY <1>2, TypeUnfold DEF KInv, InstType
<1>4. r.at = "up" /\ r.kek = inst[i].kek /\ r.active = inst[i].active
      /\ r.keys = inst[i].keys
  BY <1>1, <1>2 DEF Proc
<1>5. ~Empty /\ ~Empty'  BY ProcsKept DEF KInv, Running
<1>6. \A s \in Slots : inst[i].keys[s] # 0 => inst[i].keys[s] = 1 /\ minted'[s] = 1
  BY DEF KInv, CacheMade, Made, Grows
<1>7. r.kek \in KEKs /\ \A p \in Purposes : r.active[p] \in Versions
  BY <1>4 DEF KInv, Running
<1>8. \A s \in Slots : r.keys[s] # 0 => r.keys[s] = 1 /\ minted'[s] = 1  BY <1>4, <1>6
<1>9. r.at # "down" => r.kek \in KEKs  BY <1>7
<1>10. r.at \in {"loaded", "up"} => ~Empty' /\ \A p \in Purposes : r.active[p] \in Versions
  BY <1>5, <1>7
<1>11. QED  BY <1>3, <1>8, <1>9, <1>10, ProcSet

LEMMA ProcEnds ==
  ASSUME KInv, Grows, NEW i \in Instances, inst' = [inst EXCEPT ![i] = Down]
  PROVE  Running' /\ CacheMade'
<1>1. Down \in Proc /\ Down.at = "down" /\ \A s \in Slots : Down.keys[s] = 0
  BY DownProc DEF Down
<1>2. QED  BY <1>1, ProcSet

(* A key in the table was made.                                            *)
LEMMA TableMade ==
  ASSUME KInv, NEW k \in KEKs, NEW s \in Slots, table[k][s].key # 0
  PROVE  Made(s, table[k][s].key)
<1>1. table[k][s].key = 1  BY DEF KInv, Once
<1>2. table[k][s].form # "none"  BY <1>1 DEF KInv, Blank, NoRow
<1>3. Known(s)  BY <1>2, KnownBy
<1>4. QED  BY <1>1, <1>3 DEF KInv, Once, Made

(* The steps that leave the table alone.                                   *)
QuietStep ==
  \/ \E i \in Instances :
       \/ \E k \in KEKs : StartEmpty(i, k) \/ Load(i, k)
       \/ BootstrapLost(i) \/ FinalizeSkipped(i) \/ Stop(i)
       \/ ResumeRotation(i) \/ ReencryptEnds(i)
       \/ \E s \in Slots : Refetch(i, s)
       \/ \E x \in Values : Encrypt(i, x) \/ Reencrypt(i, x)
  \/ \E x \in Values : Store(x)

LEMMA QuietTable == QuietStep => UNCHANGED tableVars
BY DEF QuietStep, StartEmpty, Load, BootstrapLost, FinalizeSkipped, Stop, ResumeRotation,
       ReencryptEnds, Refetch, Encrypt, Reencrypt, Store

LEMMA ProcessStep ==
  ASSUME KInv, QuietStep
  PROVE  Running' /\ CacheMade' /\ StoredMade' /\ FlightMade'
<1>1. minted' = minted /\ Grows /\ (~Empty => ~Empty')
  BY QuietTable, QuietGrows, ProcsKept DEF tableVars
<1>2. ASSUME inst' = inst, stored' = stored, inflight' = inflight
      PROVE  Running' /\ CacheMade' /\ StoredMade' /\ FlightMade'
  BY <1>1, <1>2, ProcsKept
<1>3. Running /\ CacheMade /\ StoredMade /\ FlightMade /\ InstType  BY TypeUnfold DEF KInv
<1>6. ASSUME NEW i \in Instances, NEW k \in KEKs, StartEmpty(i, k)
      PROVE  Running' /\ CacheMade' /\ StoredMade' /\ FlightMade'
  <2>1. PICK r \in Proc : r = [Down EXCEPT !.at = "empty", !.kek = k]  BY DownProc
  <2>2. r.at = "empty" /\ r.kek = k /\ \A s \in Slots : r.keys[s] = 0  BY <2>1 DEF Down
  <2>3. inst' = [inst EXCEPT ![i] = r]  BY <1>6, <2>1 DEF StartEmpty
  <2>4. Running' /\ CacheMade'  BY <1>1, <2>2, <2>3, ProcSet
  <2>5. QED  BY <1>6, <2>4, <1>1, ProcsKept DEF StartEmpty
<1>7. ASSUME NEW i \in Instances, NEW k \in KEKs, Load(i, k)
      PROVE  Running' /\ CacheMade' /\ StoredMade' /\ FlightMade'
  <2>1. PICK r : r = [at |-> "loaded", kek |-> k,
          active |-> [p \in Purposes |-> CHOOSE v \in Versions : v \in ActiveOf(k, p)],
          keys |-> [s \in Slots |-> table[k][s].key]]
    OBVIOUS
  <2>2. inst' = [inst EXCEPT ![i] = r]  BY <1>7, <2>1 DEF Load
  <2>3. \A p \in Purposes : r.active[p] \in Versions /\ r.active[p] \in ActiveOf(k, p)
    BY <1>7, <2>1 DEF Load, Startable, Starts
  <2>4. r.at = "loaded" /\ r.kek = k /\ \A s \in Slots : r.keys[s] = table[k][s].key
    BY <2>1
  <2>5. ~Empty
    <3>1. PICK p \in Purposes : TRUE  BY DEF Purposes
    <3>2. PICK v \in Versions : v \in ActiveOf(k, p)  BY <2>3, <3>1
    <3>3. <<p, v>> \in Slots /\ Unretired(k, <<p, v>>)  BY <3>2, SlotOf DEF ActiveOf
    <3>4. QED  BY <3>3 DEF Empty, Known
  <2>6. \A s \in Slots : r.keys[s] # 0 => Made(s, r.keys[s])  BY <2>4, TableMade
  <2>7. r \in Proc
    <3>1. Versions \subseteq 0..MaxVersion  BY KeysAssumption DEF Versions
    <3>2. \A s \in Slots : table[k][s].key \in Nat  BY TypeUnfold DEF KInv, TableType, Row
    <3>3. [p \in Purposes |-> CHOOSE v \in Versions : v \in ActiveOf(k, p)]
            \in [Purposes -> 0..MaxVersion]
      BY <2>1, <2>3, <3>1
    <3>4. QED  BY <2>1, <3>2, <3>3 DEF Proc
  <2>8. Running' /\ CacheMade'
    BY <1>1, <2>2, <2>3, <2>4, <2>5, <2>6, <2>7, ProcSet DEF Made
  <2>9. QED  BY <1>7, <2>8, <1>1, ProcsKept DEF Load
<1>9. ASSUME NEW i \in Instances, BootstrapLost(i)
      PROVE  Running' /\ CacheMade' /\ StoredMade' /\ FlightMade'
  BY <1>1, <1>9, ProcEnds, ProcsKept DEF BootstrapLost
<1>10. ASSUME NEW i \in Instances, FinalizeSkipped(i)
       PROVE  Running' /\ CacheMade' /\ StoredMade' /\ FlightMade'
  <2>1. inst' = [inst EXCEPT ![i].at = "up"] /\ inst[i].at = "loaded"
        /\ stored' = stored /\ inflight' = inflight
    BY <1>10 DEF FinalizeSkipped, SetAt, At
  <2>2. Running' /\ CacheMade'  BY <1>1, <2>1, ProcMoves
  <2>3. QED  BY <1>1, <2>1, <2>2, ProcsKept
<1>11. ASSUME NEW i \in Instances, Stop(i)
       PROVE  Running' /\ CacheMade' /\ StoredMade' /\ FlightMade'
  <2>1. Running' /\ CacheMade'  BY <1>1, <1>11, ProcEnds DEF Stop
  <2>2. \A x \in Values : inflight'[x] # None => inflight'[x] = inflight[x]
    BY <1>11 DEF Stop
  <2>3. FlightMade'  BY <1>1, <1>3, <2>2 DEF FlightMade, Made
  <2>4. QED  BY <1>11, <2>1, <2>3, <1>1, ProcsKept DEF Stop
<1>12. ASSUME NEW i \in Instances, ResumeRotation(i) \/ ReencryptEnds(i)
       PROVE  Running' /\ CacheMade' /\ StoredMade' /\ FlightMade'
  BY <1>2, <1>12 DEF ResumeRotation, ReencryptEnds
<1>13. ASSUME NEW i \in Instances, NEW s \in Slots, Refetch(i, s)
       PROVE  Running' /\ CacheMade' /\ StoredMade' /\ FlightMade'
  <2>1. inst[i].at = "up" /\ inst[i].kek \in KEKs /\ table[inst[i].kek][s].key # 0
    BY <1>3, <1>13 DEF Refetch, At, Running, Mine
  <2>2. Made(s, table[inst[i].kek][s].key)  BY <2>1, TableMade
  <2>3. PICK keys : keys = [inst[i].keys EXCEPT ![s] = table[inst[i].kek][s].key]  OBVIOUS
  <2>4. inst[i] \in Proc  BY <1>3 DEF InstType
  <2>5. keys \in [Slots -> Nat]
        /\ \A t \in Slots : keys[t] = IF t = s THEN table[inst[i].kek][s].key ELSE inst[i].keys[t]
    BY <2>2, <2>3, <2>4 DEF Proc, Made
  <2>6. PICK r \in Proc : r = [inst[i] EXCEPT !.keys = keys]  BY <2>4, <2>5, ProcUpdates
  <2>7. r.at = "up" /\ r.kek = inst[i].kek /\ r.active = inst[i].active /\ r.keys = keys
    BY <2>1, <2>4, <2>6 DEF Proc
  <2>8. inst' = [inst EXCEPT ![i] = r]
    BY <1>3, <1>13, <2>3, <2>6 DEF Refetch, Mine, InstType
  <2>9. \A t \in Slots : r.keys[t] # 0 => Made(t, r.keys[t])
    BY <1>3, <2>2, <2>5, <2>7 DEF CacheMade
  <2>10. Running' /\ CacheMade'  BY <1>1, <1>3, <2>1, <2>7, <2>8, <2>9, ProcSet DEF Running, Made
  <2>11. QED  BY <1>13, <2>10, <1>1, ProcsKept DEF Refetch
<1>14. "data" \in Purposes  BY DEF Purposes
<1>15. ASSUME NEW i \in Instances, NEW x \in Values, Encrypt(i, x)
       PROVE  Running' /\ CacheMade' /\ StoredMade' /\ FlightMade'
  <2>1. PICK s \in Slots : s = Current(i, PurposeOf(x))
    BY <1>15, CurrentSlot, PurposeOfValue DEF Encrypt, At
  <2>2. Made(s, Cache(i, s))  BY <1>3, <1>15, <2>1 DEF Encrypt, CacheMade, Cache
  <2>3. PICK f : f = [by |-> i, slot |-> s, key |-> Cache(i, s)]  OBVIOUS
  <2>4. inflight' = [inflight EXCEPT ![x] = f]  BY <1>15, <2>1, <2>3 DEF Encrypt
  <2>5. \A y \in Values : inflight'[y] = IF y = x THEN f ELSE inflight[y]
    BY <2>4, TypeUnfold DEF KInv
  <2>6. FlightMade'  BY <1>1, <1>3, <2>2, <2>3, <2>5 DEF FlightMade, Made
  <2>7. QED  BY <1>15, <2>6, <1>1, ProcsKept DEF Encrypt
<1>16. ASSUME NEW i \in Instances, NEW x \in Values, Reencrypt(i, x)
       PROVE  Running' /\ CacheMade' /\ StoredMade' /\ FlightMade'
  <2>1. PICK s \in Slots : s = Current(i, "data")
    BY <1>14, <1>16, CurrentSlot DEF Reencrypt, At
  <2>2. Made(s, Cache(i, s))  BY <1>3, <1>16, <2>1 DEF Reencrypt, CacheMade, Cache
  <2>3. PICK f : f = [slot |-> s, key |-> Cache(i, s)]  OBVIOUS
  <2>4. stored' = [stored EXCEPT ![x] = f]  BY <1>16, <2>1, <2>3 DEF Reencrypt
  <2>5. \A y \in Values : stored'[y] = IF y = x THEN f ELSE stored[y]
    BY <2>4, TypeUnfold DEF KInv
  <2>6. StoredMade'  BY <1>1, <1>3, <2>2, <2>3, <2>5 DEF StoredMade, Made
  <2>7. QED  BY <1>16, <2>6, <1>1, ProcsKept DEF Reencrypt
<1>17. ASSUME NEW x \in Values, Store(x)
       PROVE  Running' /\ CacheMade' /\ StoredMade' /\ FlightMade'
  <2>1. PICK f : f = [slot |-> inflight[x].slot, key |-> inflight[x].key]  OBVIOUS
  <2>2. Made(f.slot, f.key)  BY <1>3, <1>17, <2>1 DEF Store, FlightMade
  <2>3. \A y \in Values : /\ stored'[y] = IF y = x THEN f ELSE stored[y]
                          /\ inflight'[y] = IF y = x THEN None ELSE inflight[y]
    BY <1>17, <2>1, TypeUnfold DEF KInv, Store
  <2>4. StoredMade'  BY <1>1, <1>3, <2>2, <2>3 DEF StoredMade, Made
  <2>5. FlightMade'  BY <1>1, <1>3, <2>3 DEF FlightMade, Made
  <2>6. QED  BY <1>17, <2>4, <2>5, <1>1, ProcsKept DEF Store
<1>18. QED
  BY <1>6, <1>7, <1>9, <1>10, <1>11, <1>12, <1>13, <1>15, <1>16, <1>17 DEF QuietStep

-----------------------------------------------------------------------------
(* The invariant is inductive.                                             *)

LEMMA Fold ==
  ASSUME TypeOK', Blank', Once', Homely', Running', CacheMade', StoredMade', FlightMade'
  PROVE  KInv'
BY DEF KInv

LEMMA QuietStepInv ==
  ASSUME KInv, Next, QuietStep
  PROVE  KInv'
BY QuietTable, TableKept, ProcessStep, TypeStep, Fold

LEMMA BootstrapInv ==
  ASSUME KInv, Next, NEW i \in Instances, Bootstrap(i)
  PROVE  KInv'
<1>1. PICK env \in KEKs : env = inst[i].kek  BY DEF Bootstrap, At, KInv, Running
<1>2. /\ Blank' /\ Once' /\ Home(env)'
      /\ \A s \in Slots : /\ Known(s)' <=> s[2] = 1
                          /\ minted'[s] = IF s[2] = 1 THEN 1 ELSE 0
                          /\ table'[env][s].key = minted'[s]
  BY <1>1, BootstrapTable
<1>3. Homely'  BY <1>2 DEF Homely
<1>4. \A s \in Slots : ~Known(s)  BY DEF Bootstrap, Empty
<1>5. Grows  BY <1>4 DEF KInv, Once, Grows
<1>6. ~Empty'
  <2>1. PICK p \in Purposes : TRUE  BY DEF Purposes
  <2>2. 1 \in Versions  BY KeysAssumption DEF Versions
  <2>3. <<p, 1>> \in Slots  BY <2>2, SlotOf
  <2>4. Known(<<p, 1>>)'  BY <1>2, <2>3
  <2>5. QED  BY <2>3, <2>4 DEF Empty
<1>7. PICK keys : keys = [s \in Slots |-> FirstRow(s).key]  OBVIOUS
<1>8. PICK act : act = [p \in Purposes |-> 1]  OBVIOUS
<1>9. inst' = [inst EXCEPT ![i].at = "up", ![i].active = act, ![i].keys = keys]
      /\ inst[i] \in Proc
  BY <1>7, <1>8, TypeUnfold DEF Bootstrap, KInv, InstType
<1>10. 1 \in Versions /\ Versions \subseteq 0..MaxVersion  BY KeysAssumption DEF Versions
<1>11. \A s \in Slots : keys[s] = IF s[2] = 1 THEN 1 ELSE 0
  <2>1. \A s \in Slots : minted[s] = 0  BY <1>4 DEF KInv, Once
  <2>2. \A s \in Slots : FirstRow(s).key = IF s[2] = 1 THEN 1 ELSE 0
    BY <2>1 DEF FirstRow, NoRow
  <2>3. QED  BY <1>7, <2>2
<1>12. keys \in [Slots -> Nat] /\ act \in [Purposes -> 0..MaxVersion]
       /\ \A p \in Purposes : act[p] \in Versions
  <2>1. \A s \in Slots : FirstRow(s).key \in Nat  BY TypeUnfold DEF KInv, FirstRow, NoRow
  <2>2. QED  BY <1>7, <1>8, <1>10, <2>1
<1>13. PICK r : r = [inst[i] EXCEPT !.at = "up", !.active = act, !.keys = keys]  OBVIOUS
<1>14. r \in Proc /\ r.at = "up" /\ r.kek = env /\ r.active = act /\ r.keys = keys
  BY <1>1, <1>9, <1>12, <1>13 DEF Proc
<1>15. inst' = [inst EXCEPT ![i] = r]
  <2>1. inst' = [inst EXCEPT ![i] = [inst[i] EXCEPT !.at = "up", !.active = act, !.keys = keys]]
    BY <1>9, TypeUnfold DEF KInv, InstType, Proc
  <2>2. QED  BY <1>13, <2>1
<1>16. \A s \in Slots : r.keys[s] # 0 => r.keys[s] = 1 /\ minted'[s] = 1
  BY <1>2, <1>11, <1>14
<1>17. Running' /\ CacheMade'  BY <1>5, <1>6, <1>12, <1>14, <1>15, <1>16, ProcSet
<1>18. StoredMade' /\ FlightMade'  BY <1>5, ProcsKept DEF Bootstrap
<1>19. QED  BY <1>2, <1>3, <1>17, <1>18, TypeStep, Fold

LEMMA BumpInv ==
  ASSUME KInv, Next, NEW i \in Instances, NEW p \in Purposes, MayRotate(i, p),
         BumpActiveKey(i, p)
  PROVE  KInv'
<1>1. PICK env \in KEKs : env = inst[i].kek  BY DEF MayRotate, At, KInv, Running
<1>2. PICK a : a = inst[i].active[p]  OBVIOUS
<1>3. PICK new : new = <<p, a + 1>>  OBVIOUS
<1>4. /\ Blank' /\ Once' /\ Home(env) /\ Home(env)'
      /\ new \in Slots /\ a \in Versions /\ ~Known(new)
      /\ \A s \in Slots :
           /\ Known(s)' <=> Known(s) \/ s = new
           /\ minted'[s] = IF s = new THEN 1 ELSE minted[s]
           /\ table'[env][s].key = IF s = new THEN 1 ELSE table[env][s].key
  BY <1>1, <1>2, <1>3, BumpTable
<1>5. Homely'  BY <1>4 DEF Homely
<1>6. Grows  BY <1>4 DEF Grows
<1>7. inst[i] \in Proc /\ inst[i].at = "up" /\ ~Empty /\ ~Empty'
      /\ \A q \in Purposes : inst[i].active[q] \in Versions
  BY <1>6, ProcsKept, TypeUnfold DEF MayRotate, At, KInv, InstType, Running
<1>8. a + 1 \in Versions /\ Versions \subseteq 0..MaxVersion
  BY <1>3, <1>4, KeysAssumption DEF Slots, Versions
<1>9. minted[new] = 0  BY <1>4 DEF KInv, Once
<1>10. inst' = [inst EXCEPT ![i].active[p] = a + 1, ![i].keys[new] = 1]
  <2>1. inst' = [inst EXCEPT ![i].active[p] = @ + 1, ![i].keys[new] = minted[new] + 1]
    BY <1>2, <1>3 DEF BumpActiveKey
  <2>2. QED  BY <1>2, <1>9, <2>1
<1>11. PICK act : act = [inst[i].active EXCEPT ![p] = a + 1]  OBVIOUS
<1>12. PICK keys : keys = [inst[i].keys EXCEPT ![new] = 1]  OBVIOUS
<1>13. act \in [Purposes -> 0..MaxVersion] /\ \A q \in Purposes : act[q] \in Versions
  BY <1>7, <1>8, <1>11 DEF Proc
<1>14. keys \in [Slots -> Nat]
       /\ \A s \in Slots : keys[s] = IF s = new THEN 1 ELSE inst[i].keys[s]
  BY <1>7, <1>12 DEF Proc
<1>15. PICK r : r = [inst[i] EXCEPT !.active = act, !.keys = keys]  OBVIOUS
<1>16. r \in Proc /\ r.at = "up" /\ r.kek = env /\ r.active = act /\ r.keys = keys
  BY <1>1, <1>7, <1>13, <1>14, <1>15 DEF Proc
<1>17. inst' = [inst EXCEPT ![i] = r]
  <2>1. inst' = [inst EXCEPT ![i] = [inst[i] EXCEPT !.active[p] = a + 1, !.keys[new] = 1]]
    BY <1>7, <1>10, TypeUnfold DEF KInv, InstType, Proc
  <2>2. [inst[i] EXCEPT !.active[p] = a + 1, !.keys[new] = 1] = r
    BY <1>7, <1>11, <1>12, <1>15 DEF Proc
  <2>3. QED  BY <2>1, <2>2
<1>18. \A s \in Slots : r.keys[s] # 0 => r.keys[s] = 1 /\ minted'[s] = 1
  BY <1>4, <1>14, <1>16 DEF KInv, CacheMade, Made
<1>19. Running' /\ CacheMade'  BY <1>6, <1>7, <1>13, <1>16, <1>17, <1>18, ProcSet
<1>20. StoredMade' /\ FlightMade'  BY <1>6, ProcsKept DEF BumpActiveKey
<1>21. QED  BY <1>4, <1>5, <1>19, <1>20, TypeStep, Fold

LEMMA CampaignInv ==
  ASSUME KInv, Next, NEW i \in Instances,
         FinalizeSwitch(i) \/ AbandonRewrap(i) \/ \E k \in KEKs : RewrapKEK(i, k)
  PROVE  KInv'
<1>1. inst[i].at \in {"loaded", "up"}
  BY DEF FinalizeSwitch, AbandonRewrap, RewrapKEK, At
<1>2. PICK env \in KEKs : env = inst[i].kek  BY <1>1, HomeOf
<1>3. PICK h \in KEKs : Home(h)  BY <1>1, HomeOf
<1>4. Blank' /\ Once' /\ Homely' /\ Grows
  <2>1. CASE FinalizeSwitch(i) /\ h = env
    <3>1. UNCHANGED tableVars  BY <1>2, <1>3, <2>1, SettleHere DEF tableVars
    <3>2. QED  BY <3>1, TableKept, QuietGrows
  <2>2. CASE FinalizeSwitch(i) /\ h # env
    <3>1. /\ Blank' /\ Once' /\ Home(env)' /\ minted' = minted
          /\ \A s \in Slots : Known(s)' <=> Known(s)
      BY <1>2, <1>3, <2>2, SettleThere
    <3>2. QED  BY <3>1 DEF Homely, Grows
  <2>3. CASE AbandonRewrap(i)
    <3>1. minted' = minted  BY <2>3 DEF AbandonRewrap
    <3>2. Blank' /\ Once' /\ Home(h)' /\ \A s \in Slots : Known(s)' <=> Known(s)
      BY <1>3, <2>3, AbandonTable
    <3>3. QED  BY <3>1, <3>2 DEF Homely, Grows
  <2>4. CASE \E k \in KEKs : RewrapKEK(i, k)
    <3>1. PICK k \in KEKs : RewrapKEK(i, k)  BY <2>4
    <3>2. minted' = minted  BY <3>1 DEF RewrapKEK
    <3>3. Blank' /\ Once' /\ Home(env)' /\ \A s \in Slots : Known(s)' <=> Known(s)
      BY <1>2, <3>1, RewrapTable
    <3>4. QED  BY <3>2, <3>3 DEF Homely, Grows
  <2>5. QED  BY <2>1, <2>2, <2>3, <2>4
<1>5. stored' = stored /\ inflight' = inflight
  BY DEF FinalizeSwitch, Settle, AbandonRewrap, RewrapKEK
<1>6. Running' /\ CacheMade'
  <2>1. inst' = inst \/ inst' = [inst EXCEPT ![i].at = "up"]
    BY DEF FinalizeSwitch, Settle, SetAt, AbandonRewrap, RewrapKEK
  <2>2. QED  BY <1>1, <1>4, <2>1, ProcMoves, ProcsKept
<1>7. QED  BY <1>4, <1>5, <1>6, ProcsKept, TypeStep, Fold

LEMMA CleanupInv ==
  ASSUME KInv, Next, NEW i \in Instances, CleanupRetiredMaterial(i)
  PROVE  KInv'
<1>1. PICK env \in KEKs : env = inst[i].kek
  BY DEF CleanupRetiredMaterial, Purge, At, KInv, Running
<1>2. PICK versions : versions = {s \in Retirable(env) : ~Referenced(s)}  OBVIOUS
<1>3. Purge(i, versions)  BY <1>1, <1>2 DEF CleanupRetiredMaterial
<1>4. /\ Blank' /\ Once' /\ Home(env)' /\ minted' = minted
      /\ \A s \in Slots : Known(s)' <=> Known(s)
  BY <1>1, <1>2, <1>3, PurgeTable
<1>5. Homely' /\ Grows  BY <1>4 DEF Homely, Grows
<1>6. PICK keys : keys = [s \in Slots |->
        IF s \in versions \/ <<env, s>> \in Copies THEN 0 ELSE inst[i].keys[s]]
  OBVIOUS
<1>7. inst' = [inst EXCEPT ![i].keys = keys]  BY <1>1, <1>3, <1>6 DEF Purge
<1>8. inst[i] \in Proc /\ inst[i].at = "up" /\ ~Empty'
      /\ \A q \in Purposes : inst[i].active[q] \in Versions
  BY <1>3, <1>5, ProcsKept, TypeUnfold DEF Purge, At, KInv, InstType, Running
<1>9. keys \in [Slots -> Nat] /\ \A s \in Slots : keys[s] # 0 => keys[s] = inst[i].keys[s]
  BY <1>6, <1>8 DEF Proc
<1>10. PICK r : r = [inst[i] EXCEPT !.keys = keys]  OBVIOUS
<1>11. r \in Proc /\ r.at = "up" /\ r.kek = env /\ r.active = inst[i].active /\ r.keys = keys
  BY <1>1, <1>8, <1>9, <1>10 DEF Proc
<1>12. inst' = [inst EXCEPT ![i] = r]
  BY <1>7, <1>8, <1>10, TypeUnfold DEF KInv, InstType
<1>13. \A s \in Slots : r.keys[s] # 0 => r.keys[s] = 1 /\ minted'[s] = 1
  BY <1>4, <1>9, <1>11 DEF KInv, CacheMade, Made
<1>14. Running' /\ CacheMade'  BY <1>5, <1>8, <1>11, <1>12, <1>13, ProcSet
<1>15. StoredMade' /\ FlightMade'  BY <1>3, <1>5, ProcsKept DEF Purge
<1>16. QED  BY <1>4, <1>5, <1>14, <1>15, TypeStep, Fold

LEMMA Inductive == KInv /\ [Next]_vars => KInv'
<1> SUFFICES ASSUME KInv, [Next]_vars PROVE KInv'  OBVIOUS
<1>1. CASE UNCHANGED vars
  <2>1. UNCHANGED tableVars /\ inst' = inst /\ stored' = stored /\ inflight' = inflight
        /\ loop' = loop
    BY <1>1 DEF vars, tableVars
  <2>2. TypeOK'  BY <2>1 DEF KInv, TypeOK, tableVars
  <2>3. QED  BY <2>1, <2>2, TableKept, QuietGrows, ProcsKept, Fold
<1>2. CASE Next
  <2>1. ASSUME NEW i \in Instances, RotateDataDEK(i) \/ RotateAuditKey(i) PROVE KInv'
    <3>1. "data" \in Purposes /\ "audit_integrity" \in Purposes  BY DEF Purposes
    <3>2. QED  BY <1>2, <2>1, <3>1, BumpInv DEF RotateDataDEK, RotateAuditKey
  <2>2. QED
    BY <1>2, <2>1, QuietStepInv, BootstrapInv, CampaignInv, CleanupInv DEF Next, QuietStep
<1>3. QED  BY <1>1, <1>2

LEMMA Invariance == Spec => []KInv
BY Init_KInv, Inductive, PTL DEF Spec

-----------------------------------------------------------------------------
(* What follows: the server can be started.                                *)

(* Home and what is pending agree on every slot that was ever seen.        *)
LEMMA Agree ==
  ASSUME KInv, NEW h \in KEKs, Home(h), NEW k \in KEKs, k = h \/ k \in Pending
  PROVE  \A s \in Slots : /\ Unretired(k, s) <=> Known(s)
                          /\ table[k][s].active <=> table[h][s].active
                          /\ table[k][s].key = table[h][s].key
<1>1. \A s \in Slots : Unretired(h, s) <=> Known(s)
  BY KnownBy DEF Home, Unretired
<1>2. CASE k = h  BY <1>1, <1>2
<1>3. CASE k \in Pending
  <2>1. \A s \in Slots : table[h][s] \in Row /\ table[k][s] = Clone(table[h][s])
    BY <1>3, TypeUnfold DEF KInv, TableType, Home
  <2>2. \A s \in Slots : /\ table[k][s].form # "none" <=> table[h][s].form # "none"
                         /\ table[k][s].active <=> table[h][s].active
                         /\ table[k][s].key = table[h][s].key
    BY <2>1 DEF Clone, Row
  <2>3. QED  BY <1>1, <2>2 DEF Unretired
<1>4. QED  BY <1>2, <1>3

LEMMA HomeStarts ==
  ASSUME KInv, NEW h \in KEKs, Home(h), NEW k \in KEKs, k = h \/ k \in Pending
  PROVE  k \in Startable
<1>1. \A s \in Slots : /\ Unretired(k, s) <=> Known(s)
                       /\ table[k][s].active <=> table[h][s].active
                       /\ table[k][s].key = table[h][s].key
  BY Agree
<1>2. ASSUME NEW p \in Purposes PROVE \E v \in Versions : ActiveOf(k, p) = {v}
  <2>1. PICK v \in Versions : Newest(h, p, v)  BY DEF Home
  <2>2. ASSUME NEW u \in Versions
        PROVE  Unretired(k, <<p, u>>) /\ table[k][<<p, u>>].active <=> u = v
    <3>1. PICK s \in Slots : s = <<p, u>>  BY SlotOf
    <3>2. s[1] = p /\ s[2] = u  BY <3>1
    <3>3. (Known(s) <=> u <= v) /\ (table[h][s].active <=> u = v)
      BY <2>1, <3>2 DEF Newest
    <3>4. u = v => u <= v  BY DEF Versions
    <3>5. Unretired(k, s) /\ table[k][s].active <=> u = v  BY <1>1, <3>3, <3>4
    <3>6. QED  BY <3>1, <3>5
  <2>3. ActiveOf(k, p) = {v}  BY <2>1, <2>2 DEF ActiveOf
  <2>4. QED  BY <2>3
<1>3. ASSUME NEW s \in Slots, Unretired(k, s)
      PROVE  /\ table[k][s].key = 0 => ~table[k][s].active
             /\ \A u \in 1..s[2] : Known(<<s[1], u>>)
  <2>1. table[k][s].key = 0 => ~table[k][s].active  BY <1>1 DEF Home
  <2>2. ASSUME NEW u \in 1..s[2] PROVE Known(<<s[1], u>>)
    <3>1. s[1] \in Purposes /\ s[2] \in Versions  BY PartsOf
    <3>2. PICK v \in Versions : Newest(h, s[1], v)  BY <3>1 DEF Home
    <3>3. s[2] <= v  BY <1>1, <1>3, <3>2 DEF Newest
    <3>4. u \in Versions /\ u <= v  BY <3>1, <3>3, KeysAssumption DEF Versions
    <3>5. PICK t \in Slots : t = <<s[1], u>>  BY <3>1, <3>4, SlotOf
    <3>6. t[1] = s[1] /\ t[2] = u  BY <3>5
    <3>7. Known(t)  BY <3>2, <3>4, <3>6 DEF Newest
    <3>8. QED  BY <3>5, <3>7
  <2>3. QED  BY <2>1, <2>2
<1>4. \A j, q \in Pending : j = q  BY DEF Home
<1>5. Starts(k)  BY <1>1, <1>2, <1>3, <1>4 DEF Starts
<1>6. QED  BY <1>5 DEF Startable

(* Whatever starts has the keys of home.                                   *)
LEMMA StartsHome ==
  ASSUME KInv, NEW h \in KEKs, Home(h), NEW k \in Startable
  PROVE  \A s \in Slots : table[k][s].key = table[h][s].key
<1>1. k \in KEKs /\ Starts(k)  BY DEF Startable
<1>2. \E s \in Slots : Unretired(k, s)
  <2>1. PICK p \in Purposes : TRUE  BY DEF Purposes
  <2>2. PICK v \in Versions : ActiveOf(k, p) = {v}  BY <1>1, <2>1 DEF Starts
  <2>3. Unretired(k, <<p, v>>)  BY <2>2 DEF ActiveOf
  <2>4. QED  BY <2>3, SlotOf
<1>3. k = h \/ k \in Pending
  <2>1. SUFFICES ASSUME k # h PROVE k \in Pending  OBVIOUS
  <2>2. PICK s \in Slots : Unretired(k, s)  BY <1>2
  <2>3. table[k][s].form # "live"  BY <1>1, <2>1 DEF Home
  <2>4. table[k][s].form \in Forms  BY <1>1, TypeUnfold DEF KInv, TableType, Row
  <2>5. table[k][s].form = "pending"  BY <2>2, <2>3, <2>4 DEF Unretired, Forms
  <2>6. QED  BY <1>1, <2>5 DEF Pending
<1>4. QED  BY <1>1, <1>3, Agree

(* Whatever several processes do to the table of data keys, every state of *)
(* it is one the server starts from, with some KEK and with the one that a *)
(* rewrap prepared.                                                        *)
THEOREM ServerStarts == Spec => []Bootable
<1>1. ASSUME KInv PROVE Bootable
  <2>1. SUFFICES ASSUME ~Empty PROVE Startable # {} /\ Pending \subseteq Startable
    BY DEF Bootable
  <2>2. PICK h \in KEKs : Home(h)  BY <1>1, <2>1 DEF KInv, Homely
  <2>3. h \in Startable  BY <1>1, <2>2, HomeStarts
  <2>4. \A k \in Pending : k \in KEKs  BY DEF Pending
  <2>5. \A k \in Pending : k \in Startable  BY <1>1, <2>2, <2>4, HomeStarts
  <2>6. QED  BY <2>3, <2>5
<1>2. QED  BY <1>1, Invariance, PTL

-----------------------------------------------------------------------------
(* Refinement.  The entries of the ring are the slots that were ever seen, *)
(* and those within reach are the ones whose key is at home.               *)

Reach(h) == {<<s, 1>> : s \in {t \in Slots : table[h][t].key = 1}}

LEMMA EntriesAre ==
  ASSUME KInv
  PROVE  Entries = {<<s, 1>> : s \in {t \in Slots : Known(t)}}
<1>1. \A s \in Slots : minted[s] = IF Known(s) THEN 1 ELSE 0  BY DEF KInv, Once
<1>2. 1..1 = {1} /\ 1..0 = {}  OBVIOUS
<1>3. \A s \in Slots : 1..minted[s] = IF Known(s) THEN {1} ELSE {}  BY <1>1, <1>2
<1>4. \A e : e \in Entries <=> \E s \in Slots : e \in {s} \X (1..minted[s])
  BY DEF Entries
<1>5. \A e, s : s \in Slots =>
        (e \in {s} \X (1..minted[s]) <=> Known(s) /\ e = <<s, 1>>)
  <2>1. SUFFICES ASSUME NEW e, NEW s \in Slots
                 PROVE  e \in {s} \X (1..minted[s]) <=> Known(s) /\ e = <<s, 1>>
    OBVIOUS
  <2>2. CASE Known(s)
    <3>1. 1..minted[s] = {1}  BY <1>3, <2>2
    <3>2. QED  BY <2>2, <3>1
  <2>3. CASE ~Known(s)
    <3>1. 1..minted[s] = {}  BY <1>3, <2>3
    <3>2. QED  BY <2>3, <3>1
  <2>4. QED  BY <2>2, <2>3
<1>6. QED  BY <1>4, <1>5

LEMMA UsableAre ==
  ASSUME KInv, NEW h \in KEKs, Home(h)
  PROVE  Usable = Reach(h)
<1>1. h \in Startable  BY HomeStarts
<1>2. Usable = WithinReach(Startable)
  <2>1. {Startable} \ {{}} = {Startable}  BY <1>1
  <2>2. QED  BY <2>1 DEF Usable
<1>3. \A s \in Slots : table[h][s].key = 1 => Known(s)
  <2>1. SUFFICES ASSUME NEW s \in Slots, table[h][s].key = 1 PROVE Known(s)  OBVIOUS
  <2>2. table[h][s].form # "none"  BY <2>1 DEF KInv, Blank, NoRow
  <2>3. QED  BY <2>2, KnownBy
<1>4. ASSUME NEW s \in Slots
      PROVE  (\A k \in Startable : table[k][s].key = 1) <=> table[h][s].key = 1
  BY <1>1, StartsHome
<1>5. \A e : e \in Entries => \E s \in Slots : Known(s) /\ e = <<s, 1>> /\ e[1] = s /\ e[2] = 1
  BY EntriesAre
<1>6. \A s \in Slots : Known(s) => <<s, 1>> \in Entries
  BY EntriesAre
<1>7. \A e : e \in WithinReach(Startable) => e \in Reach(h)
  <2>1. SUFFICES ASSUME NEW e \in Entries, \A k \in Startable : table[k][e[1]].key = e[2]
                 PROVE  e \in Reach(h)
    BY DEF WithinReach
  <2>2. PICK s \in Slots : e = <<s, 1>> /\ e[1] = s /\ e[2] = 1  BY <1>5
  <2>3. table[h][s].key = 1  BY <1>1, <2>1, <2>2
  <2>4. QED  BY <2>2, <2>3 DEF Reach
<1>8. \A e : e \in Reach(h) => e \in WithinReach(Startable)
  <2>1. SUFFICES ASSUME NEW s \in Slots, table[h][s].key = 1
                 PROVE  <<s, 1>> \in WithinReach(Startable)
    BY DEF Reach
  <2>2. PICK e : e = <<s, 1>>  OBVIOUS
  <2>3. e \in Entries /\ e[1] = s /\ e[2] = 1  BY <1>3, <1>6, <2>1, <2>2
  <2>4. \A k \in Startable : table[k][e[1]].key = e[2]  BY <1>4, <2>1, <2>3
  <2>5. QED  BY <2>2, <2>3, <2>4 DEF WithinReach
<1>9. QED  BY <1>2, <1>7, <1>8

LEMMA UsableNone == KInv /\ Empty => Entries = {} /\ Usable = {}
<1> SUFFICES ASSUME KInv, Empty PROVE Entries = {} /\ Usable = {}  OBVIOUS
<1>1. Entries = {}  BY EntriesAre DEF Empty
<1>2. Usable = {}  BY <1>1 DEF Usable, WithinReach
<1>3. QED  BY <1>1, <1>2

(* The same of the next state.                                             *)
RingFacts == /\ Entries = {<<s, 1>> : s \in {t \in Slots : Known(t)}}
             /\ \A h \in KEKs : Home(h) => Usable = Reach(h)
             /\ Empty => Entries = {} /\ Usable = {}

LEMMA RingNow == KInv => RingFacts
BY EntriesAre, UsableAre, UsableNone DEF RingFacts

LEMMA RingNext == KInv' => RingFacts'
BY RingNow, PTL

LEMMA RingKept ==
  ASSUME KInv, KInv', \A s \in Slots : Known(s)' <=> Known(s),
         Empty \/ \E h, g \in KEKs : /\ Home(h) /\ Home(g)'
                                     /\ \A s \in Slots : table'[g][s].key = table[h][s].key
  PROVE  Entries' = Entries /\ Usable' = Usable
<1>1. RingFacts /\ RingFacts'  BY RingNow, RingNext
<1>2. Entries' = Entries  BY <1>1 DEF RingFacts
<1>3. CASE Empty
  <2>1. Empty'  BY <1>3 DEF Empty
  <2>2. QED  BY <1>1, <1>2, <1>3, <2>1 DEF RingFacts
<1>4. CASE ~Empty
  <2>1. PICK h, g \in KEKs : /\ Home(h) /\ Home(g)'
                             /\ \A s \in Slots : table'[g][s].key = table[h][s].key
    BY <1>4
  <2>2. Usable = Reach(h) /\ Usable' = Reach(g)'  BY <1>1, <2>1 DEF RingFacts
  <2>3. Reach(g)' = Reach(h)  BY <2>1 DEF Reach
  <2>4. QED  BY <1>2, <2>2, <2>3
<1>5. QED  BY <1>3, <1>4

LEMMA RingQuiet ==
  ASSUME KInv, KInv', UNCHANGED tableVars
  PROVE  Entries' = Entries /\ Usable' = Usable
<1>1. table' = table  BY DEF tableVars
<1>2. Empty \/ \E h \in KEKs : Home(h) /\ Home(h)'  BY TableKept DEF KInv, Homely
<1>3. QED  BY <1>1, <1>2, TableKept, RingKept

(* Bootstrap and rotations issue.                                          *)
LEMMA RingBootstrap ==
  ASSUME KInv, KInv', NEW i \in Instances, Bootstrap(i)
  PROVE  Ring!Issue
<1>1. PICK env \in KEKs : env = inst[i].kek  BY DEF Bootstrap, At, KInv, Running
<1>2. /\ Home(env)'
      /\ \A s \in Slots : /\ Known(s)' <=> s[2] = 1
                          /\ minted'[s] = IF s[2] = 1 THEN 1 ELSE 0
                          /\ table'[env][s].key = minted'[s]
  BY <1>1, BootstrapTable
<1>3. RingFacts /\ RingFacts' /\ Empty  BY RingNow, RingNext DEF Bootstrap
<1>4. Entries = {} /\ Usable = {}  BY <1>3 DEF RingFacts
<1>5. Entries' = {<<s, 1>> : s \in {t \in Slots : t[2] = 1}}  BY <1>2, <1>3 DEF RingFacts
<1>6. Usable' = Entries'
  <2>1. Usable' = Reach(env)'  BY <1>2, <1>3 DEF RingFacts
  <2>2. \A s \in Slots : table'[env][s].key = 1 <=> s[2] = 1  BY <1>2
  <2>3. QED  BY <1>5, <2>1, <2>2 DEF Reach
<1>7. Entries' # {}
  <2>1. PICK p \in Purposes : TRUE  BY DEF Purposes
  <2>2. 1 \in Versions  BY KeysAssumption DEF Versions
  <2>3. PICK s \in Slots : s = <<p, 1>>  BY <2>2, SlotOf
  <2>4. s[2] = 1  BY <2>3
  <2>5. <<s, 1>> \in Entries'  BY <1>5, <2>4
  <2>6. QED  BY <2>5
<1>8. \A e \in Entries' : e[2] = 1  BY <1>5
<1>9. Held' = Held  BY DEF Held, Bootstrap
<1>10. QED  BY <1>4, <1>6, <1>7, <1>8, <1>9 DEF Ring!Issue

LEMMA RingBump ==
  ASSUME KInv, KInv', NEW i \in Instances, NEW p \in Purposes, MayRotate(i, p),
         BumpActiveKey(i, p)
  PROVE  Ring!Issue
<1>1. PICK env \in KEKs : env = inst[i].kek  BY DEF MayRotate, At, KInv, Running
<1>2. PICK a : a = inst[i].active[p]  OBVIOUS
<1>3. PICK new : new = <<p, a + 1>>  OBVIOUS
<1>4. /\ Home(env) /\ Home(env)' /\ new \in Slots /\ ~Known(new)
      /\ \A s \in Slots :
           /\ Known(s)' <=> Known(s) \/ s = new
           /\ table'[env][s].key = IF s = new THEN 1 ELSE table[env][s].key
  BY <1>1, <1>2, <1>3, BumpTable
<1>5. RingFacts /\ RingFacts'  BY RingNow, RingNext
<1>6. Entries = {<<s, 1>> : s \in {t \in Slots : Known(t)}}
      /\ Entries' = {<<s, 1>> : s \in {t \in Slots : Known(t)'}}
  BY <1>5 DEF RingFacts
<1>7. Entries' = Entries \cup {<<new, 1>>}  BY <1>4, <1>6
<1>8. <<new, 1>> \notin Entries  BY <1>4, <1>6
<1>9. Entries' \ Entries = {<<new, 1>>}  BY <1>7, <1>8
<1>10. Usable' = Usable \cup {<<new, 1>>}
  <2>1. Usable = Reach(env) /\ Usable' = Reach(env)'  BY <1>4, <1>5 DEF RingFacts
  <2>2. \A s \in Slots : table'[env][s].key = 1 <=> s = new \/ table[env][s].key = 1
    BY <1>4
  <2>3. QED  BY <1>4, <2>1, <2>2 DEF Reach
<1>11. \A old \in Entries : new # old[1]  BY <1>4, <1>6
<1>12. Held' = Held  BY DEF Held, BumpActiveKey
<1>13. PICK e : e = <<new, 1>>  OBVIOUS
<1>14. e[1] = new /\ e[2] = 1  BY <1>13
<1>15. QED  BY <1>7, <1>9, <1>10, <1>11, <1>12, <1>13, <1>14 DEF Ring!Issue

(* A cleanup destroys: nothing that is stored, and older versions only.    *)
LEMMA RingPurge ==
  ASSUME KInv, KInv', NEW i \in Instances, CleanupRetiredMaterial(i)
  PROVE  Ring!Destroy
<1>1. PICK env \in KEKs : env = inst[i].kek
  BY DEF CleanupRetiredMaterial, Purge, At, KInv, Running
<1>2. PICK versions : versions = {s \in Retirable(env) : ~Referenced(s)}  OBVIOUS
<1>3. Purge(i, versions)  BY <1>1, <1>2 DEF CleanupRetiredMaterial
<1>4. /\ Home(env) /\ Home(env)'
      /\ \A s \in Slots :
           /\ Known(s)' <=> Known(s)
           /\ table'[env][s].key = IF s \in versions THEN 0 ELSE table[env][s].key
  BY <1>1, <1>2, <1>3, PurgeTable
<1>5. RingFacts /\ RingFacts'  BY RingNow, RingNext
<1>6. Entries' = Entries  BY <1>4, <1>5 DEF RingFacts
<1>7. Usable = Reach(env) /\ Usable' = Reach(env)'  BY <1>4, <1>5 DEF RingFacts
<1>8. Held' = Held  BY <1>3 DEF Held, Purge
<1>9. Usable' \subseteq Usable  BY <1>4, <1>7 DEF Reach
<1>10. ASSUME NEW e \in Usable \ Usable'
       PROVE  /\ \A x \in Values : Held[x] # e
              /\ \E newer \in Usable' : newer[1][1] = e[1][1] /\ newer[1][2] > e[1][2]
  <2>1. PICK s \in Slots : e = <<s, 1>> /\ table[env][s].key = 1 /\ s \in versions
    BY <1>4, <1>7 DEF Reach
  <2>2. e[1] = s  BY <2>1
  <2>3. ~Referenced(s) /\ ~table[env][s].active /\ Unretired(env, s)
    BY <1>2, <2>1 DEF Retirable
  <2>4. ASSUME NEW x \in Values PROVE Held[x] # e
    <3>1. CASE stored[x] = None
      <4>1. e \in Slots \X Nat  BY <2>1
      <4>2. QED  BY <3>1, <4>1, NothingAssumption DEF Held
    <3>2. CASE stored[x] # None
      <4>1. stored[x].slot # s  BY <2>3, <3>2 DEF Referenced, HeldUnder
      <4>2. Held[x] = <<stored[x].slot, stored[x].key>>  BY <3>2 DEF Held
      <4>3. QED  BY <2>1, <4>1, <4>2
    <3>3. QED  BY <3>1, <3>2
  <2>5. s[1] \in Purposes /\ s[2] \in Versions  BY PartsOf
  <2>6. PICK v \in Versions : Newest(env, s[1], v)  BY <1>4, <2>5 DEF Home
  <2>7. PICK t \in Slots : t = <<s[1], v>>  BY <2>5, SlotOf
  <2>8. t[1] = s[1] /\ t[2] = v  BY <2>7
  <2>9. s[2] < v
    <3>1. Known(s)  BY <2>3 DEF Known
    <3>2. s[2] <= v /\ s[2] # v  BY <2>3, <2>6, <3>1 DEF Newest
    <3>3. QED  BY <2>5, <3>2 DEF Versions
  <2>10. table[env][t].active /\ table[env][t].key = 1
    <3>1. table[env][t].active  BY <2>6, <2>8 DEF Newest
    <3>2. QED  BY <1>4, <3>1 DEF KInv, Once, Home
  <2>11. t \notin versions  BY <1>2, <2>10 DEF Retirable
  <2>12. PICK n : n = <<t, 1>>  OBVIOUS
  <2>13. n \in Usable' /\ n[1] = t  BY <1>4, <1>7, <2>10, <2>11, <2>12 DEF Reach
  <2>14. n[1][1] = e[1][1] /\ n[1][2] > e[1][2]
    <3>1. v > s[2]  BY <2>5, <2>9 DEF Versions
    <3>2. QED  BY <2>2, <2>8, <2>13, <3>1
  <2>15. QED  BY <2>4, <2>13, <2>14
<1>11. QED  BY <1>6, <1>8, <1>9, <1>10 DEF Ring!Destroy

(* A stored value is held under an entry.                                  *)
LEMMA RingHold ==
  ASSUME KInv, KInv', NEW x \in Values, UNCHANGED tableVars,
         NEW f \in Sealed, Made(f.slot, f.key),
         stored' = [stored EXCEPT ![x] = f]
  PROVE  Ring!Hold
<1>1. Entries' = Entries /\ Usable' = Usable  BY RingQuiet
<1>2. PICK e : e = <<f.slot, f.key>>  OBVIOUS
<1>3. e \in Entries
  <2>1. RingFacts  BY RingNow
  <2>2. f.slot \in Slots /\ f.key = 1 /\ Known(f.slot)  BY DEF Sealed, Made, KInv, Once
  <2>3. QED  BY <1>2, <2>1, <2>2 DEF RingFacts
<1>4. Held' = [Held EXCEPT ![x] = e]
  <2>1. \A y \in Values : stored'[y] = IF y = x THEN f ELSE stored[y]
    BY TypeUnfold DEF KInv
  <2>2. \A y \in Values : Held'[y] = IF y = x THEN e ELSE Held[y]
    BY <1>2, <2>1, NothingAssumption DEF Held
  <2>3. QED  BY <2>2 DEF Held
<1>5. QED  BY <1>1, <1>3, <1>4 DEF Ring!Hold

LEMMA RingQuietStep ==
  ASSUME KInv, KInv', QuietStep
  PROVE  Ring!Hold \/ UNCHANGED Ring!ringVars
<1>1. UNCHANGED tableVars  BY QuietTable
<1>2. CASE stored' = stored
  <2>1. Held' = Held  BY <1>2 DEF Held
  <2>2. QED  BY <1>1, <2>1, RingQuiet DEF Ring!ringVars
<1>3. ASSUME NEW x \in Values, Store(x) PROVE Ring!Hold
  <2>1. PICK f : f = [slot |-> inflight[x].slot, key |-> inflight[x].key]  OBVIOUS
  <2>2. f \in Sealed  BY <1>3, <2>1, TypeUnfold DEF Store, KInv, Sealed
  <2>3. Made(f.slot, f.key)  BY <1>3, <2>1 DEF Store, KInv, FlightMade
  <2>4. stored' = [stored EXCEPT ![x] = f]  BY <1>3, <2>1 DEF Store
  <2>5. QED  BY <1>1, <2>2, <2>3, <2>4, RingHold
<1>4. ASSUME NEW i \in Instances, NEW x \in Values, Reencrypt(i, x) PROVE Ring!Hold
  <2>1. "data" \in Purposes  BY DEF Purposes
  <2>2. PICK s \in Slots : s = Current(i, "data")  BY <1>4, <2>1, CurrentSlot DEF Reencrypt, At
  <2>3. PICK f : f = [slot |-> s, key |-> Cache(i, s)]  OBVIOUS
  <2>4. Made(s, Cache(i, s))  BY <1>4, <2>2 DEF Reencrypt, KInv, CacheMade, Cache
  <2>5. f \in Sealed /\ Made(f.slot, f.key)  BY <2>3, <2>4 DEF Sealed, Made
  <2>6. stored' = [stored EXCEPT ![x] = f]  BY <1>4, <2>2, <2>3 DEF Reencrypt
  <2>7. QED  BY <1>1, <2>5, <2>6, RingHold
<1>5. stored' = stored \/ (\E x \in Values : Store(x))
        \/ \E i \in Instances, x \in Values : Reencrypt(i, x)
  BY DEF QuietStep, StartEmpty, Load, BootstrapLost, FinalizeSkipped, Stop, ResumeRotation,
         ReencryptEnds, Refetch, Encrypt
<1>6. QED  BY <1>2, <1>3, <1>4, <1>5

(* A campaign is not visible.                                              *)
LEMMA RingCampaign ==
  ASSUME KInv, KInv', NEW i \in Instances,
         FinalizeSwitch(i) \/ AbandonRewrap(i) \/ \E k \in KEKs : RewrapKEK(i, k)
  PROVE  UNCHANGED Ring!ringVars
<1>1. inst[i].at \in {"loaded", "up"}
  BY DEF FinalizeSwitch, AbandonRewrap, RewrapKEK, At
<1>2. PICK env \in KEKs : env = inst[i].kek  BY <1>1, HomeOf
<1>3. PICK h \in KEKs : Home(h)  BY <1>1, HomeOf
<1>4. Entries' = Entries /\ Usable' = Usable
  <2>1. CASE FinalizeSwitch(i) /\ h = env
    <3>1. UNCHANGED tableVars  BY <1>2, <1>3, <2>1, SettleHere DEF tableVars
    <3>2. QED  BY <3>1, RingQuiet
  <2>2. CASE FinalizeSwitch(i) /\ h # env
    <3>1. Home(env)' /\ table'[env] = table[h] /\ \A s \in Slots : Known(s)' <=> Known(s)
      BY <1>2, <1>3, <2>2, SettleThere
    <3>2. QED  BY <1>3, <3>1, RingKept
  <2>3. CASE AbandonRewrap(i)
    <3>1. Home(h)' /\ table'[h] = table[h] /\ \A s \in Slots : Known(s)' <=> Known(s)
      BY <1>3, <2>3, AbandonTable
    <3>2. QED  BY <1>3, <3>1, RingKept
  <2>4. CASE \E k \in KEKs : RewrapKEK(i, k)
    <3>1. PICK k \in KEKs : RewrapKEK(i, k)  BY <2>4
    <3>2. Home(env) /\ Home(env)' /\ table'[env] = table[env]
          /\ \A s \in Slots : Known(s)' <=> Known(s)
      BY <1>2, <3>1, RewrapTable
    <3>3. QED  BY <3>2, RingKept
  <2>5. QED  BY <2>1, <2>2, <2>3, <2>4
<1>5. Held' = Held  BY DEF Held, FinalizeSwitch, Settle, AbandonRewrap, RewrapKEK
<1>6. QED  BY <1>4, <1>5 DEF Ring!ringVars

LEMMA RingStep ==
  KInv /\ KInv' /\ [Next]_vars
    => [Ring!Issue \/ Ring!Destroy \/ Ring!Hold]_(Ring!ringVars)
<1> SUFFICES ASSUME KInv, KInv', [Next]_vars
             PROVE  Ring!Issue \/ Ring!Destroy \/ Ring!Hold \/ UNCHANGED Ring!ringVars
  OBVIOUS
<1>1. CASE UNCHANGED vars
  <2>1. UNCHANGED tableVars /\ stored' = stored  BY <1>1 DEF vars, tableVars
  <2>2. Held' = Held  BY <2>1 DEF Held
  <2>3. QED  BY <2>1, <2>2, RingQuiet DEF Ring!ringVars
<1>2. CASE Next
  <2>1. ASSUME NEW i \in Instances, RotateDataDEK(i) \/ RotateAuditKey(i) PROVE Ring!Issue
    <3>1. "data" \in Purposes /\ "audit_integrity" \in Purposes  BY DEF Purposes
    <3>2. QED  BY <2>1, <3>1, RingBump DEF RotateDataDEK, RotateAuditKey
  <2>2. QED
    BY <1>2, <2>1, RingQuietStep, RingBootstrap, RingCampaign, RingPurge DEF Next, QuietStep
<1>3. QED  BY <1>1, <1>2

LEMMA RingBegins == Init => Ring!Begin
<1> SUFFICES ASSUME Init PROVE Ring!Begin  OBVIOUS
<1>1. \A s \in Slots : ~Known(s)  BY DEF Init, Known, Unretired, NoRow
<1>2. Entries = {} /\ Usable = {}  BY <1>1, Init_KInv, UsableNone DEF Empty
<1>3. Held = [x \in Values |-> None]  BY DEF Init, Held
<1>4. QED  BY <1>2, <1>3 DEF Ring!Begin

(* A version of a key is made once, the key of a stored value stays within *)
(* reach of every KEK the server starts with, and so does the newest of    *)
(* each purpose: the table is a KeyRing, whichever processes write it.     *)
THEOREM TableImplementsRing == Spec => ImplementsRing
BY Invariance, RingBegins, RingStep, PTL DEF Spec, ImplementsRing, Ring!Promise
=============================================================================
