------------------------ MODULE OffsiteCopies_proofs ------------------------
(***************************************************************************)
(* Proofs about OffsiteCopies, for any recordings, any number of           *)
(* generations and attempts and any number of mishaps: what the ledger     *)
(* recorded is what the bucket has, and no recording is lost before its    *)
(* time.                                                                   *)
(*                                                                         *)
(* The ledger's own updates guard nothing of this: MarkUploaded asks for   *)
(* no state.  What carries it is what the uploader knows of the one file   *)
(* it has in hand (Jobs), that a vouched recording no longer grows while   *)
(* its session has it (Vouching), and that what the cache pass has listed  *)
(* stays vouched whatever happens to its row (Cleaning).                   *)
(***************************************************************************)
EXTENDS OffsiteCopies, TLAPS

Keys == Recordings \X Generations
Landed == has \cup due \cup deleted

TodoType == [r : Recordings, g : Generations, att : Nat]
UpType == [at : {"opened", "claimed", "hashed", "changed", "sent", "verified",
                 "owning", "enqueuing", "adopting"},
           r : Recordings, g : Generations, att : Nat, ver : Nat, sum : Nat]
RetType == [at : {"listed", "evict", "find", "write", "clear"}, r : Recordings,
            g : 0..MaxGenerations, via : {"walk", "sweep", "cache"}]

TypeOK ==
  /\ LedgerTypeOK
  /\ last \in 0..MaxGenerations /\ revoked \subseteq Generations /\ running \in BOOLEAN
  /\ file \in [Recordings -> Nat] /\ obj \in [Recordings -> 0..MaxGenerations]
  /\ has \subseteq Recordings /\ quiet \subseteq Recordings
  /\ due \subseteq Recordings /\ deleted \subseteq Recordings /\ lost \subseteq Gone
  /\ remote \in [Keys -> Nat \cup {Rotten}]
  /\ todo \subseteq TodoType /\ up \subseteq UpType /\ ret \subseteq RetType
  /\ del \subseteq Recordings /\ get \subseteq Keys /\ mishaps \in Nat

(* Only what has landed is in anybody's hands.                             *)
Hands ==
  /\ \A k \in Keys : rows[k].st # "none" \/ rows[k].sha # 0 => k[1] \in Landed
  /\ \A k \in Keys : rows[k].st = "uploaded" => rows[k].sha # 0
  /\ \A k \in Keys : rows[k].st = "none" => rows[k].sha = 0
  /\ \A t \in todo : t.r \in Landed
  /\ \A j \in up : j.r \in Landed
  /\ \A k \in get : k[1] \in Landed
  /\ \A c \in ret : c.at \in {"find", "write", "clear"} => c.r \in due
  /\ \A c \in ret : c.at = "write" => c.g # 0
  /\ del \subseteq deleted

(* A vouched copy is in the bucket, and the file is what was sent.         *)
Vouching == \A k \in Keys : rows[k].sha # 0 =>
  /\ remote[k] \in {rows[k].sha, Rotten}
  /\ k[1] \in has => file[k[1]] \in {0, rows[k].sha}

(* What the uploader knows of its file: one job, and what it has found.    *)
JobKnows(j) ==
  /\ j.at \notin {"enqueuing", "adopting"} => j.ver # 0
  /\ j.at \in {"opened", "claimed", "hashed"} =>
       \A g \in Generations : At(j.r, g).sha # 0 =>
         j.ver = At(j.r, g).sha /\ file[j.r] \in {0, j.ver}
  /\ j.at \in {"sent", "verified"} => remote[<<j.r, j.g>>] \in {j.sum, Rotten}
  /\ j.at = "verified" => /\ j.sum = j.ver
                          /\ j.r \in has => file[j.r] \in {0, j.ver}

Jobs == (\A i, j \in up : i = j) /\ (\A j \in up : JobKnows(j))

(* What is listed for eviction is vouched.                                 *)
HasCopy(r) == \E g \in Generations : At(r, g).sha # 0
Cleaning == \A c \in ret : c.at \in {"listed", "evict"} => HasCopy(c.r)

Inv == TypeOK /\ Hands /\ Vouching /\ Jobs /\ Cleaning

-----------------------------------------------------------------------------
(* What an update of one row, other than MarkUploaded, leaves alone.       *)
Tame(S) ==
  /\ rows' \in [Keys -> RowType]
  /\ \A k \in Keys : /\ rows'[k].sha = rows[k].sha
                     /\ rows'[k].st = "uploaded" => rows[k].st = "uploaded"
                     /\ rows'[k].st = "none" => rows[k].st = "none"
                     /\ rows'[k].st # "none" => rows[k].st # "none" \/ k[1] \in S

LEMMA UntouchedIsTame ==
  ASSUME rows \in [Keys -> RowType], rows' = rows, NEW S
  PROVE  Tame(S)
BY DEF Tame

LEMMA SetIsTame ==
  ASSUME rows \in [Keys -> RowType], NEW r \in Recordings, NEW g \in Generations,
         NEW row \in RowType, row.sha = At(r, g).sha,
         row.st \notin {"none", "uploaded"}, Set(r, g, row), NEW S, r \in S
  PROVE  Tame(S)
<1>1. <<r, g>> \in Keys
  BY DEF Keys
<1>2. \A k \in Keys : rows'[k] = IF k = <<r, g>> THEN row ELSE rows[k]
  BY <1>1 DEF Set
<1>3. rows' \in [Keys -> RowType]
  BY <1>1 DEF Set
<1> QED  BY <1>1, <1>2, <1>3 DEF Tame, At

LEMMA ClaimedRow ==
  ASSUME NEW row \in RowType
  PROVE  [row EXCEPT !.st = "uploading", !.att = @ + 1] \in RowType
<1>1. \A n \in Nat : [row EXCEPT !.st = "uploading", !.att = n] \in RowType
  BY DEF RowType, States
<1>2. row.att + 1 \in Nat
  BY DEF RowType
<1> QED  BY <1>1, <1>2

LEMMA MarksAreTame ==
  ASSUME rows \in [Keys -> RowType], NEW r \in Recordings, NEW g \in Generations,
         NEW n \in Nat, NEW S, r \in S,
         \/ Claim(r, g) \/ Reap(r, g) \/ MarkFailed(r, g, n)
         \/ MarkIntegrityMismatch(r, g) \/ MarkPurged(r, g) \/ RetryFailed(r, g)
  PROVE  Tame(S)
<1>1. At(r, g) \in RowType
  BY DEF At, Keys
<1>2. CASE Claim(r, g)
  <2>1. [At(r, g) EXCEPT !.st = "uploading", !.att = @ + 1] \in RowType
    BY <1>1, ClaimedRow
  <2> QED  BY <1>1, <1>2, <2>1, SetIsTame DEF Claim, RowType
<1>3. CASE Reap(r, g)
  <2>1. [At(r, g) EXCEPT !.st = "pending"] \in RowType
    BY <1>1 DEF RowType, States
  <2> QED  BY <1>1, <1>3, <2>1, SetIsTame DEF Reap, RowType
<1>4. CASE MarkFailed(r, g, n)
  <2> DEFINE row == [At(r, g) EXCEPT !.st = IF n >= MaxAttempts THEN "failed" ELSE "pending",
                                     !.att = n]
  <2>1. row \in RowType /\ row.sha = At(r, g).sha /\ row.st \notin {"none", "uploaded"}
    BY <1>1 DEF RowType, States
  <2>2. Set(r, g, row)
    BY <1>4 DEF MarkFailed
  <2> HIDE DEF row
  <2> QED  BY <2>1, <2>2, SetIsTame
<1>5. CASE MarkIntegrityMismatch(r, g)
  <2>1. [At(r, g) EXCEPT !.st = "mismatch"] \in RowType
    BY <1>1 DEF RowType, States
  <2> QED  BY <1>1, <1>5, <2>1, SetIsTame DEF MarkIntegrityMismatch, RowType
<1>6. CASE MarkPurged(r, g)
  <2>1. [At(r, g) EXCEPT !.st = "purged"] \in RowType
    BY <1>1 DEF RowType, States
  <2> QED  BY <1>1, <1>6, <2>1, SetIsTame DEF MarkPurged, RowType
<1>7. CASE RetryFailed(r, g)
  <2>1. [At(r, g) EXCEPT !.st = "pending", !.att = 0] \in RowType
    BY <1>1 DEF RowType, States
  <2> QED  BY <1>1, <1>7, <2>1, SetIsTame DEF RetryFailed, RowType
<1> QED  BY <1>2, <1>3, <1>4, <1>5, <1>6, <1>7

LEMMA EnqueueIsTame ==
  ASSUME rows \in [Keys -> RowType], NEW r \in Recordings, NEW g \in Generations,
         \A k \in Keys : rows[k].st = "none" => rows[k].sha = 0,
         EnqueueTx(r, g), NEW S, r \in S
  PROVE  Tame(S)
<1>1. CASE At(r, g).st = "none"
  <2> DEFINE row == [NoRow EXCEPT !.st = "pending"]
  <2>1. row \in RowType /\ row.sha = At(r, g).sha /\ row.st \notin {"none", "uploaded"}
    BY <1>1 DEF RowType, States, NoRow, At, Keys
  <2>2. Set(r, g, row)
    BY <1>1 DEF EnqueueTx
  <2> HIDE DEF row
  <2> QED  BY <2>1, <2>2, SetIsTame
<1>2. CASE At(r, g).st # "none"
  BY <1>2, UntouchedIsTame DEF EnqueueTx
<1> QED  BY <1>1, <1>2

LEMMA ForeignIsTame ==
  ASSUME rows \in [Keys -> RowType], NEW g, MarkForeign(g), NEW S
  PROVE  Tame(S)
<1>1. DOMAIN rows = Keys
  OBVIOUS
<1>2. \A k \in Keys : rows[k] \in RowType /\ [rows[k] EXCEPT !.st = "foreign"] \in RowType
  BY DEF RowType, States
<1>3. \A k \in Keys : [rows[k] EXCEPT !.st = "foreign"].sha = rows[k].sha
                    /\ [rows[k] EXCEPT !.st = "foreign"].st = "foreign"
  BY <1>2 DEF RowType
<1> QED  BY <1>1, <1>2, <1>3 DEF MarkForeign, Tame

-----------------------------------------------------------------------------
(* Most steps only mark a row, take a file away, or hand things on.        *)
Gentle ==
  /\ Tame(Landed') /\ Landed \subseteq Landed' /\ has' \subseteq has
  /\ due \subseteq due' /\ deleted \subseteq deleted'
  /\ \A r \in Recordings : file'[r] \in {0, file[r]}
  /\ remote' = remote

HandsOn ==
  /\ \A t \in todo' : t \in todo \/ t.r \in Landed
  /\ \A i, j \in up' : i = j
  /\ \A j \in up' : j \in up \/ (j.r \in Landed /\ JobKnows(j)')
  /\ \A c \in ret' : \/ c \in ret
                     \/ /\ c.at \in {"find", "write", "clear"} /\ c.r \in due
                        /\ c.at = "write" => c.g # 0
                     \/ c.at \in {"listed", "evict"} /\ HasCopy(c.r)
  /\ del' \subseteq deleted'
  /\ \A k \in get' : k \in get \/ k[1] \in Landed

LEMMA GentleStep ==
  ASSUME Inv, TypeOK', Gentle, HandsOn
  PROVE  Inv'
<1>1. Hands'
  <2>1. (\A t \in todo' : t.r \in Landed') /\ (\A j \in up' : j.r \in Landed')
    BY DEF Inv, Hands, Gentle, HandsOn
  <2>2. \A k \in get' : k[1] \in Landed'
    BY DEF Inv, Hands, Gentle, HandsOn
  <2>3. \A c \in ret' : /\ c.at \in {"find", "write", "clear"} => c.r \in due'
                        /\ c.at = "write" => c.g # 0
    BY DEF Inv, Hands, Gentle, HandsOn
  <2>4. del' \subseteq deleted'
    BY DEF HandsOn
  <2>5. \A k \in Keys : rows'[k].st # "none" \/ rows'[k].sha # 0 => k[1] \in Landed'
    BY DEF Inv, Hands, Gentle, Tame, Keys
  <2>6. \A k \in Keys : rows'[k].st = "uploaded" => rows'[k].sha # 0
    BY DEF Inv, Hands, Gentle, Tame
  <2>7. \A k \in Keys : rows'[k].st = "none" => rows'[k].sha = 0
    BY DEF Inv, Hands, Gentle, Tame
  <2> QED  BY <2>1, <2>2, <2>3, <2>4, <2>5, <2>6, <2>7, Zenon DEF Hands
<1>2. Vouching'
  <2> SUFFICES ASSUME NEW k \in Keys, rows'[k].sha # 0
               PROVE  /\ remote'[k] \in {rows'[k].sha, Rotten}
                      /\ k[1] \in has' => file'[k[1]] \in {0, rows'[k].sha}
    BY DEF Vouching
  <2>1. rows'[k].sha = rows[k].sha /\ k[1] \in Recordings
    BY DEF Gentle, Tame, Keys
  <2> QED  BY <2>1 DEF Inv, Vouching, Gentle
<1>3. Jobs'
  <2> SUFFICES ASSUME NEW j \in up', j \in up  PROVE JobKnows(j)'
    BY DEF Jobs, HandsOn
  <2>1. JobKnows(j) /\ j.r \in Recordings
    BY DEF Inv, Jobs, TypeOK, UpType
  <2>2. \A g \in Generations : At(j.r, g)'.sha = At(j.r, g).sha
    BY <2>1 DEF Gentle, Tame, At, Keys
  <2>3. file'[j.r] \in {0, file[j.r]} /\ remote' = remote /\ has' \subseteq has
    BY <2>1 DEF Gentle
  <2> QED  BY <2>1, <2>2, <2>3 DEF JobKnows
<1>4. Cleaning'
  <2> SUFFICES ASSUME NEW c \in ret', c.at \in {"listed", "evict"}  PROVE HasCopy(c.r)'
    BY DEF Cleaning
  <2>1. c.r \in Recordings
    BY DEF TypeOK, RetType
  <2>2. HasCopy(c.r)
    BY DEF HandsOn, Inv, Cleaning
  <2> QED  BY <2>1, <2>2 DEF Gentle, Tame, At, HasCopy, Keys
<1> QED  BY <1>1, <1>2, <1>3, <1>4 DEF Inv

-----------------------------------------------------------------------------
LEMMA UntouchedIsGentle ==
  ASSUME Inv, rows' = rows, remote' = remote, has' \subseteq has,
         due \subseteq due', deleted \subseteq deleted', has \ has' \subseteq due' \cup deleted',
         \A r \in Recordings : file'[r] \in {0, file[r]}
  PROVE  Gentle
<1>1. Tame(Landed')
  BY UntouchedIsTame DEF Inv, TypeOK, LedgerTypeOK, Keys
<1> QED  BY <1>1 DEF Gentle, Landed

(* Steps that pass nothing on but what somebody had.                       *)
LEMMA BystanderSteps ==
  ASSUME Inv,
         \/ \E r \in Recordings : Quieten(r) \/ Expire(r) \/ RemoveFile(r) \/ DeleteTx(r)
         \/ \E t \in todo : NotReadyYet(t)
         \/ \E c \in ret : Evict(c)
         \/ \E g \in Generations : RevokeCredentials(g)
         \/ \E s \in Gone : DeleteLost(s)
         \/ Crash
  PROVE  Inv'
<1>1. TypeOK'
  <2> USE DEF Inv, TypeOK, LedgerTypeOK, Keys
  <2>1. ASSUME NEW r \in Recordings,
               Quieten(r) \/ Expire(r) \/ RemoveFile(r) \/ DeleteTx(r)  PROVE TypeOK'
    BY <2>1 DEF Quieten, Expire, RemoveFile, DeleteTx, Mishap, settings, sessions
  <2>2. ASSUME NEW t \in todo, NotReadyYet(t)  PROVE TypeOK'
    BY <2>2 DEF NotReadyYet, settings, sessions
  <2>3. ASSUME NEW c \in ret, Evict(c)  PROVE TypeOK'
    <3>1. file' \in [Recordings -> Nat]
      BY <2>3 DEF Evict
    <3> QED  BY <2>3, <3>1 DEF Evict, settings, sessions
  <2>4. ASSUME NEW g \in Generations, RevokeCredentials(g)  PROVE TypeOK'
    BY <2>4 DEF RevokeCredentials, Mishap, sessions
  <2>5. CASE Crash
    BY <2>5 DEF Crash, Mishap, sessions
  <2>6. ASSUME NEW s \in Gone, DeleteLost(s)  PROVE TypeOK'
    BY <2>6 DEF DeleteLost, settings
  <2> QED  BY <2>1, <2>2, <2>3, <2>4, <2>5, <2>6
<1>2. /\ rows' = rows /\ remote' = remote /\ has' \subseteq has
      /\ due \subseteq due' /\ deleted \subseteq deleted'
      /\ has \ has' \subseteq due' \cup deleted'
      /\ \A r \in Recordings : file'[r] \in {0, file[r]}
  BY DEF Inv, TypeOK, Quieten, Expire, RemoveFile, DeleteTx, NotReadyYet,
         Evict, RevokeCredentials, DeleteLost, Crash, settings, sessions
<1>3. HandsOn
  BY DEF Inv, Hands, Jobs, HandsOn, Quieten, Expire, RemoveFile, DeleteTx, NotReadyYet,
         Evict, RevokeCredentials, DeleteLost, Crash, settings, sessions
<1> QED  BY <1>1, <1>2, <1>3, UntouchedIsGentle, GentleStep

LEMMA ClearStep ==
  ASSUME Inv, NEW c \in ret, ClearColumns(c)
  PROVE  Inv'
<1>1. TypeOK'
  BY DEF Inv, TypeOK, LedgerTypeOK, ClearColumns, Mishap, settings, Keys
<1>2. c.r \in due
  BY DEF Inv, Hands, ClearColumns
<1>3. Gentle
  BY <1>2, UntouchedIsGentle DEF ClearColumns, settings
<1>4. HandsOn
  BY DEF Inv, Hands, Jobs, HandsOn, ClearColumns, settings
<1> QED  BY <1>1, <1>3, <1>4, GentleStep

LEMMA OwnStep ==
  ASSUME Inv, NEW j \in up, Own(j)
  PROVE  Inv'
<1>1. TypeOK'
  BY DEF Inv, TypeOK, LedgerTypeOK, Own, Mishap, settings, Keys, UpType, Generations
<1>2. Gentle
  BY UntouchedIsGentle DEF Own, settings
<1>3. HandsOn
  BY DEF Inv, Hands, Jobs, HandsOn, Own, settings
<1> QED  BY <1>1, <1>2, <1>3, GentleStep

-----------------------------------------------------------------------------
LEMMA TamedIsGentle ==
  ASSUME Tame(Landed), UNCHANGED <<file, has, due, deleted, remote>>
  PROVE  Gentle
BY DEF Gentle, Tame, Landed

LEMMA MarkIsGentle ==
  ASSUME Inv, NEW r \in Landed, NEW g \in Generations, NEW n \in Nat,
         \/ Claim(r, g) \/ Reap(r, g) \/ MarkFailed(r, g, n)
         \/ MarkIntegrityMismatch(r, g) \/ MarkPurged(r, g) \/ RetryFailed(r, g)
         \/ UNCHANGED rows,
         UNCHANGED <<file, has, due, deleted, remote>>
  PROVE  Gentle /\ (current' \in 0..MaxGenerations => LedgerTypeOK')
<1>1. rows \in [Keys -> RowType] /\ r \in Recordings
  BY DEF Inv, TypeOK, LedgerTypeOK, Keys, Landed
<1>2. Tame(Landed)
  BY <1>1, MarksAreTame, UntouchedIsTame
<1>3. Gentle
  BY <1>2, TamedIsGentle
<1> QED  BY <1>2, <1>3 DEF Tame, LedgerTypeOK, Keys

LEMMA UploaderMarks ==
  ASSUME Inv,
         \/ \E r \in Recordings, g \in Generations : ReapLease(r, g)
         \/ \E t \in todo : OpenFailed(t)
         \/ \E j \in up : Fail(j)
  PROVE  Inv' /\ Gentle
<1> USE DEF Inv, TypeOK, LedgerTypeOK
<1>1. ASSUME NEW r \in Recordings, NEW g \in Generations, ReapLease(r, g)  PROVE Inv' /\ Gentle
  <2>1. r \in Landed
    BY <1>1 DEF ReapLease, Reap, At, Hands, Keys
  <2>2. Gentle /\ LedgerTypeOK'
    BY <1>1, <2>1, MarkIsGentle DEF ReapLease, settings, sessions
  <2>3. TypeOK' /\ HandsOn
    BY <1>1, <2>2 DEF ReapLease, settings, sessions, Jobs, Hands, HandsOn, Keys
  <2> QED  BY <2>2, <2>3, GentleStep
<1>2. ASSUME NEW t \in todo, OpenFailed(t)  PROVE Inv' /\ Gentle
  <2>1. t.r \in Landed /\ t.g \in Generations /\ t.att + 1 \in Nat
    BY DEF Hands, TodoType
  <2>2. Gentle /\ LedgerTypeOK'
    BY <1>2, <2>1, MarkIsGentle DEF OpenFailed, Mishap, settings, sessions
  <2>3. TypeOK' /\ HandsOn
    BY <1>2, <2>2 DEF OpenFailed, Mishap, settings, sessions, Jobs, Hands, HandsOn, Keys
  <2> QED  BY <2>2, <2>3, GentleStep
<1>3. ASSUME NEW j \in up, Fail(j)  PROVE Inv' /\ Gentle
  <2>1. j.r \in Landed /\ j.g \in Generations /\ j.att \in Nat
    BY DEF Hands, UpType
  <2>2. Gentle /\ LedgerTypeOK'
    BY <1>3, <2>1, MarkIsGentle DEF Fail, Mishap, settings, sessions
  <2>3. TypeOK' /\ HandsOn
    BY <1>3, <2>2 DEF Fail, Mishap, settings, sessions, Jobs, Hands, HandsOn, Keys
  <2> QED  BY <2>2, <2>3, GentleStep
<1> QED  BY <1>1, <1>2, <1>3

LEMMA OtherMarks ==
  ASSUME Inv,
         \/ \E c \in ret : WriteRow(c)
         \/ \E r \in Recordings, g \in Generations : Retry(r, g)
         \/ \E k \in get : RejectMismatch(k)
  PROVE  Inv' /\ Gentle
<1> USE DEF Inv, TypeOK, LedgerTypeOK
<1>1. ASSUME NEW c \in ret, WriteRow(c)  PROVE Inv' /\ Gentle
  <2>1. c.r \in Landed /\ c.g \in Generations /\ c.r \in due
    BY <1>1 DEF WriteRow, Hands, RetType, Landed, Generations
  <2>2. Gentle /\ LedgerTypeOK'
    BY <1>1, <2>1, MarkIsGentle DEF WriteRow, Mishap, settings, sessions
  <2>3. [c EXCEPT !.at = "clear"] \in RetType /\ [c EXCEPT !.at = "clear"].at = "clear"
        /\ [c EXCEPT !.at = "clear"].r = c.r
    BY DEF RetType
  <2>4. ret' \subseteq {[c EXCEPT !.at = "clear"]}
    BY <1>1 DEF WriteRow, Unsettled
  <2>5. TypeOK'
    BY <1>1, <2>2, <2>3, <2>4 DEF WriteRow, Mishap, settings, sessions, Keys
  <2>6. HandsOn
    BY <1>1, <2>1, <2>3, <2>4 DEF WriteRow, settings, sessions, Jobs, Hands, HandsOn
  <2> QED  BY <2>2, <2>5, <2>6, GentleStep
<1>2. ASSUME NEW r \in Recordings, NEW g \in Generations, Retry(r, g)  PROVE Inv' /\ Gentle
  <2>1. <<r, g>> \in Keys /\ rows[<<r, g>>].st # "none"
    BY <1>2 DEF Retry, RetryFailed, At, Keys
  <2>2. r \in Landed
    BY <2>1 DEF Hands
  <2>3. Gentle /\ LedgerTypeOK'
    BY <1>2, <2>2, MarkIsGentle DEF Retry, settings, sessions
  <2>4. TypeOK' /\ HandsOn
    BY <1>2, <2>3 DEF Retry, Mishap, settings, sessions, Jobs, Hands, HandsOn, Keys
  <2> QED  BY <2>3, <2>4, GentleStep
<1>3. ASSUME NEW k \in get, RejectMismatch(k)  PROVE Inv' /\ Gentle
  <2>1. k[1] \in Landed /\ k[2] \in Generations /\ k[1] \in Recordings
    BY DEF Hands, Keys
  <2>2. Gentle /\ LedgerTypeOK'
    BY <1>3, <2>1, MarkIsGentle DEF RejectMismatch, settings
  <2>3. obj' \in [Recordings -> 0..MaxGenerations]
    BY <1>3, <2>1 DEF RejectMismatch, Generations
  <2>4. TypeOK'
    BY <1>3, <2>2, <2>3 DEF RejectMismatch, settings, Keys
  <2>5. HandsOn
    BY <1>3, <2>1, <2>2 DEF RejectMismatch, settings, Jobs, Hands, HandsOn
  <2> QED  BY <2>2, <2>4, <2>5, GentleStep
<1> QED  BY <1>1, <1>2, <1>3

LEMMA SettingsSteps ==
  ASSUME Inv, Switch \/ Disable
  PROVE  Inv' /\ Gentle
<1> USE DEF Inv, TypeOK, LedgerTypeOK
<1>1. current' \in 0..MaxGenerations /\ last' \in 0..MaxGenerations
  BY LedgerAssumption DEF Switch, Disable
<1>2. UNCHANGED rows \/ MarkForeign(current)
  BY DEF Switch, Disable
<1>3. Tame(Landed)
  BY <1>2, UntouchedIsTame, ForeignIsTame DEF Keys
<1>4. Gentle
  BY <1>3, TamedIsGentle DEF Switch, Disable, sessions
<1>5. TypeOK'
  BY <1>1, <1>3 DEF Tame, Keys, Switch, Disable, sessions
<1>6. HandsOn
  BY DEF Switch, Disable, sessions, HandsOn, Hands, Jobs
<1> QED  BY <1>4, <1>5, <1>6, GentleStep

-----------------------------------------------------------------------------
Ats == {"opened", "claimed", "hashed", "changed", "sent", "verified", "owning",
        "enqueuing", "adopting"}

LEMMA JobMoves ==
  ASSUME NEW j \in UpType, NEW at \in Ats
  PROVE  LET m == [j EXCEPT !.at = at]
         IN  m \in UpType /\ m.at = at /\ m.r = j.r /\ m.g = j.g /\ m.ver = j.ver /\ m.sum = j.sum
BY DEF UpType, Ats

LEMMA JobSums ==
  ASSUME NEW j \in UpType, NEW v \in Nat
  PROVE  LET m == [j EXCEPT !.at = "hashed", !.sum = v]
         IN  m \in UpType /\ m.at = "hashed" /\ m.r = j.r /\ m.ver = j.ver
BY DEF UpType

LEMMA JobAdopts ==
  ASSUME NEW j \in UpType, NEW g \in Generations
  PROVE  LET m == [j EXCEPT !.at = "adopting", !.g = g]
         IN  m \in UpType /\ m.at = "adopting" /\ m.r = j.r
BY DEF UpType

LEMMA ContentType ==
  ASSUME Inv, NEW j \in up
  PROVE  Content(j) \in Nat
BY DEF Inv, TypeOK, UpType, Content

LEMMA ListDueStep ==
  ASSUME Inv, ListDue
  PROVE  Inv'
<1> USE DEF Inv, TypeOK, LedgerTypeOK
<1>1. ASSUME NEW t \in todo'  PROVE t \in TodoType /\ t.r \in Landed
  <2>1. PICK k \in Keys : t = [r |-> k[1], g |-> k[2], att |-> rows[k].att]
                          /\ rows[k].st = "pending"
    BY DEF ListDue, Keys
  <2>2. k[1] \in Landed
    BY <2>1 DEF Hands
  <2>3. k[1] \in Recordings /\ k[2] \in Generations /\ rows[k].att \in Nat
    BY DEF Keys, RowType
  <2> QED  BY <2>1, <2>2, <2>3 DEF TodoType
<1>2. Gentle
  BY UntouchedIsGentle DEF ListDue, settings, sessions
<1>3. TypeOK'
  BY <1>1 DEF ListDue, settings, sessions, Keys
<1>4. HandsOn
  BY <1>1 DEF ListDue, settings, sessions, HandsOn, Hands, Jobs
<1> QED  BY <1>2, <1>3, <1>4, GentleStep

(* The file of a vouched recording is what was sent, so a job that opens   *)
(* it holds the same.                                                      *)
LEMMA OpenStep ==
  ASSUME Inv, NEW t \in todo, Open(t)
  PROVE  Inv'
<1> USE DEF Inv, TypeOK, LedgerTypeOK
<1>1. PICK m : m = [at |-> "opened", r |-> t.r, g |-> t.g, att |-> t.att + 1,
                    ver |-> file[t.r], sum |-> 0]
  OBVIOUS
<1>2. t.r \in Landed /\ t.r \in Recordings /\ t.g \in Generations /\ t.att \in Nat
  BY DEF Hands, TodoType
<1>3. /\ m \in UpType /\ m.at = "opened" /\ m.r = t.r /\ m.ver = file[t.r]
      /\ file[t.r] # 0 /\ t.r \in has
  BY <1>1, <1>2 DEF Open, UpType
<1>4. up' = {m} /\ rows' = rows /\ file' = file
  BY <1>1 DEF Open
<1>5. JobKnows(m)'
  <2>1. \A g \in Generations : At(m.r, g).sha # 0 => file[m.r] = At(m.r, g).sha
    BY <1>2, <1>3 DEF Vouching, At, Keys
  <2> QED  BY <1>3, <1>4, <2>1 DEF JobKnows, At
<1>6. Gentle
  BY UntouchedIsGentle DEF Open, settings, sessions
<1>7. TypeOK'
  BY <1>3, <1>4 DEF Open, settings, sessions, Keys
<1>8. HandsOn
  BY <1>2, <1>3, <1>4, <1>5 DEF Open, settings, sessions, HandsOn, Hands, Jobs
<1> QED  BY <1>6, <1>7, <1>8, GentleStep

LEMMA ClaimStep ==
  ASSUME Inv, NEW j \in up, ClaimRow(j)
  PROVE  Inv' /\ Gentle
<1> USE DEF Inv, TypeOK, LedgerTypeOK
<1> DEFINE m == [j EXCEPT !.at = "claimed"]
<1>1. j \in UpType /\ j.at = "opened" /\ j.r \in Landed /\ j.r \in Recordings
      /\ j.g \in Generations /\ JobKnows(j)
  BY DEF ClaimRow, Hands, Jobs, UpType
<1>2. m \in UpType /\ m.at = "claimed" /\ m.r = j.r /\ m.ver = j.ver
  BY <1>1, JobMoves DEF Ats
<1> HIDE DEF m
<1>3. up' \subseteq {m}
  BY DEF ClaimRow, Now, m
<1>4. Gentle /\ LedgerTypeOK'
  BY <1>1, MarkIsGentle DEF ClaimRow, Mishap, settings, sessions
<1>5. JobKnows(m)'
  <2>1. \A g \in Generations : At(m.r, g)'.sha = At(j.r, g).sha
    BY <1>1, <1>2, <1>4 DEF Gentle, Tame, At, Keys
  <2>2. file' = file
    BY DEF ClaimRow
  <2> QED  BY <1>1, <1>2, <2>1, <2>2 DEF JobKnows
<1>6. TypeOK'
  BY <1>2, <1>3, <1>4 DEF ClaimRow, Mishap, settings, sessions, Keys
<1>7. HandsOn
  BY <1>1, <1>2, <1>3, <1>5 DEF ClaimRow, settings, sessions, HandsOn, Hands, Jobs
<1> QED  BY <1>4, <1>6, <1>7, GentleStep

LEMMA HashStep ==
  ASSUME Inv, NEW j \in up, Hash(j)
  PROVE  Inv'
<1> USE DEF Inv, TypeOK, LedgerTypeOK
<1>1. PICK m : m = [j EXCEPT !.at = "hashed", !.sum = Content(j)]
  OBVIOUS
<1>2. j \in UpType /\ j.at = "claimed" /\ j.r \in Landed /\ JobKnows(j)
  BY DEF Hash, Hands, Jobs
<1>3. m \in UpType /\ m.at = "hashed" /\ m.r = j.r /\ m.ver = j.ver
  BY <1>1, <1>2, JobSums, ContentType
<1>4. up' = {m} /\ rows' = rows /\ file' = file
  BY <1>1 DEF Hash
<1>5. JobKnows(m)'
  BY <1>2, <1>3, <1>4 DEF JobKnows, At
<1>6. Gentle
  BY UntouchedIsGentle DEF Hash, settings, sessions
<1>7. TypeOK'
  BY <1>3, <1>4 DEF Hash, settings, sessions, Keys
<1>8. HandsOn
  BY <1>2, <1>3, <1>4, <1>5 DEF Hash, settings, sessions, HandsOn, Hands, Jobs
<1> QED  BY <1>6, <1>7, <1>8, GentleStep

LEMMA VerifyStep ==
  ASSUME Inv, NEW j \in up, Verify(j)
  PROVE  Inv'
<1> USE DEF Inv, TypeOK, LedgerTypeOK
<1> DEFINE m == [j EXCEPT !.at = "verified"]
<1>1. j \in UpType /\ j.at = "sent" /\ j.r \in Landed /\ JobKnows(j)
  BY DEF Verify, Hands, Jobs
<1>2. m \in UpType /\ m.at = "verified" /\ m.r = j.r /\ m.g = j.g /\ m.ver = j.ver /\ m.sum = j.sum
  BY <1>1, JobMoves DEF Ats
<1>3. up' = {m} /\ rows' = rows /\ file' = file /\ remote' = remote /\ has' = has
  BY DEF Verify, Now, sessions
<1> HIDE DEF m
<1>4. JobKnows(m)'
  BY <1>1, <1>2, <1>3 DEF JobKnows, At, Verify
<1>5. Gentle
  BY UntouchedIsGentle DEF Verify, settings, sessions
<1>6. TypeOK'
  BY <1>2, <1>3 DEF Verify, settings, sessions, Keys
<1>7. HandsOn
  BY <1>1, <1>2, <1>3, <1>4 DEF Verify, settings, sessions, HandsOn, Hands, Jobs
<1> QED  BY <1>5, <1>6, <1>7, GentleStep

LEMMA BackfillSteps ==
  ASSUME Inv,
         (\E r \in Recordings : Sweep(r)) \/ (\E j \in up : EnqueueBackfill(j))
  PROVE  Inv' /\ Gentle
<1> USE DEF Inv, TypeOK, LedgerTypeOK
<1>1. ASSUME NEW r \in Recordings, Sweep(r)  PROVE Inv' /\ Gentle
  <2>1. PICK m : m = [at |-> "enqueuing", r |-> r, g |-> current, att |-> 0, ver |-> 0, sum |-> 0]
    OBVIOUS
  <2>2. m \in UpType /\ m.at = "enqueuing" /\ m.r \in Landed
    BY <1>1, <2>1, CopiesAssumption DEF Sweep, InView, Unenqueued, UpType, Landed, Generations
  <2>3. up' = {m}
    BY <1>1, <2>1 DEF Sweep
  <2>4. JobKnows(m)'
    BY <2>2 DEF JobKnows
  <2>5. Gentle
    BY <1>1, UntouchedIsGentle DEF Sweep, settings, sessions
  <2>6. TypeOK' /\ HandsOn
    BY <1>1, <2>2, <2>3, <2>4 DEF Sweep, settings, sessions, HandsOn, Hands, Jobs, Keys
  <2> QED  BY <2>5, <2>6, GentleStep
<1>2. ASSUME NEW j \in up, EnqueueBackfill(j)  PROVE Inv' /\ Gentle
  <2>1. PICK m : m = [j EXCEPT !.at = "adopting", !.g = current]
    OBVIOUS
  <2>2. j \in UpType /\ j.r \in Landed /\ j.r \in Recordings
    BY DEF Hands, UpType
  <2>3. current # 0 => current \in Generations
    BY DEF Generations
  <2>4. current # 0 => m \in UpType /\ m.at = "adopting" /\ m.r = j.r
    BY <2>1, <2>2, <2>3, JobAdopts
  <2>5. up' \subseteq {m} /\ (up' # {} => current # 0)
    BY <1>2, <2>1 DEF EnqueueBackfill
  <2>6. Tame(Landed)
    BY <1>2, <2>2, <2>3, EnqueueIsTame, UntouchedIsTame DEF EnqueueBackfill, Hands, Keys
  <2>7. Gentle
    BY <1>2, <2>6, TamedIsGentle DEF EnqueueBackfill, sessions
  <2>8. current # 0 => JobKnows(m)'
    BY <2>4 DEF JobKnows
  <2>9. LedgerTypeOK' /\ up' \subseteq UpType
    BY <1>2, <2>4, <2>5, <2>6 DEF Tame, EnqueueBackfill, settings, Keys
  <2>10. Mishap \/ mishaps' = mishaps
    BY <1>2 DEF EnqueueBackfill
  <2>11. mishaps' \in Nat
    BY <2>10 DEF Mishap
  <2>12. TypeOK'
    BY <1>2, <2>9, <2>11 DEF EnqueueBackfill, settings, sessions, Keys
  <2>13. HandsOn
    BY <1>2, <2>2, <2>4, <2>5, <2>8 DEF EnqueueBackfill, settings, sessions, HandsOn, Hands, Jobs
  <2> QED  BY <2>7, <2>12, <2>13, GentleStep
<1> QED  BY <1>1, <1>2

-----------------------------------------------------------------------------
LEMMA RetentionStarts ==
  ASSUME Inv, NEW r \in Recordings, Walk(r) \/ FindExpired(r)
  PROVE  Inv'
<1> USE DEF Inv, TypeOK, LedgerTypeOK
<1>1. PICK c : c \in {Job("find", r, "walk"), Job("find", r, "sweep")} /\ ret' = {c}
  BY DEF Walk, FindExpired, Start
<1>2. c \in RetType /\ c.at = "find" /\ c.r = r /\ r \in due
  BY <1>1, LedgerAssumption DEF Job, RetType, Walk, FindExpired
<1>3. Gentle
  BY UntouchedIsGentle DEF Walk, FindExpired, settings, sessions
<1>4. TypeOK'
  BY <1>1, <1>2 DEF Walk, FindExpired, settings, sessions, Keys
<1>5. HandsOn
  BY <1>1, <1>2 DEF Walk, FindExpired, settings, sessions, HandsOn, Hands, Jobs
<1> QED  BY <1>3, <1>4, <1>5, GentleStep

LEMMA ReadStep ==
  ASSUME Inv, NEW c \in ret, ReadRow(c)
  PROVE  Inv'
<1> USE DEF Inv, TypeOK, LedgerTypeOK
<1>1. c \in RetType /\ c.r \in due /\ c.r \in Recordings /\ obj[c.r] \in 0..MaxGenerations
  BY DEF ReadRow, Hands, RetType
<1>2. ASSUME NEW d \in ret'
      PROVE  d \in RetType /\ d.r = c.r /\ d.at \in {"write", "clear"} /\ (d.at = "write" => d.g # 0)
  <2>1. CASE d = [c EXCEPT !.at = "clear"]
    BY <1>1, <2>1 DEF RetType
  <2>2. CASE obj[c.r] # 0 /\ \E at \in {"write", "clear"} : d = [c EXCEPT !.at = at, !.g = obj[c.r]]
    BY <1>1, <2>2 DEF RetType
  <2> QED  BY <2>1, <2>2 DEF ReadRow, Unsettled
<1>3. Gentle
  BY UntouchedIsGentle DEF ReadRow, settings, sessions
<1>4. mishaps' \in Nat
  BY DEF ReadRow, Mishap
<1>5. TypeOK'
  BY <1>2, <1>4 DEF ReadRow, settings, sessions, Keys
<1>6. HandsOn
  BY <1>1, <1>2 DEF ReadRow, settings, sessions, HandsOn, Hands, Jobs
<1> QED  BY <1>3, <1>5, <1>6, GentleStep

(* What the cache pass lists is uploaded, so its row has the hash; the     *)
(* list stays good since no update of a row takes the hash away.           *)
LEMMA CacheSteps ==
  ASSUME Inv, ListCached \/ LockForCache
  PROVE  Inv'
<1> USE DEF Inv, TypeOK, LedgerTypeOK
<1>1. ASSUME ListCached  PROVE Inv'
  <2>1. PICK S \in SUBSET Cached({"uploaded"}) : ret' = {Job("listed", r, "cache") : r \in S}
    BY <1>1 DEF ListCached
  <2>2. ASSUME NEW r \in S  PROVE r \in Recordings /\ HasCopy(r)
    BY DEF Cached, HasCopy, At, Hands, Keys
  <2>3. ASSUME NEW c \in ret'  PROVE c \in RetType /\ c.at = "listed" /\ HasCopy(c.r)
    BY <2>1, <2>2, LedgerAssumption DEF Job, RetType
  <2>4. Gentle
    BY <1>1, UntouchedIsGentle DEF ListCached, settings, sessions
  <2>5. TypeOK'
    BY <1>1, <2>3 DEF ListCached, settings, sessions, Keys
  <2>6. HandsOn
    BY <1>1, <2>3 DEF ListCached, settings, sessions, HandsOn, Hands, Jobs
  <2> QED  BY <2>4, <2>5, <2>6, GentleStep
<1>2. ASSUME LockForCache  PROVE Inv'
  <2>1. ASSUME NEW c \in ret'  PROVE c \in RetType /\ c.at = "evict" /\ HasCopy(c.r)
    <3>1. PICK d \in ret : c = [d EXCEPT !.at = "evict"]
      BY <1>2 DEF LockForCache
    <3>2. HasCopy(d.r) /\ d \in RetType
      BY <1>2 DEF LockForCache, Free, Cleaning
    <3> QED  BY <3>1, <3>2 DEF RetType
  <2>2. Gentle
    BY <1>2, UntouchedIsGentle DEF LockForCache, settings, sessions
  <2>3. TypeOK'
    BY <1>2, <2>1 DEF LockForCache, settings, sessions, Keys
  <2>4. HandsOn
    BY <1>2, <2>1 DEF LockForCache, settings, sessions, HandsOn, Hands, Jobs
  <2> QED  BY <2>2, <2>3, <2>4, GentleStep
<1> QED  BY <1>1, <1>2

LEMMA FetchStep ==
  ASSUME Inv, NEW r \in Recordings, Fetch(r)
  PROVE  Inv'
<1> USE DEF Inv, TypeOK, LedgerTypeOK
<1>1. obj[r] \in Generations
  BY DEF Fetch, Generations
<1>2. Gentle
  BY UntouchedIsGentle DEF Fetch, settings, sessions
<1>3. TypeOK'
  BY <1>1 DEF Fetch, settings, sessions, Keys
<1>4. HandsOn
  BY DEF Fetch, settings, sessions, HandsOn, Hands, Jobs, Landed
<1> QED  BY <1>2, <1>3, <1>4, GentleStep

-----------------------------------------------------------------------------
(* The steps that are not gentle.  A recording that lands is in nobody's   *)
(* hands yet, so its new file contradicts nothing.                         *)
LEMMA LandStep ==
  ASSUME Inv, NEW r \in Recordings, Land(r)
  PROVE  Inv' /\ Tame(Landed')
<1> USE DEF Inv, TypeOK, LedgerTypeOK
<1>1. r \notin Landed /\ Landed' = Landed \cup {r}
  BY DEF Land, Landed
<1>2. Tame(Landed')
  BY <1>1, EnqueueIsTame, UntouchedIsTame DEF Land, Hands, Keys, Generations
<1>3. \A q \in Recordings : q # r => file'[q] = file[q] /\ (q \in has' <=> q \in has)
  BY DEF Land
<1>4. \A k \in Keys : rows[k].sha # 0 => k[1] # r /\ k[1] \in Recordings
  BY <1>1 DEF Hands, Keys
<1>5. \A j \in up : j.r # r
  BY <1>1 DEF Hands
<1>6. TypeOK'
  <2>1. LedgerTypeOK' /\ obj' \in [Recordings -> 0..MaxGenerations]
    BY <1>2 DEF Tame, Land, settings, Keys
  <2> QED  BY <2>1 DEF Land, settings, Keys
<1>7. Hands'
  <2>1. \A k \in Keys : rows'[k].st # "none" \/ rows'[k].sha # 0 => k[1] \in Landed'
    BY <1>1, <1>2 DEF Hands, Tame, Keys
  <2>2. \A k \in Keys : rows'[k].st = "uploaded" => rows'[k].sha # 0
    BY <1>2 DEF Hands, Tame
  <2>3. \A k \in Keys : rows'[k].st = "none" => rows'[k].sha = 0
    BY <1>2 DEF Hands, Tame
  <2>4. UNCHANGED <<todo, up, ret, del, get, due, deleted>>
    BY DEF Land
  <2>5. /\ \A t \in todo : t.r \in Landed'
        /\ \A j \in up : j.r \in Landed'
        /\ \A k \in get : k[1] \in Landed'
    BY <1>1 DEF Hands
  <2> QED  BY <2>1, <2>2, <2>3, <2>4, <2>5 DEF Hands, Keys, Generations
<1>8. Vouching'
  <2> SUFFICES ASSUME NEW k \in Keys, rows'[k].sha # 0
               PROVE  /\ remote'[k] \in {rows'[k].sha, Rotten}
                      /\ k[1] \in has' => file'[k[1]] \in {0, rows'[k].sha}
    BY DEF Vouching
  <2>1. rows'[k].sha = rows[k].sha /\ remote' = remote
    BY <1>2 DEF Tame, Land
  <2> QED  BY <1>3, <1>4, <2>1 DEF Vouching
<1>9. Jobs'
  <2> SUFFICES ASSUME NEW j \in up  PROVE JobKnows(j)'
    BY DEF Jobs, Land
  <2>1. JobKnows(j) /\ j.r \in Recordings /\ j.r # r
    BY <1>5 DEF Jobs, UpType
  <2>2. \A g \in Generations : At(j.r, g)'.sha = At(j.r, g).sha
    BY <1>2, <2>1 DEF Tame, At, Keys
  <2>3. file'[j.r] = file[j.r] /\ remote' = remote /\ (j.r \in has' <=> j.r \in has)
    BY <1>3, <2>1 DEF Land
  <2> QED  BY <2>1, <2>2, <2>3 DEF JobKnows
<1>10. Cleaning'
  <2> SUFFICES ASSUME NEW c \in ret, c.at \in {"listed", "evict"}  PROVE HasCopy(c.r)'
    BY DEF Cleaning, Land
  <2>1. HasCopy(c.r) /\ c.r \in Recordings
    BY DEF Cleaning, RetType
  <2> QED  BY <1>2, <2>1 DEF Tame, At, HasCopy, Keys
<1> QED  BY <1>2, <1>6, <1>7, <1>8, <1>9, <1>10

LEMMA TailStep ==
  ASSUME Inv, NEW r \in Recordings, Tail(r)
  PROVE  Inv'
<1> USE DEF Inv, TypeOK, LedgerTypeOK
<1>1. /\ UNCHANGED <<rows, settings, sessions, remote, todo, up, ret, del, get>>
      /\ \A q \in Recordings : q # r => file'[q] = file[q]
      /\ \A g \in Generations : At(r, g).sha = 0
      /\ \A j \in up : j.r = r => j.at \notin {"verified", "owning"}
  BY DEF Tail, Seen
<1>2. TypeOK'
  BY <1>1 DEF Tail, Mishap, settings, sessions, Keys
<1>3. Hands'
  BY <1>1 DEF Hands, Landed, sessions
<1>4. Vouching'
  <2> SUFFICES ASSUME NEW k \in Keys, rows[k].sha # 0
               PROVE  /\ remote[k] \in {rows[k].sha, Rotten}
                      /\ k[1] \in has => file'[k[1]] \in {0, rows[k].sha}
    BY <1>1 DEF Vouching, sessions
  <2>1. k[1] \in Recordings /\ k[1] # r
    BY <1>1 DEF Keys, At
  <2> QED  BY <1>1, <2>1 DEF Vouching
<1>5. Jobs'
  <2> SUFFICES ASSUME NEW j \in up  PROVE JobKnows(j)'
    BY <1>1 DEF Jobs
  <2>1. JobKnows(j) /\ j.r \in Recordings
    BY DEF Jobs, UpType
  <2>2. CASE j.r = r
    BY <1>1, <2>1, <2>2 DEF JobKnows, At, sessions
  <2>3. CASE j.r # r
    BY <1>1, <2>1, <2>3 DEF JobKnows, At, sessions
  <2> QED  BY <2>2, <2>3
<1>6. Cleaning'
  BY <1>1 DEF Cleaning, HasCopy, At
<1> QED  BY <1>2, <1>3, <1>4, <1>5, <1>6

(* What is sent over a vouched copy is the same content again.             *)
LEMMA PutStep ==
  ASSUME Inv, NEW j \in up, Put(j)
  PROVE  Inv'
<1> USE DEF Inv, TypeOK, LedgerTypeOK
<1> DEFINE k0 == <<j.r, j.g>>
<1>1. PICK m, at : /\ at = IF Content(j) = j.sum THEN "sent" ELSE "changed"
                   /\ m = [j EXCEPT !.at = at]
  OBVIOUS
<1>2. j \in UpType /\ j.at = "hashed" /\ j.r \in Landed /\ JobKnows(j) /\ k0 \in Keys
      /\ Content(j) \in Nat
  BY ContentType DEF Put, Hands, Jobs, UpType, Keys
<1>3. /\ m \in UpType /\ m.r = j.r /\ m.g = j.g /\ m.ver = j.ver /\ m.sum = j.sum
      /\ m.at \in {"sent", "changed"} /\ (m.at = "sent" => Content(j) = j.sum)
  <2>1. at \in Ats
    BY <1>1 DEF Ats
  <2> QED  BY <1>1, <1>2, <2>1, JobMoves
<1>4. /\ up' = {m} /\ UNCHANGED <<rows, settings, file, sessions, todo, ret, del, get, mishaps>>
      /\ remote' = [remote EXCEPT ![k0] = Content(j)]
  BY <1>1 DEF Put, Now
<1>5. TypeOK'
  BY <1>2, <1>3, <1>4 DEF settings, sessions, Keys
<1>6. Hands'
  BY <1>2, <1>3, <1>4 DEF Hands, Landed, sessions
<1>7. rows[k0].sha # 0 => Content(j) = rows[k0].sha
  BY <1>2 DEF JobKnows, At, Content, UpType
<1>8. Vouching'
  <2> SUFFICES ASSUME NEW k \in Keys, rows[k].sha # 0
               PROVE  /\ remote'[k] \in {rows[k].sha, Rotten}
                      /\ k[1] \in has => file[k[1]] \in {0, rows[k].sha}
    BY <1>4 DEF Vouching, sessions
  <2>1. remote'[k] = IF k = k0 THEN Content(j) ELSE remote[k]
    BY <1>2, <1>4
  <2> QED  BY <1>7, <2>1 DEF Vouching, Keys
<1>9. Jobs'
  <2>1. JobKnows(m)'
    BY <1>2, <1>3, <1>4 DEF JobKnows
  <2> QED  BY <1>4, <2>1 DEF Jobs
<1>10. Cleaning'
  BY <1>4 DEF Cleaning, HasCopy, At
<1> QED  BY <1>5, <1>6, <1>8, <1>9, <1>10

LEMMA UploadedRow ==
  ASSUME NEW row \in RowType, NEW v \in Nat
  PROVE  LET m == [row EXCEPT !.st = "uploaded", !.sha = v]
         IN  m \in RowType /\ m.st = "uploaded" /\ m.sha = v
BY DEF RowType, States

(* The hash is recorded of what has been found in the bucket.              *)
LEMMA RecordStep ==
  ASSUME Inv, NEW j \in up, Record(j)
  PROVE  Inv'
<1> USE DEF Inv, TypeOK, LedgerTypeOK
<1> DEFINE k0 == <<j.r, j.g>>
<1>1. j \in UpType /\ j.at = "verified" /\ j.r \in Landed /\ j.r \in Recordings
      /\ j.g \in Generations /\ JobKnows(j) /\ k0 \in Keys
  BY DEF Record, Hands, Jobs, UpType, Keys
<1>2. /\ UNCHANGED <<settings, file, sessions, remote, todo, ret, del, get>>
      /\ Mishap \/ UNCHANGED mishaps
  BY DEF Record
<1>3. CASE up' = {} /\ UNCHANGED rows
  <2>1. Gentle
    BY <1>2, <1>3, UntouchedIsGentle DEF settings, sessions
  <2>2. TypeOK'
    BY <1>2, <1>3 DEF Mishap, settings, sessions, Keys
  <2>3. HandsOn
    BY <1>2, <1>3 DEF HandsOn, Hands, Jobs, sessions
  <2> QED  BY <2>1, <2>2, <2>3, GentleStep
<1>4. CASE MarkUploaded(j.r, j.g, j.sum) /\ Now(j, "owning")
  <2>1. PICK m, row : /\ m = [j EXCEPT !.at = "owning"]
                      /\ row = [At(j.r, j.g) EXCEPT !.st = "uploaded", !.sha = j.sum]
    OBVIOUS
  <2>2. At(j.r, j.g) \in RowType /\ j.sum \in Nat /\ j.ver # 0 /\ j.sum = j.ver
    BY <1>1 DEF At, Keys, JobKnows, UpType
  <2>3. row \in RowType /\ row.st = "uploaded" /\ row.sha = j.sum
    BY <2>1, <2>2, UploadedRow
  <2>4. m \in UpType /\ m.at = "owning" /\ m.r = j.r /\ m.ver = j.ver
    BY <2>1, <1>1, JobMoves DEF Ats
  <2>5. rows' = [rows EXCEPT ![k0] = row] /\ up' = {m}
    BY <1>4, <2>1 DEF MarkUploaded, Set, Now
  <2>6. /\ rows' \in [Keys -> RowType]
        /\ \A k \in Keys : rows'[k] = IF k = k0 THEN row ELSE rows[k]
    BY <1>1, <2>3, <2>5 DEF Keys
  <2>7. TypeOK'
    BY <1>2, <2>4, <2>5, <2>6 DEF Mishap, settings, sessions, Keys
  <2>8. Hands'
    <3>1. \A k \in Keys : rows'[k].st # "none" \/ rows'[k].sha # 0 => k[1] \in Landed
      BY <1>1, <2>6 DEF Hands, Keys
    <3>2. \A k \in Keys : rows'[k].st = "uploaded" => rows'[k].sha # 0
      BY <2>2, <2>3, <2>6 DEF Hands
    <3>3. \A k \in Keys : rows'[k].st = "none" => rows'[k].sha = 0
      BY <2>3, <2>6 DEF Hands
    <3>4. Landed' = Landed /\ UNCHANGED <<todo, ret, del, get, due, deleted>> /\ up' = {m}
      BY <1>2, <2>5 DEF Landed, sessions
    <3> QED  BY <1>1, <2>4, <3>1, <3>2, <3>3, <3>4 DEF Hands, Keys, Generations
  <2>9. Vouching'
    <3> SUFFICES ASSUME NEW k \in Keys, rows'[k].sha # 0
                 PROVE  /\ remote[k] \in {rows'[k].sha, Rotten}
                        /\ k[1] \in has => file[k[1]] \in {0, rows'[k].sha}
      BY <1>2 DEF Vouching, sessions
    <3>1. CASE k = k0
      BY <1>1, <2>2, <2>3, <2>6, <3>1 DEF JobKnows
    <3>2. CASE k # k0
      BY <2>6, <3>2 DEF Vouching
    <3> QED  BY <3>1, <3>2
  <2>10. Jobs'
    BY <2>2, <2>4, <2>5 DEF Jobs, JobKnows
  <2>11. Cleaning'
    <3> SUFFICES ASSUME NEW c \in ret, c.at \in {"listed", "evict"}  PROVE HasCopy(c.r)'
      BY <1>2 DEF Cleaning
    <3>1. PICK g \in Generations : At(c.r, g).sha # 0
      BY DEF Cleaning, HasCopy
    <3>2. c.r \in Recordings /\ <<c.r, g>> \in Keys
      BY DEF RetType, Keys
    <3>3. rows'[<<c.r, g>>].sha # 0
      BY <2>2, <2>3, <2>6, <3>1, <3>2 DEF At
    <3> QED  BY <3>3 DEF HasCopy, At
  <2> QED  BY <2>7, <2>8, <2>9, <2>10, <2>11
<1> QED  BY <1>3, <1>4 DEF Record

LEMMA RotStep ==
  ASSUME Inv, NEW k \in DOMAIN remote, Rot(k)
  PROVE  Inv'
<1> USE DEF Inv, TypeOK, LedgerTypeOK
<1>1. k \in Keys /\ remote' = [remote EXCEPT ![k] = Rotten]
      /\ UNCHANGED <<rows, settings, file, sessions, todo, up, ret, del, get>>
  BY DEF Rot
<1>2. \A q \in Keys : remote'[q] \in {remote[q], Rotten}
  BY <1>1
<1>3. TypeOK'
  BY <1>1 DEF Rot, Mishap, settings, sessions, Keys
<1>4. Hands' /\ Cleaning'
  BY <1>1 DEF Hands, Landed, sessions, Cleaning, HasCopy, At
<1>5. Vouching'
  BY <1>1, <1>2 DEF Vouching, sessions
<1>6. Jobs'
  <2> SUFFICES ASSUME NEW j \in up  PROVE JobKnows(j)'
    BY <1>1 DEF Jobs
  <2>1. JobKnows(j) /\ <<j.r, j.g>> \in Keys
    BY DEF Jobs, UpType, Keys
  <2> QED  BY <1>1, <1>2, <2>1 DEF JobKnows, At, sessions
<1> QED  BY <1>3, <1>4, <1>5, <1>6

-----------------------------------------------------------------------------
LEMMA InitInv == Init => Inv
<1> SUFFICES ASSUME Init  PROVE Inv
  OBVIOUS
<1> USE DEF Init, LedgerInit
<1>1. TypeOK
  <2>1. NoRow \in RowType
    BY DEF NoRow, RowType, States
  <2>2. LedgerTypeOK
    BY <2>1, LedgerAssumption DEF LedgerTypeOK
  <2>3. obj \in [Recordings -> 0..MaxGenerations] /\ last \in 0..MaxGenerations
    BY LedgerAssumption
  <2> QED  BY <2>2, <2>3 DEF TypeOK, Keys
<1>2. \A k \in Keys : rows[k].st = "none" /\ rows[k].sha = 0
  BY DEF Keys, NoRow
<1> QED  BY <1>1, <1>2 DEF Inv, Hands, Vouching, Jobs, Cleaning

LEMMA NextInv ==
  ASSUME Inv, [Next]_vars
  PROVE  Inv'
<1>1. CASE UploaderStep
  BY <1>1, ListDueStep, BackfillSteps, UploaderMarks, OpenStep, BystanderSteps, ClaimStep,
     HashStep, PutStep, VerifyStep, RecordStep, OwnStep DEF UploaderStep
<1>2. CASE RetentionStep
  BY <1>2, CacheSteps, RetentionStarts, ReadStep, OtherMarks, ClearStep, BystanderSteps
     DEF RetentionStep
<1>3. CASE ListCached \/ Crash \/ Switch \/ Disable
  BY <1>3, CacheSteps, BystanderSteps, SettingsSteps
<1>4. ASSUME NEW r \in Recordings,
             \/ Land(r) \/ Tail(r) \/ Quieten(r) \/ Expire(r)
             \/ DeleteTx(r) \/ RemoveFile(r) \/ Fetch(r)
      PROVE  Inv'
  BY <1>4, LandStep, TailStep, BystanderSteps, FetchStep
<1>5. ASSUME NEW g \in Generations,
             RevokeCredentials(g) \/ \E r \in Recordings : Retry(r, g)
      PROVE  Inv'
  BY <1>5, BystanderSteps, OtherMarks
<1>6. ASSUME NEW k \in get, RejectMismatch(k)  PROVE Inv'
  BY <1>6, OtherMarks
<1>7. ASSUME NEW k \in DOMAIN remote, Rot(k)  PROVE Inv'
  BY <1>7, RotStep
<1>8. ASSUME NEW s \in Gone, DeleteLost(s)  PROVE Inv'
  BY <1>8, BystanderSteps
<1>9. CASE UNCHANGED vars
  BY <1>9 DEF vars, settings, sessions, Inv, TypeOK, LedgerTypeOK, Hands, Landed, Vouching,
              Jobs, JobKnows, Cleaning, HasCopy, At
<1> QED  BY <1>1, <1>2, <1>3, <1>4, <1>5, <1>6, <1>7, <1>8, <1>9 DEF Next

(* The invariant the two results rest on.                                  *)
THEOREM Invariance == Spec => []Inv
<1>1. Inv /\ [Next]_vars => Inv'
  BY NextInv
<1> QED  BY InitInv, <1>1, PTL DEF Spec

(* The hash in the ledger is that of what the bucket has, through growing  *)
(* files, crashes between sending and recording, and sending again.        *)
THEOREM RecordedCopiesAreStored == Spec => []RecordedIsStored
<1>1. Inv => RecordedIsStored
  BY DEF Inv, Vouching, RecordedIsStored, TypeOK, LedgerTypeOK, Keys
<1> QED  BY Invariance, <1>1, PTL

-----------------------------------------------------------------------------
(* Refinement.  No update of a row but MarkUploaded touches the hash, so   *)
(* what is vouched changes with Record only, and only by growing.          *)
OnHost == {r \in Recordings : file[r] # 0}
Vouched == [r \in Recordings |-> {g \in Generations : At(r, g).sha # 0}]
Over == due \cup deleted

LEMMA ShadowUnmoved ==
  ASSUME rows' = rows \/ \E S : Tame(S)
  PROVE  Vouched' = Vouched
<1>1. \A r \in Recordings, g \in Generations : At(r, g)'.sha = At(r, g).sha
  BY DEF Tame, Keys, At
<1> QED  BY <1>1 DEF Vouched

LEMMA FilesUnmoved == ASSUME file' = file  PROVE OnHost' = OnHost
BY DEF OnHost

(* A file that is taken away leaves its recording to others.               *)
LEMMA FileGone ==
  ASSUME file \in [Recordings -> Nat], NEW r \in Recordings, file' = [file EXCEPT ![r] = 0]
  PROVE  OnHost' = OnHost \ {r}
BY DEF OnHost

LEMMA QuietShadow ==
  ASSUME Inv,
         \/ \E r \in Recordings : Quieten(r) \/ Fetch(r) \/ FindExpired(r) \/ Sweep(r)
         \/ \E t \in todo : NotReadyYet(t) \/ Open(t)
         \/ \E c \in ret : ReadRow(c) \/ ClearColumns(c)
         \/ \E g \in Generations : RevokeCredentials(g)
         \/ \E s \in Gone : DeleteLost(s)
         \/ \E j \in up : Hash(j) \/ Verify(j) \/ Own(j) \/ Put(j)
         \/ \E k \in DOMAIN remote : Rot(k)
         \/ Crash \/ ListDue \/ ListCached \/ LockForCache \/ UNCHANGED vars
  PROVE  UNCHANGED <<OnHost, Vouched, Over>>
<1>1. UNCHANGED <<rows, file, due, deleted>>
  BY DEF Quieten, Fetch, FindExpired, Sweep, NotReadyYet, Open, ReadRow, ClearColumns,
         RevokeCredentials, DeleteLost, Hash, Verify, Own, Put, Rot, Crash, ListDue, ListCached,
         LockForCache, vars, sessions
<1> QED  BY <1>1, ShadowUnmoved, FilesUnmoved DEF Over

LEMMA MarkShadow ==
  ASSUME Inv,
         \/ \E r \in Recordings, g \in Generations : ReapLease(r, g) \/ Retry(r, g)
         \/ \E t \in todo : OpenFailed(t)
         \/ \E j \in up : Fail(j) \/ ClaimRow(j) \/ EnqueueBackfill(j)
         \/ \E c \in ret : WriteRow(c)
         \/ \E k \in get : RejectMismatch(k)
         \/ Switch \/ Disable
  PROVE  UNCHANGED <<OnHost, Vouched, Over>>
<1>1. Gentle
  BY UploaderMarks, OtherMarks, ClaimStep, BackfillSteps, SettingsSteps
<1>2. UNCHANGED <<file, due, deleted>>
  BY DEF ReapLease, Retry, OpenFailed, Fail, ClaimRow, EnqueueBackfill, WriteRow,
         RejectMismatch, Switch, Disable, sessions
<1> QED  BY <1>1, <1>2, ShadowUnmoved, FilesUnmoved DEF Over, Gentle

LEMMA FinishShadow ==
  ASSUME NEW r \in Recordings, Expire(r) \/ DeleteTx(r)
  PROVE  Custody!Finish(r)
<1>1. UNCHANGED <<rows, file>> /\ Over' = Over \cup {r}
  BY DEF Expire, DeleteTx, Over
<1> QED  BY <1>1, ShadowUnmoved, FilesUnmoved DEF Custody!Finish, OnHost, Vouched, Over

LEMMA LandShadow ==
  ASSUME Inv, NEW r \in Recordings, Land(r)
  PROVE  Custody!Land(r)
<1>1. Vouched' = Vouched /\ Over' = Over
  BY LandStep, ShadowUnmoved DEF Land, Over
<1>2. r \notin OnHost \cup Over /\ OnHost' = OnHost \cup {r}
  BY DEF Land, OnHost, Over, Inv, TypeOK
<1>3. \A g \in Generations : At(r, g).sha = 0
  <2>1. r \notin Landed
    BY DEF Land, Landed
  <2> QED  BY <2>1 DEF Inv, Hands, At, Keys
<1>4. Vouched[r] = {}
  BY <1>3 DEF Vouched
<1> QED  BY <1>1, <1>2, <1>4 DEF Custody!Land, OnHost, Vouched, Over

(* The file goes: what the walk and a deletion remove is over, and what    *)
(* the cache pass removes was uploaded when it was listed.                 *)
LEMMA LeaveShadow ==
  ASSUME Inv, NEW r \in Recordings,
         r \in Over \/ HasCopy(r), UNCHANGED <<rows, due, deleted>>,
         file' = [file EXCEPT ![r] = 0]
  PROVE  Custody!Leave(r)
<1>1. Vouched' = Vouched /\ Over' = Over /\ OnHost' = OnHost \ {r}
  BY ShadowUnmoved, FileGone DEF Over, Inv, TypeOK
<1>2. Vouched[r] # {} \/ r \in Over
  BY DEF HasCopy, Vouched
<1> QED  BY <1>1, <1>2 DEF Custody!Leave, OnHost, Vouched, Over

LEMMA RecordShadow ==
  ASSUME Inv, NEW j \in up, Record(j)
  PROVE  [Custody!Next]_(Custody!vars)
<1> USE DEF Inv, TypeOK, LedgerTypeOK
<1>1. OnHost' = OnHost /\ Over' = Over
  BY FilesUnmoved DEF Record, sessions, Over
<1>2. CASE UNCHANGED rows
  BY <1>1, <1>2, ShadowUnmoved DEF Custody!vars, OnHost, Vouched, Over
<1>3. CASE MarkUploaded(j.r, j.g, j.sum)
  <2> DEFINE k0 == <<j.r, j.g>>
  <2>1. j.r \in Recordings /\ j.g \in Generations /\ k0 \in Keys /\ j.sum \in Nat \ {0}
    BY DEF Record, UpType, Keys, Jobs, JobKnows
  <2>2. PICK row : row = [At(j.r, j.g) EXCEPT !.st = "uploaded", !.sha = j.sum]
    OBVIOUS
  <2>3. row.sha = j.sum
    BY <2>1, <2>2, UploadedRow DEF At, Keys
  <2>4. \A k \in Keys : rows'[k] = IF k = k0 THEN row ELSE rows[k]
    BY <1>3, <2>1, <2>2 DEF MarkUploaded, Set, Keys
  <2>5. \A r \in Recordings, g \in Generations :
          At(r, g)'.sha # 0 <=> At(r, g).sha # 0 \/ (r = j.r /\ g = j.g)
    BY <2>1, <2>3, <2>4 DEF At, Keys
  <2>6. Vouched' = [Vouched EXCEPT ![j.r] = @ \cup {j.g}]
    BY <2>1, <2>5 DEF Vouched
  <2>7. Custody!Vouch(j.r, j.g)
    BY <1>1, <2>6 DEF Custody!Vouch, OnHost, Vouched, Over
  <2> QED  BY <2>1, <2>7 DEF Custody!Next
<1> QED  BY <1>2, <1>3 DEF Record

LEMMA GoneShadow ==
  ASSUME Inv,
         \/ \E r \in Recordings : Walk(r) \/ RemoveFile(r)
         \/ \E c \in ret : Evict(c)
  PROVE  [Custody!Next]_(Custody!vars)
<1>1. UNCHANGED <<rows, due, deleted>>
  BY DEF Walk, RemoveFile, Evict, sessions
<1>2. CASE file' = file
  BY <1>1, <1>2, ShadowUnmoved, FilesUnmoved DEF Custody!vars, OnHost, Vouched, Over
<1>3. ASSUME NEW r \in Recordings, Walk(r) \/ RemoveFile(r), file' # file
      PROVE  Custody!Leave(r)
  BY <1>1, <1>3, LeaveShadow DEF Walk, RemoveFile, Over, Inv, Hands
<1>4. ASSUME NEW c \in ret, Evict(c), file' # file  PROVE c.r \in Recordings /\ Custody!Leave(c.r)
  <2>1. c.r \in Recordings /\ HasCopy(c.r)
    BY <1>4 DEF Evict, Inv, Cleaning, TypeOK, RetType
  <2>2. file' = [file EXCEPT ![c.r] = 0]
    BY <1>4, <2>1 DEF Evict, Inv, TypeOK
  <2> QED  BY <1>1, <2>1, <2>2, LeaveShadow
<1> QED  BY <1>2, <1>3, <1>4 DEF Custody!Next

LEMMA TailShadow ==
  ASSUME Inv, NEW r \in Recordings, Tail(r)
  PROVE  UNCHANGED <<OnHost, Vouched, Over>>
<1>1. UNCHANGED <<rows, due, deleted>> /\ file' = [file EXCEPT ![r] = file[r] + 1]
      /\ file[r] # 0 /\ file \in [Recordings -> Nat]
  BY DEF Tail, sessions, Inv, TypeOK
<1>2. OnHost' = OnHost
  BY <1>1 DEF OnHost
<1> QED  BY <1>1, <1>2, ShadowUnmoved DEF Over

LEMMA NextShadow ==
  ASSUME Inv, [Next]_vars
  PROVE  [Custody!Next]_(Custody!vars)
<1>1. ASSUME UNCHANGED <<OnHost, Vouched, Over>>  PROVE UNCHANGED Custody!vars
  BY <1>1 DEF Custody!vars, OnHost, Vouched, Over
<1>2. CASE UploaderStep
  BY <1>1, <1>2, QuietShadow, MarkShadow, RecordShadow DEF UploaderStep
<1>3. CASE RetentionStep
  BY <1>1, <1>3, QuietShadow, MarkShadow, GoneShadow DEF RetentionStep
<1>4. CASE ListCached \/ Crash \/ Switch \/ Disable \/ UNCHANGED vars
  BY <1>1, <1>4, QuietShadow, MarkShadow
<1>5. ASSUME NEW r \in Recordings,
             \/ Land(r) \/ Tail(r) \/ Quieten(r) \/ Expire(r)
             \/ DeleteTx(r) \/ RemoveFile(r) \/ Fetch(r)
      PROVE  [Custody!Next]_(Custody!vars)
  <2>1. CASE Land(r)
    BY <2>1, LandShadow DEF Custody!Next
  <2>2. CASE Expire(r) \/ DeleteTx(r)
    BY <2>2, FinishShadow DEF Custody!Next
  <2>3. CASE Tail(r)
    BY <1>1, <2>3, TailShadow
  <2>4. CASE Quieten(r) \/ Fetch(r)
    BY <1>1, <2>4, QuietShadow
  <2>5. CASE RemoveFile(r)
    BY <2>5, GoneShadow
  <2> QED  BY <1>5, <2>1, <2>2, <2>3, <2>4, <2>5
<1>6. ASSUME NEW g \in Generations,
             RevokeCredentials(g) \/ \E r \in Recordings : Retry(r, g)
      PROVE  [Custody!Next]_(Custody!vars)
  BY <1>1, <1>6, QuietShadow, MarkShadow
<1>7. ASSUME NEW k \in get, RejectMismatch(k)  PROVE [Custody!Next]_(Custody!vars)
  BY <1>1, <1>7, MarkShadow
<1>8. ASSUME NEW k \in DOMAIN remote, Rot(k)  PROVE [Custody!Next]_(Custody!vars)
  BY <1>1, <1>8, QuietShadow
<1>9. ASSUME NEW s \in Gone, DeleteLost(s)  PROVE [Custody!Next]_(Custody!vars)
  BY <1>1, <1>9, QuietShadow
<1> QED  BY <1>2, <1>3, <1>4, <1>5, <1>6, <1>7, <1>8, <1>9 DEF Next

(* The ledger, its uploader, the retention and the deletion together keep  *)
(* a recording until somebody else has it or its time is over.             *)
THEOREM CopiesImplementCustody == Spec => ImplementsCustody
<1>1. Init => Custody!Init
  <2> SUFFICES ASSUME Init  PROVE Custody!Init
    OBVIOUS
  <2>1. \A r \in Recordings, g \in Generations : At(r, g).sha = 0
    BY DEF Init, LedgerInit, At, NoRow
  <2> QED  BY <2>1 DEF Init, Custody!Init
<1>2. Inv /\ [Next]_vars => [Custody!Next]_(Custody!vars)
  BY NextShadow
<1> QED  BY Invariance, <1>1, <1>2, PTL DEF Spec, ImplementsCustody, Custody!Spec
=============================================================================
