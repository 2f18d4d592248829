--------------------------- MODULE OffsiteCopies ---------------------------
(***************************************************************************)
(* Recordings on the host and their copies in a bucket.  Around the ledger *)
(* work, without a lock in common: the uploader (internal/offsite/         *)
(* uploader.go), one goroutine that takes pending rows one at a time; the  *)
(* retention job and the deletion of a recording (internal/modules/        *)
(* session), which share RecordingService.mu; the fetcher; and the admin   *)
(* who switches, stops or revokes the storage settings.                    *)
(*                                                                         *)
(* The content of a file is its version: a graphics recording may still    *)
(* grow (Tail) after its session.  The code does not claim to see what is  *)
(* written after the uploader's last look; here nothing is.  Left out: the *)
(* exports, which take the same path, the status the sessions table caches *)
(* for display, and the fetcher's spool.                                   *)
(***************************************************************************)
EXTENDS OffsiteLedger

CONSTANTS Graphics,        \* the recordings written by guacd
          Gone,            \* sessions whose file on the host is lost
          BackfillBatch,   \* backfillScanBatch, 200 in the code
          MaxMishaps       \* bound on crashes, failed writes, rotten copies,
                           \* late growth, revoked credentials, retries

(* A recording is known by the id of its session: the newer, the larger.   *)
ASSUME CopiesAssumption ==
  /\ Recordings \cup Gone \subseteq Nat /\ IsFiniteSet(Recordings \cup Gone)
  /\ Graphics \subseteq Recordings /\ Gone \cap Recordings = {}
  /\ BackfillBatch \in Nat \ {0} /\ MaxMishaps \in Nat

VARIABLES
  last,       \* the generation activated last
  revoked,    \* generations whose credentials are revoked
  running,    \* is there a goroutine of the uploader?
  file,       \* the version of the file on the host, 0 if there is none
  has,        \* sessions with a recording_path
  obj,        \* offsite_object_id: the generation of the row, 0 for NULL
  quiet,      \* recordings whose session is over and grace period past
  due,        \* recordings whose retention has ended
  deleted,    \* recordings an administrator deleted
  lost,       \* those of Gone that are not deleted: has_recording, no row
  remote,     \* what the bucket has: a version, 0 or Rotten
  todo,       \* the rows of this cycle as they were listed
  up,         \* the uploader's job in hand, if it has one
  ret,        \* the retention job's: one, or the files it is to evict
  del,        \* the recording whose deletion is committed, its file not gone
  get,        \* rows whose copy the fetcher found to be wrong
  mishaps     \* how many there have been

settings == <<current, last, revoked, running>>
sessions == <<has, obj, quiet, due, deleted, lost>>
vars == <<rows, settings, file, sessions, remote, todo, up, ret, del, get, mishaps>>

Rotten == -1

Init ==
  /\ LedgerInit /\ last = 0 /\ revoked = {} /\ running = FALSE
  /\ file = [r \in Recordings |-> 0] /\ has = {} /\ quiet = {}
  /\ obj = [r \in Recordings |-> 0] /\ due = {} /\ deleted = {} /\ lost = Gone
  /\ remote = [k \in Recordings \X Generations |-> 0]
  /\ todo = {} /\ up = {} /\ ret = {} /\ del = {} /\ get = {}
  /\ mishaps = 0

Mishap == mishaps < MaxMishaps /\ mishaps' = mishaps + 1

-----------------------------------------------------------------------------
(* UpdateRecording, when a session ends: the columns and the row in one    *)
(* transaction.  Without a current generation there is no row.             *)
Land(r) ==
  /\ r \notin has \cup due \cup deleted /\ file[r] = 0
  /\ file' = [file EXCEPT ![r] = 1] /\ has' = has \cup {r}
  /\ quiet' = IF r \in Graphics THEN quiet ELSE quiet \cup {r}
  /\ IF current = 0 THEN UNCHANGED <<rows, obj>>
     ELSE EnqueueTx(r, current) /\ obj' = [obj EXCEPT ![r] = current]
  /\ UNCHANGED <<settings, due, deleted, lost, remote, todo, up, ret, del, get, mishaps>>

Seen(r) == \/ \E g \in Generations : At(r, g).sha # 0
           \/ \E j \in up : j.r = r /\ j.at \in {"verified", "owning"}

Tail(r) ==
  /\ Mishap /\ r \in Graphics /\ file[r] # 0 /\ ~Seen(r)
  /\ file' = [file EXCEPT ![r] = @ + 1]
  /\ UNCHANGED <<rows, settings, sessions, remote, todo, up, ret, del, get>>

Quieten(r) ==
  /\ r \in has \ quiet /\ quiet' = quiet \cup {r}
  /\ UNCHANGED <<rows, settings, file, has, obj, due, deleted, lost, remote, todo, up,
                 ret, del, get, mishaps>>

Expire(r) ==
  /\ r \in (has \cup deleted) \ due /\ due' = due \cup {r}
  /\ UNCHANGED <<rows, settings, file, has, obj, quiet, deleted, lost, remote, todo, up,
                 ret, del, get, mishaps>>

-----------------------------------------------------------------------------
Idle == up = {} /\ todo = {}

(* A cycle starts with the leases, then lists what is due.                 *)
ReapLease(r, g) ==
  /\ Idle /\ Reap(r, g)
  /\ UNCHANGED <<settings, file, sessions, remote, todo, up, ret, del, get, mishaps>>

ListDue ==
  /\ Idle
  /\ todo' = {[r |-> k[1], g |-> k[2], att |-> rows[k].att] :
                k \in {k \in DOMAIN rows : rows[k].st = "pending"}}
  /\ todo' # {}
  /\ UNCHANGED <<rows, settings, file, sessions, remote, up, ret, del, get, mishaps>>

(* processOne.  The file is opened before the row is claimed.              *)
Open(t) ==
  /\ up = {} /\ t \in todo /\ t.r \in has \cap quiet /\ file[t.r] # 0
  /\ up' = {[at |-> "opened", r |-> t.r, g |-> t.g, att |-> t.att + 1,
             ver |-> file[t.r], sum |-> 0]}
  /\ todo' = todo \ {t}
  /\ UNCHANGED <<rows, settings, file, sessions, remote, ret, del, get, mishaps>>

NotReadyYet(t) ==
  /\ up = {} /\ t \in todo /\ t.r \in has \ quiet /\ file[t.r] # 0
  /\ todo' = todo \ {t}
  /\ UNCHANGED <<rows, settings, file, sessions, remote, up, ret, del, get, mishaps>>

OpenFailed(t) ==
  /\ up = {} /\ t \in todo
  /\ todo' = todo \ {t}
  /\ \/ MarkFailed(t.r, t.g, t.att + 1) /\ UNCHANGED mishaps
     \/ Mishap /\ UNCHANGED rows
  /\ UNCHANGED <<settings, file, sessions, remote, up, ret, del, get>>

Now(j, at) == up' = {[j EXCEPT !.at = at]}

ClaimRow(j) ==
  /\ j \in up /\ j.at = "opened"
  /\ \/ Claim(j.r, j.g) /\ Now(j, "claimed") /\ UNCHANGED mishaps
     \/ At(j.r, j.g).st # "pending" /\ up' = {} /\ UNCHANGED <<rows, mishaps>>
     \/ Mishap /\ up' = {} /\ UNCHANGED rows
  /\ UNCHANGED <<settings, file, sessions, remote, todo, ret, del, get>>

(* What the open file gives, also when its name is gone.                   *)
Content(j) == IF file[j.r] # 0 THEN file[j.r] ELSE j.ver

Hash(j) ==
  /\ j \in up /\ j.at = "claimed" /\ j.g \notin revoked
  /\ up' = {[j EXCEPT !.at = "hashed", !.sum = Content(j)]}
  /\ UNCHANGED <<rows, settings, file, sessions, remote, todo, ret, del, get, mishaps>>

PutUnchecked(j) ==             \* a bug: what was sent is not compared with the hash
  /\ j \in up /\ j.at = "hashed"
  /\ remote' = [remote EXCEPT ![<<j.r, j.g>>] = Content(j)]
  /\ Now(j, "sent")
  /\ UNCHANGED <<rows, settings, file, sessions, todo, ret, del, get, mishaps>>

(* The bytes are hashed again while they are sent.                         *)
Put(j) ==
  /\ j \in up /\ j.at = "hashed"
  /\ remote' = [remote EXCEPT ![<<j.r, j.g>>] = Content(j)]
  /\ Now(j, IF Content(j) = j.sum THEN "sent" ELSE "changed")
  /\ UNCHANGED <<rows, settings, file, sessions, todo, ret, del, get, mishaps>>

(* Head gives the size in the bucket, Stat that of the file if it is there.*)
Verify(j) ==
  /\ j \in up /\ j.at = "sent" /\ j.sum = j.ver
  /\ j.r \in has /\ file[j.r] # 0 => file[j.r] = j.ver
  /\ Now(j, "verified")
  /\ UNCHANGED <<rows, settings, file, sessions, remote, todo, ret, del, get, mishaps>>

Record(j) ==
  /\ j \in up /\ j.at = "verified"
  /\ \/ MarkUploaded(j.r, j.g, j.sum) /\ Now(j, "owning") /\ UNCHANGED mishaps
     \/ Mishap /\ up' = {} /\ UNCHANGED rows
  /\ UNCHANGED <<settings, file, sessions, remote, todo, ret, del, get>>

(* SetStatus of the owner, after an upload or a row made by the backfill.  *)
Own(j) ==
  /\ j \in up /\ j.at \in {"owning", "adopting"}
  /\ up' = {}
  /\ \/ obj' = [obj EXCEPT ![j.r] = j.g] /\ UNCHANGED mishaps
     \/ Mishap /\ UNCHANGED obj
  /\ UNCHANGED <<rows, settings, file, has, quiet, due, deleted, lost, remote, todo,
                 ret, del, get>>

(* An error on the way, or a panic: a panic may also come last.            *)
Fail(j) ==
  /\ j \in up /\ j.at \in {"claimed", "hashed", "changed", "sent", "owning"}
  /\ up' = {}
  /\ \/ MarkFailed(j.r, j.g, j.att) /\ UNCHANGED mishaps
     \/ Mishap /\ UNCHANGED rows
  /\ UNCHANGED <<settings, file, sessions, remote, todo, ret, del, get>>

(* ListUnenqueued gives the newest that have no row, also those the        *)
(* backfill passes over: without a file, or past their retention.          *)
Unenqueued == lost \cup {r \in has : obj[r] = 0}
Newer(S, r) == Cardinality({s \in S : s > r})
InView(r) == r \in Unenqueued /\ Newer(Unenqueued, r) < BackfillBatch

(* The backfill, in the same goroutine: a session that has no row yet.     *)
Sweep(r) ==
  /\ Idle /\ current # 0
  /\ InView(r) /\ r \notin due /\ file[r] # 0
  /\ up' = {[at |-> "enqueuing", r |-> r, g |-> current, att |-> 0, ver |-> 0, sum |-> 0]}
  /\ UNCHANGED <<rows, settings, file, sessions, remote, todo, ret, del, get, mishaps>>

EnqueueBackfillLax(j) ==       \* a bug: the row found is not given to its owner
  /\ j \in up /\ j.at = "enqueuing"
  /\ \/ current # 0 /\ EnqueueTx(j.r, current) /\ up' = {} /\ UNCHANGED mishaps
     \/ current = 0 /\ up' = {} /\ UNCHANGED <<rows, mishaps>>
     \/ Mishap /\ up' = {} /\ UNCHANGED rows
  /\ UNCHANGED <<settings, file, sessions, remote, todo, ret, del, get>>

EnqueueBackfill(j) ==
  /\ j \in up /\ j.at = "enqueuing"
  /\ \/ /\ current # 0 /\ EnqueueTx(j.r, current)
        /\ up' = {[j EXCEPT !.at = "adopting", !.g = current]}
        /\ UNCHANGED mishaps
     \/ current = 0 /\ up' = {} /\ UNCHANGED <<rows, mishaps>>
     \/ Mishap /\ up' = {} /\ UNCHANGED rows
  /\ UNCHANGED <<settings, file, sessions, remote, todo, ret, del, get>>

UploaderStep ==
  /\ running
  /\ \/ ListDue
     \/ \E r \in Recordings : Sweep(r) \/ \E g \in Generations : ReapLease(r, g)
     \/ \E t \in todo : Open(t) \/ NotReadyYet(t) \/ OpenFailed(t)
     \/ \E j \in up : \/ ClaimRow(j) \/ Hash(j) \/ Put(j) \/ Verify(j) \/ Record(j)
                      \/ Own(j) \/ Fail(j) \/ EnqueueBackfill(j)

-----------------------------------------------------------------------------
(* RecordingService.mu is free: the list of a cache pass is made before.   *)
Free == del = {} /\ \A c \in ret : c.at = "listed"
Start(c) == ret = {} /\ Free /\ ret' = {c}
Job(at, r, via) == [at |-> at, r |-> r, g |-> 0, via |-> via]

(* CleanupOldRecordings: the file first, the tables afterwards.            *)
Walk(r) ==
  /\ r \in due /\ file[r] # 0
  /\ Start(Job("find", r, "walk"))
  /\ file' = [file EXCEPT ![r] = 0]
  /\ UNCHANGED <<rows, settings, sessions, remote, todo, up, del, get, mishaps>>

(* PurgeExpiredOffsiteRecords: those whose file went before.               *)
FindExpired(r) ==
  /\ r \in due \cap has /\ obj[r] # 0 /\ file[r] = 0
  /\ Start(Job("find", r, "sweep"))
  /\ UNCHANGED <<rows, settings, file, sessions, remote, todo, up, del, get, mishaps>>

(* The walk clears the columns whatever the ledger says; the sweep only    *)
(* what it could settle.                                                   *)
Unsettled(c) == IF c.via = "walk" THEN {[c EXCEPT !.at = "clear"]} ELSE {}

ReadRowForeignKept(c) ==       \* a bug: what is foreign is left as it is, columns and all
  /\ c \in ret /\ c.at = "find" /\ UNCHANGED mishaps
  /\ IF c.r \notin has \/ obj[c.r] = 0 THEN ret' = Unsettled(c)
     ELSE IF At(c.r, obj[c.r]).st \in Purgeable
          THEN ret' = {[c EXCEPT !.at = "write", !.g = obj[c.r]]} ELSE ret' = {}
  /\ UNCHANGED <<rows, settings, file, sessions, remote, todo, up, del, get>>

(* MarkLocalPurged reads the row and decides, then writes without looking. *)
ReadRow(c) ==
  /\ c \in ret /\ c.at = "find"
  /\ \/ /\ (c.r \notin has \/ obj[c.r] = 0)
        /\ ret' = Unsettled(c) /\ UNCHANGED mishaps
     \/ /\ c.r \in has /\ obj[c.r] # 0
        /\ LET st == At(c.r, obj[c.r]).st
           IN ret' = IF st = "uploading" THEN Unsettled(c)
                     ELSE {[c EXCEPT !.at = IF st \in Purgeable THEN "write" ELSE "clear",
                                     !.g = obj[c.r]]}
        /\ UNCHANGED mishaps
     \/ Mishap /\ ret' = Unsettled(c)
  /\ UNCHANGED <<rows, settings, file, sessions, remote, todo, up, del, get>>

WriteRow(c) ==
  /\ c \in ret /\ c.at = "write"
  /\ \/ MarkPurged(c.r, c.g) /\ ret' = {[c EXCEPT !.at = "clear"]} /\ UNCHANGED mishaps
     \/ Mishap /\ ret' = Unsettled(c) /\ (UNCHANGED rows \/ MarkPurged(c.r, c.g))
  /\ UNCHANGED <<settings, file, sessions, remote, todo, up, del, get>>

ClearColumns(c) ==
  /\ c \in ret /\ c.at = "clear" /\ ret' = {}
  /\ \/ has' = has \ {c.r} /\ UNCHANGED mishaps
     \/ Mishap /\ UNCHANGED has
  /\ UNCHANGED <<rows, settings, file, obj, quiet, due, deleted, lost, remote, todo, up,
                 del, get>>

(* PurgeOffsiteLocalCache: rows uploaded long enough ago, listed before    *)
(* the mutex is taken and not looked at again.  Without a file to remove   *)
(* the listing changes nothing.                                            *)
Cached(states) ==
  {r \in Recordings : file[r] # 0 /\ \E g \in Generations : At(r, g).st \in states}

ListCachedAny ==               \* a bug: any row that is not waiting will do
  /\ ret = {}
  /\ \E S \in SUBSET Cached({"uploaded", "foreign", "purged"}) :
       S # {} /\ ret' = {Job("listed", r, "cache") : r \in S}
  /\ UNCHANGED <<rows, settings, file, sessions, remote, todo, up, del, get, mishaps>>

ListCached ==
  /\ ret = {}
  /\ \E S \in SUBSET Cached({"uploaded"}) :
       S # {} /\ ret' = {Job("listed", r, "cache") : r \in S}
  /\ UNCHANGED <<rows, settings, file, sessions, remote, todo, up, del, get, mishaps>>

LockForCache ==
  /\ ret # {} /\ Free
  /\ ret' = {[c EXCEPT !.at = "evict"] : c \in ret}
  /\ UNCHANGED <<rows, settings, file, sessions, remote, todo, up, del, get, mishaps>>

Evict(c) ==
  /\ c \in ret /\ c.at = "evict" /\ ret' = ret \ {c}
  /\ file' = [file EXCEPT ![c.r] = IF c.r \in has THEN 0 ELSE @]
  /\ UNCHANGED <<rows, settings, sessions, remote, todo, up, del, get, mishaps>>

RetentionStep ==
  \/ LockForCache
  \/ \E r \in Recordings : Walk(r) \/ FindExpired(r)
  \/ \E c \in ret : ReadRow(c) \/ WriteRow(c) \/ ClearColumns(c) \/ Evict(c)

-----------------------------------------------------------------------------
(* DeleteRecording: the transaction under the mutex, then the file.        *)
DeleteTx(r) ==
  /\ Free /\ r \in has
  /\ has' = has \ {r} /\ deleted' = deleted \cup {r} /\ del' = {r}
  /\ UNCHANGED <<rows, settings, file, obj, quiet, due, lost, remote, todo, up, ret, get,
                 mishaps>>

(* The same, of a session that has no row and no file.                     *)
DeleteLost(s) ==
  /\ Free /\ s \in lost /\ lost' = lost \ {s}
  /\ UNCHANGED <<rows, settings, file, has, obj, quiet, due, deleted, remote, todo, up,
                 ret, del, get, mishaps>>

RemoveFile(r) ==
  /\ r \in del /\ del' = {}
  /\ \/ file' = [file EXCEPT ![r] = 0] /\ UNCHANGED mishaps
     \/ Mishap /\ UNCHANGED file
  /\ UNCHANGED <<rows, settings, sessions, remote, todo, up, ret, get>>

(* The settings: each one transaction under an advisory lock.  Who writes  *)
(* them has the uploader started; that they are stopped does not stop it.  *)
Switch ==
  /\ last < MaxGenerations
  /\ last' = last + 1 /\ current' = last + 1 /\ running' = TRUE
  /\ IF current = 0 THEN UNCHANGED rows ELSE MarkForeign(current)
  /\ UNCHANGED <<revoked, file, sessions, remote, todo, up, ret, del, get, mishaps>>

Disable ==
  /\ current # 0 /\ current' = 0 /\ MarkForeign(current)
  /\ UNCHANGED <<last, revoked, running, file, sessions, remote, todo, up, ret, del, get,
                 mishaps>>

RevokeCredentials(g) ==
  /\ Mishap /\ g \in 1..last \ revoked /\ revoked' = revoked \cup {g}
  /\ UNCHANGED <<rows, current, last, running, file, sessions, remote, todo, up, ret, del,
                 get>>

Retry(r, g) ==
  /\ Mishap /\ RetryFailed(r, g)
  /\ UNCHANGED <<settings, file, sessions, remote, todo, up, ret, del, get>>

(* Fetch, for a recording not on the host.  One that finds what was stored *)
(* changes nothing; one that does not marks the row when it is through.    *)
Fetch(r) ==
  /\ r \in has /\ file[r] = 0 /\ obj[r] # 0 /\ obj[r] \notin revoked
  /\ LET row == At(r, obj[r]) IN
       /\ row.st # "mismatch" /\ row.sha # 0 /\ remote[<<r, obj[r]>>] # row.sha
       /\ get' = get \cup {<<r, obj[r]>>}
  /\ UNCHANGED <<rows, settings, file, sessions, remote, todo, up, ret, del, mishaps>>

RejectMismatch(k) ==
  /\ k \in get /\ get' = get \ {k}
  /\ MarkIntegrityMismatch(k[1], k[2]) /\ obj' = [obj EXCEPT ![k[1]] = k[2]]
  /\ UNCHANGED <<settings, file, has, quiet, due, deleted, lost, remote, todo, up, ret, del,
                 mishaps>>

Rot(k) ==
  /\ Mishap /\ remote[k] > 0
  /\ remote' = [remote EXCEPT ![k] = Rotten]
  /\ UNCHANGED <<rows, settings, file, sessions, todo, up, ret, del, get>>

(* The process that takes over has an uploader if there is a generation.   *)
Crash ==
  /\ Mishap
  /\ running' = (current # 0)
  /\ todo' = {} /\ up' = {} /\ ret' = {} /\ del' = {} /\ get' = {}
  /\ UNCHANGED <<rows, current, last, revoked, file, sessions, remote>>

-----------------------------------------------------------------------------
Next ==
  \/ UploaderStep \/ RetentionStep \/ ListCached \/ Crash \/ Switch \/ Disable
  \/ \E r \in Recordings : \/ Land(r) \/ Tail(r) \/ Quieten(r) \/ Expire(r)
                           \/ DeleteTx(r) \/ RemoveFile(r) \/ Fetch(r)
  \/ \E g \in Generations : \/ RevokeCredentials(g)
                            \/ \E r \in Recordings : Retry(r, g)
  \/ \E s \in Gone : DeleteLost(s)
  \/ \E k \in get : RejectMismatch(k)
  \/ \E k \in DOMAIN remote : Rot(k)

Spec == Init /\ [][Next]_vars

(* The uploader's loop, where there is one, and the daily retention run on *)
(* as long as the process does, a deletion goes on to the file, sessions   *)
(* end and their last writes get old.                                      *)
Fairness ==
  /\ WF_vars(UploaderStep) /\ WF_vars(RetentionStep)
  /\ \A r \in Recordings : WF_vars(Quieten(r)) /\ WF_vars(RemoveFile(r))

FairSpec == Spec /\ Fairness

-----------------------------------------------------------------------------
(* The product never loses a recording before its time: the file on the    *)
(* host goes only when the ledger vouches for a copy, or the recording has *)
(* expired or was deleted, and the ledger vouches for a copy for good.  No *)
(* list the cache pass made a while ago and no switch in between may make  *)
(* it otherwise.                                                           *)
Custody == INSTANCE EvidenceCustody WITH
             Buckets <- Generations,
             onHost <- {r \in Recordings : file[r] # 0},
             vouched <- [r \in Recordings |-> {g \in Generations : At(r, g).sha # 0}],
             over <- due \cup deleted
ImplementsCustody == Custody!Spec

(* The hash the ledger keeps is that of what the bucket has, although the  *)
(* file may grow and go while it is sent, and a crash between sending and  *)
(* recording has it sent again: what differs has rotted in the bucket.     *)
RecordedIsStored ==
  \A k \in DOMAIN rows : rows[k].sha # 0 => remote[k] \in {rows[k].sha, Rotten}

(* A row that waits or is being sent comes to an end while there is an     *)
(* uploader, whatever became of its generation: the attempts count up to   *)
(* their limit on every way an upload can fail.                            *)
Waiting(k) == rows[k].st \in {"pending", "uploading"}
RowsSettle ==
  \A k \in Recordings \X Generations :
    Waiting(k) /\ running ~> ~Waiting(k) \/ ~running

(* A recording that ended without settings is found by the backfill once   *)
(* there is a generation, unless newer ones that it passes over fill its   *)
(* view: without a file, or past their retention.                          *)
PassedOver == lost \cup {r \in has : obj[r] = 0 /\ (file[r] = 0 \/ r \in due)}
Overlooked(r) == /\ r \in Unenqueued \ PassedOver /\ current # 0
                 /\ Newer(PassedOver, r) < BackfillBatch
BackfillCovers == \A r \in Recordings : Overlooked(r) ~> ~Overlooked(r)

(* Past its retention a recording is no longer served, from the host or    *)
(* from the bucket, also if an upload was in hand when the job came by:    *)
(* unless its row is left as being sent, and nobody is there to reap it.   *)
Served(r) == r \in has /\ (file[r] # 0 \/ obj[r] # 0)
Stranded(r) == ~running /\ obj[r] # 0 /\ At(r, obj[r]).st = "uploading"
ExpiredLeaves == \A r \in Recordings : r \in due ~> ~Served(r) \/ Stranded(r)
=============================================================================
