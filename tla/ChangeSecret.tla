---------------------------- MODULE ChangeSecret ----------------------------
(***************************************************************************)
(* internal/modules/asset: the change of one account's secret.  Jobs (of   *)
(* plans and batches) exclude one another by the account's mutex; retries, *)
(* by the scheduler or by hand, and an administrator who clears the        *)
(* candidate take no mutex and work from the candidate's row, which        *)
(* outlives the process.                                                   *)
(*                                                                         *)
(* The target executes what it is sent when it likes: the answer of a      *)
(* command may be lost before or after it takes effect.                    *)
(***************************************************************************)
EXTENDS Naturals, FiniteSets

CONSTANTS
  MaxJobs,     \* bound: runs of a plan or batch on the account
  Scheduler,   \* the periodic retry, one at a time (SkipIfStillRunning)
  Clickers,    \* requests of the candidate's retry button
  Methods,     \* of "password", "append" and "exclusive", those to consider
  MaxMishaps,  \* bound: crashes, lost answers and failed steps
  Free, None   \* nobody holds the mutex; there is no candidate

ASSUME JobBound == MaxJobs \in Nat
ASSUME RetrySides == Scheduler \notin Clickers
ASSUME MishapBound == MaxMishaps \in Nat
ASSUME MethodsKnown == Methods \subseteq {"password", "append", "exclusive"}

\* A job is known by when it took the mutex, and its secret by the job.
Jobs == 1..MaxJobs
Original == 0
Secrets == 0..MaxJobs

\* A row of the candidate table: whose it is, the rest for the retries.
CandType == [job : Jobs, bound : BOOLEAN, applied : BOOLEAN, aged : BOOLEAN, abandoned : BOOLEAN]
ASSUME NobodyNamed == None \notin Secrets /\ None \notin CandType /\ Free \notin Jobs

Retriers == Clickers \cup {Scheduler}

VARIABLES
  method,       \* secret type and key strategy of the plan
  accepted,     \* the secrets the target lets in
  wire,         \* jobs whose remote command may still be executed
  stored,       \* the effective version of the account's credential
  versions,     \* every version of it: rows are only ever appended
  cand,         \* the account's row of the candidate table, or None
  lock,         \* holder of the account's mutex, or Free
  jobs,         \* per job: where it is, what it read
  retry,        \* per retrier: where it is, its copy of the candidate
  revoked,      \* has the initiator lost the right to rotate?
  surrendered,  \* candidates an administrator has cleared
  mishaps       \* how many mishaps have happened

vars == <<method, accepted, wire, stored, versions, cand, lock, jobs, retry,
          revoked, surrendered, mishaps>>

target == <<accepted, wire>>
vault  == <<stored, versions>>
people == <<revoked, surrendered>>

Ended == {"success", "failed", "unverified", "skipped", "killed"}
Underway == {"locked", "created", "cleared", "read", "sent", "executed", "applied",
             "dialing", "verified", "restoring", "commit", "rejected", "stopped"}

NoRetry == [pc |-> "idle", job |-> None, applied |-> FALSE]

Init ==
  /\ method \in Methods
  /\ accepted = {Original} /\ wire = {}
  /\ stored = Original /\ versions = {Original}
  /\ cand = None /\ lock = Free
  /\ jobs = [j \in Jobs |-> [pc |-> "idle", old |-> Original, file |-> {}]]
  /\ retry = [r \in Retriers |-> NoRetry]
  /\ revoked = FALSE /\ surrendered = {} /\ mishaps = 0

Holds(j) == cand # None /\ cand.job = j
NewCandidate(j) == [job |-> j, bound |-> FALSE, applied |-> FALSE, aged |-> FALSE, abandoned |-> FALSE]

\* The first handshake for a candidate binds it to the host's identity: a
\* conditional update, which fails for a row that is bound or gone.
MayBind(j) == Holds(j) /\ ~cand.bound
Bind(j) == MayBind(j) /\ cand' = [cand EXCEPT !.bound = TRUE]

At(j, pc) == jobs[j].pc = pc
Goto(j, pc) == jobs' = [jobs EXCEPT ![j].pc = pc] /\ UNCHANGED lock

\* The job's record is saved and the mutex released.
Finish(j, status) == jobs' = [jobs EXCEPT ![j].pc = status] /\ lock' = Free

Mishap == mishaps < MaxMishaps /\ mishaps' = mishaps + 1
Smoothly == UNCHANGED mishaps

\* Delete by the row's id: a row that is gone already is not an error.
Discard(j) == cand' = IF Holds(j) THEN None ELSE cand

\* A failure noted after the deadline gives the candidate up, and keeps it.
RecordFailure(j) ==
  cand' = IF Holds(j) THEN [cand EXCEPT !.abandoned = cand.aged] ELSE cand

CommitUnchecked(j) ==          \* a bug: a row that has gone is not noticed
  /\ stored' = j /\ versions' = versions \cup {j}
  /\ cand' = None

\* New version, effective version and the end of the row in one transaction,
\* which is rolled back when the row is gone.
CommitCandidate(j) ==
  /\ Holds(j)
  /\ stored' = j /\ versions' = versions \cup {j}
  /\ cand' = None

Unverified(j) == RecordFailure(j) /\ Finish(j, "unverified")

-----------------------------------------------------------------------------
(* A job: runTarget, runTargetSteps, rotatePassword, rotateKey.            *)

Acquire(j) ==
  /\ At(j, "idle") /\ \A k \in Jobs : k < j => ~At(k, "idle")
  /\ lock = Free
  /\ lock' = j /\ jobs' = [jobs EXCEPT ![j].pc = "locked"]
  /\ UNCHANGED <<method, target, vault, cand, retry, people, mishaps>>

\* The right is checked again, then a pending candidate; the account's secret
\* is read; the candidate is on disk before the target hears of it.
CreateCandidate(j) ==
  /\ At(j, "locked")
  /\ \/ /\ revoked \/ cand # None
        /\ Finish(j, "skipped") /\ Smoothly /\ UNCHANGED cand
     \/ /\ ~revoked /\ cand = None
        /\ \/ /\ cand' = NewCandidate(j)
              /\ jobs' = [jobs EXCEPT ![j].pc = "created", ![j].old = stored]
              /\ Smoothly /\ UNCHANGED lock
           \/ Mishap /\ Finish(j, "failed") /\ UNCHANGED cand
  /\ UNCHANGED <<method, target, vault, retry, people>>

\* The last check before the old secret is sent, and what fails without any
\* contact with the target.
Recheck(j) ==
  /\ At(j, "created")
  /\ \/ ~revoked /\ Goto(j, "cleared") /\ Smoothly
     \/ revoked /\ Goto(j, "stopped") /\ Smoothly
     \/ Mishap /\ Goto(j, "rejected")
  /\ UNCHANGED <<method, target, vault, cand, retry, people>>

\* The handshake binds the candidate or sends nothing; then the login with the
\* old secret; for a key, the file is read.
Login(j) ==
  /\ At(j, "cleared")
  /\ \/ /\ Bind(j)
        /\ \/ /\ jobs[j].old \in accepted
              /\ jobs' = [jobs EXCEPT ![j].pc = "read", ![j].file = accepted]
              /\ Smoothly /\ UNCHANGED lock
           \/ jobs[j].old \notin accepted /\ Goto(j, "rejected") /\ Smoothly
           \/ Mishap /\ Goto(j, "rejected")
     \/ ~MayBind(j) /\ Goto(j, "rejected") /\ Smoothly /\ UNCHANGED cand
  /\ UNCHANGED <<method, target, vault, retry, people>>

\* For a key the right is checked once more before the first write.
Send(j) ==
  /\ At(j, "read")
  /\ IF method # "password" /\ revoked
     THEN Goto(j, "stopped") /\ UNCHANGED wire
     ELSE Goto(j, "sent") /\ wire' = wire \cup {j}
  /\ UNCHANGED <<method, accepted, vault, cand, retry, people, mishaps>>

\* chpasswd replaces the secret; a key is added, or replaces the whole file.
Effect(j) == IF method = "append" THEN jobs[j].file \cup {j} ELSE {j}

\* The target does it, perhaps long after the job has stopped waiting.
Execute(j) ==
  /\ j \in wire
  /\ accepted' = Effect(j) /\ wire' = wire \ {j}
  /\ IF At(j, "sent") THEN Goto(j, "executed") ELSE UNCHANGED <<jobs, lock>>
  /\ UNCHANGED <<method, vault, cand, retry, people, mishaps>>

\* A non-zero exit status, or a write the server refuses: nothing was changed.
Refuse(j) ==
  /\ At(j, "sent") /\ Mishap
  /\ wire' = wire \ {j} /\ Goto(j, "rejected")
  /\ UNCHANGED <<method, accepted, vault, cand, retry, people>>

LoseAnswerRejected(j) ==       \* a bug: of chpasswd too it is a refusal
  /\ At(j, "sent") \/ At(j, "executed")
  /\ Mishap /\ Goto(j, "rejected")
  /\ UNCHANGED <<method, target, vault, cand, retry, people>>

\* A connection that breaks leaves chpasswd unknown; the write of the key file
\* is taken for a refusal.
LoseAnswer(j) ==
  /\ At(j, "sent") \/ At(j, "executed")
  /\ Mishap
  /\ IF method = "password" THEN Finish(j, "unverified") ELSE Goto(j, "rejected")
  /\ UNCHANGED <<method, target, vault, cand, retry, people>>

\* The row is marked; that the mark fails is only logged.
Answer(j) ==
  /\ At(j, "executed")
  /\ Goto(j, "applied")
  /\ \/ /\ cand' = IF Holds(j) THEN [cand EXCEPT !.applied = TRUE] ELSE cand
        /\ Smoothly
     \/ Mishap /\ UNCHANGED cand
  /\ UNCHANGED <<method, target, vault, retry, people>>

\* The row is read again before the dial: gone, or bound to another host
\* identity, the new secret is not sent and nothing is undone.
PrepareVerify(j) ==
  /\ At(j, "applied")
  /\ \/ Holds(j) /\ Goto(j, "dialing") /\ Smoothly /\ UNCHANGED cand
     \/ ~Holds(j) /\ Unverified(j) /\ Smoothly
     \/ Mishap /\ Unverified(j)
  /\ UNCHANGED <<method, target, vault, retry, people>>

AfterVerify == IF method = "append" THEN "verified" ELSE "commit"

\* Login with the new secret.  A key that fails is taken back, unless it was
\* the host's identity that changed.
Verify(j) ==
  /\ At(j, "dialing")
  /\ \/ j \in accepted /\ Goto(j, AfterVerify) /\ Smoothly /\ UNCHANGED cand
     \/ /\ \/ j \notin accepted /\ Smoothly
           \/ Mishap
        /\ \/ Unverified(j)
           \/ method # "password" /\ Goto(j, "restoring") /\ UNCHANGED cand
  /\ UNCHANGED <<method, target, vault, retry, people>>

\* The file is written back as it was read, on the connection still open.
Restore(j) ==
  /\ At(j, "restoring")
  /\ \/ accepted' = jobs[j].file /\ Goto(j, "rejected") /\ Smoothly /\ UNCHANGED cand
     \/ accepted' \in {accepted, jobs[j].file} /\ Mishap /\ Unverified(j)
  /\ UNCHANGED <<method, wire, vault, retry, people>>

\* The right is checked once more before the old key goes; that it cannot be
\* taken out is only logged.
Prune(j) ==
  /\ At(j, "verified")
  /\ \/ revoked /\ Unverified(j) /\ Smoothly /\ UNCHANGED accepted
     \/ /\ ~revoked /\ Goto(j, "commit") /\ UNCHANGED cand
        /\ \/ accepted' = (jobs[j].file \cup {j}) \ {jobs[j].old} /\ Smoothly
           \/ Mishap /\ UNCHANGED accepted
  /\ UNCHANGED <<method, wire, vault, retry, people>>

Promote(j) ==
  /\ At(j, "commit")
  /\ \/ CommitCandidate(j) /\ Finish(j, "success") /\ Smoothly
     \/ ~Holds(j) /\ Unverified(j) /\ Smoothly /\ UNCHANGED vault
     \/ Mishap /\ Unverified(j) /\ UNCHANGED vault
  /\ UNCHANGED <<method, target, retry, people>>

\* The target was certainly not changed: the candidate goes.
GiveUp(j) ==
  /\ \/ At(j, "rejected") /\ Finish(j, "failed")
     \/ At(j, "stopped") /\ Finish(j, "skipped")
  /\ Discard(j)
  /\ UNCHANGED <<method, target, vault, retry, people, mishaps>>

JobStep(j) ==
  \/ Acquire(j) \/ CreateCandidate(j) \/ Recheck(j) \/ Login(j) \/ Send(j)
  \/ Refuse(j) \/ LoseAnswer(j) \/ Answer(j) \/ PrepareVerify(j) \/ Verify(j)
  \/ Restore(j) \/ Prune(j) \/ Promote(j) \/ GiveUp(j)

-----------------------------------------------------------------------------
(* A retry: RetryOneAsResult, with the copy of the row it was given.       *)

RetryAt(r, pc) == retry[r].pc = pc
RetryGoto(r, pc) == retry' = [retry EXCEPT ![r].pc = pc]
RetryEnds(r) ==
  retry' = [retry EXCEPT ![r] = IF r = Scheduler THEN NoRetry ELSE [NoRetry EXCEPT !.pc = "over"]]
NoteFailure(r) == RecordFailure(retry[r].job) /\ RetryEnds(r)

\* A round of the scheduler.  RunDue advances the members of rotations first,
\* which waits for other mutexes and for commands without a deadline; then it
\* reads what is due.  Only rounds in which the candidate is due are looked at.
ComeRound ==
  /\ RetryAt(Scheduler, "idle") /\ RetryGoto(Scheduler, "due")
  /\ UNCHANGED <<method, target, vault, cand, lock, jobs, people, mishaps>>

PassBy ==
  /\ RetryAt(Scheduler, "due") /\ RetryEnds(Scheduler)
  /\ cand # None => cand.abandoned
  /\ UNCHANGED <<method, target, vault, cand, lock, jobs, people, mishaps>>

Ready(r) == RetryAt(r, IF r = Scheduler THEN "due" ELSE "idle")

PickLocked(r) ==               \* a bug: a retry waits for the mutex
  /\ Ready(r) /\ cand # None /\ lock = Free
  /\ r = Scheduler => ~cand.abandoned
  /\ retry' = [retry EXCEPT ![r] = [pc |-> "picked", job |-> cand.job, applied |-> cand.applied]]
  /\ UNCHANGED <<method, target, vault, cand, lock, jobs, people, mishaps>>

\* RunDue takes what is not abandoned; the button takes any candidate.
Pick(r) ==
  /\ Ready(r) /\ cand # None
  /\ r = Scheduler => ~cand.abandoned
  /\ retry' = [retry EXCEPT ![r] = [pc |-> "picked", job |-> cand.job, applied |-> cand.applied]]
  /\ UNCHANGED <<method, target, vault, cand, lock, jobs, people, mishaps>>

\* Without the right only what the target is known to have done is verified,
\* and only before the deadline.
MayRetry(r) == revoked => retry[r].applied /\ (Holds(retry[r].job) => ~cand.aged)

Revalidate(r) ==
  /\ RetryAt(r, "picked")
  /\ \/ /\ MayRetry(r) /\ Holds(retry[r].job) /\ Smoothly /\ UNCHANGED cand
        /\ RetryGoto(r, IF cand.bound THEN "dialing" ELSE "binding")
     \/ MayRetry(r) /\ ~Holds(retry[r].job) /\ RetryEnds(r) /\ Smoothly /\ UNCHANGED cand
     \/ ~MayRetry(r) /\ NoteFailure(r) /\ Smoothly
     \/ Mishap /\ NoteFailure(r)
  /\ UNCHANGED <<method, target, vault, lock, jobs, people>>

\* The retry of a candidate that no handshake has bound is its first.
BindAgain(r) ==
  /\ RetryAt(r, "binding")
  /\ \/ Bind(retry[r].job) /\ RetryGoto(r, "dialing")
     \/ ~MayBind(retry[r].job) /\ NoteFailure(r)
  /\ UNCHANGED <<method, target, vault, lock, jobs, people, mishaps>>

VerifyAgain(r) ==
  /\ RetryAt(r, "dialing")
  /\ \/ retry[r].job \in accepted /\ RetryGoto(r, "commit") /\ Smoothly /\ UNCHANGED cand
     \/ retry[r].job \notin accepted /\ NoteFailure(r) /\ Smoothly
     \/ Mishap /\ NoteFailure(r)
  /\ UNCHANGED <<method, target, vault, lock, jobs, people>>

\* A row that has gone in the meantime is nothing to note.
PromoteRetried(r) ==
  /\ RetryAt(r, "commit")
  /\ \/ CommitCandidate(retry[r].job) /\ RetryEnds(r) /\ Smoothly
     \/ ~Holds(retry[r].job) /\ RetryEnds(r) /\ Smoothly /\ UNCHANGED <<cand, vault>>
     \/ Mishap /\ NoteFailure(r) /\ UNCHANGED vault
  /\ UNCHANGED <<method, target, lock, jobs, people>>

RetryStep(r) == Pick(r) \/ Revalidate(r) \/ BindAgain(r) \/ VerifyAgain(r) \/ PromoteRetried(r)

-----------------------------------------------------------------------------
(* Everybody else.                                                         *)

Revoke ==
  /\ ~revoked /\ revoked' = TRUE
  /\ UNCHANGED <<method, target, vault, cand, lock, jobs, retry, surrendered, mishaps>>

\* Twenty-four hours after its creation.
Age ==
  /\ cand # None /\ ~cand.aged
  /\ cand' = [cand EXCEPT !.aged = TRUE]
  /\ UNCHANGED <<method, target, vault, lock, jobs, retry, people, mishaps>>

DiscardByAdmin ==
  /\ cand # None
  /\ surrendered' = surrendered \cup {cand.job} /\ cand' = None
  /\ UNCHANGED <<method, target, vault, lock, jobs, retry, revoked, mishaps>>

\* The process dies: mutex, jobs and retries with it, rows and commands not.
Crash ==
  /\ Mishap
  /\ jobs' = [j \in Jobs |-> IF jobs[j].pc \in Underway
                                 THEN [jobs[j] EXCEPT !.pc = "killed"] ELSE jobs[j]]
  /\ retry' = [r \in Retriers |-> IF r = Scheduler \/ RetryAt(r, "idle")
                                    THEN NoRetry ELSE [NoRetry EXCEPT !.pc = "over"]]
  /\ lock' = Free
  /\ UNCHANGED <<method, target, vault, cand, people>>

Next ==
  \/ \E j \in Jobs : JobStep(j) \/ Execute(j)
  \/ \E r \in Retriers : RetryStep(r)
  \/ ComeRound \/ PassBy
  \/ Revoke \/ Age \/ DiscardByAdmin \/ Crash

Spec == Init /\ [][Next]_vars

\* Nothing is assumed of the jobs: a command on the target has no deadline,
\* and one that hangs keeps the mutex.  Nor of the rounds, which may get stuck
\* before the list is read and after; only that reading it waits for nobody.
FairSpec == Spec /\ WF_vars(Pick(Scheduler)) /\ WF_vars(PassBy)

-----------------------------------------------------------------------------
TypeOK ==
  /\ method \in {"password", "append", "exclusive"}
  /\ accepted \subseteq Secrets /\ wire \subseteq Jobs
  /\ stored \in Secrets /\ versions \subseteq Secrets
  /\ cand \in CandType \cup {None}
  /\ lock \in Jobs \cup {Free}
  /\ jobs \in [Jobs -> [pc : Ended \cup Underway \cup {"idle"}, old : Secrets, file : SUBSET Secrets]]
  /\ retry \in [Retriers -> [pc : {"idle", "due", "picked", "binding", "dialing", "commit", "over"},
                             job : Jobs \cup {None}, applied : BOOLEAN]]
  /\ revoked \in BOOLEAN /\ surrendered \subseteq Jobs
  /\ mishaps \in Nat

\* Whatever is lost, delayed, retried or killed, and unless an administrator
\* has cleared a candidate: the target takes a secret that the vault holds.
\* For a password it is the effective version or the candidate; for a key that
\* is added it may be an earlier version (see FailedLocksNobodyOut); for a file that is
\* replaced there is no such promise (the answer of the write may be lost).
Candidates == IF cand = None THEN {} ELSE {cand.job}
NeverLockedOut ==
  surrendered = {} =>
    /\ method = "password" => accepted \cap ({stored} \cup Candidates) # {}
    /\ method = "append" => accepted \cap (versions \cup Candidates) # {}

\* The candidate is the only copy of a secret that may be in effect: it is
\* made before the target hears of it, becomes the account's secret only when
\* the target takes it, and is dropped only when the target never will.
Vault == INSTANCE CredentialVault WITH
  exact <- method = "password", current <- stored, travelling <- wire,
  candidate <- IF cand = None THEN None ELSE cand.job
ImplementsVault == Vault!Spec

\* A password that has taken effect becomes the account's although the job
\* that sent it hangs or was killed, while the deadline and the right last:
\* provided that the scheduler reads what is due again and again.
RoundsGoOn == []<>RetryAt(Scheduler, "due")
LateCommit ==
  RoundsGoOn =>
    \A j \in Jobs :
      method = "password" /\ Holds(j) /\ j \in accepted
        ~> stored = j \/ revoked \/ surrendered # {} \/ (cand # None /\ cand.aged)

\* A rotation of a key that ends as failed has put the file back: the old
\* credential works as before and nobody is locked out.
FailedLocksNobodyOut ==
  [][\A j \in Jobs : At(j, "rejected") /\ jobs'[j].pc = "failed" => stored \in accepted]_vars
=============================================================================
