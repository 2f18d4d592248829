------------------------ MODULE ChangeSecret_proofs ------------------------
(***************************************************************************)
(* For any number of jobs, requests and mishaps: nobody is locked out, and *)
(* the change of a secret implements the vault of its candidate.           *)
(*                                                                         *)
(* The invariant follows a secret through its three ages: unsent, under    *)
(* way (on the wire), landed.  Only what has landed is anywhere to be      *)
(* seen, and a secret lands once.                                          *)
(***************************************************************************)
EXTENDS ChangeSecret, TLAPS

Unsent(j) == jobs[j].pc \in {"idle", "locked", "created", "cleared", "read", "stopped"}
Fresh(j) == jobs[j].pc \in {"idle", "locked"}
Landed(j) == ~Unsent(j) /\ j \notin wire

Mutex == \A j \in Jobs : jobs[j].pc \in Underway <=> lock = j

\* Where a secret can be seen that has not landed: nowhere.
Landing ==
  /\ \A j \in Jobs : Unsent(j) => j \notin wire
  /\ \A j \in Jobs : jobs[j].pc = "sent" => j \in wire
  /\ \A j \in Jobs :
       jobs[j].pc \in {"executed", "applied", "dialing", "verified", "restoring", "commit"}
         => Landed(j)
  /\ \A j \in Jobs : j \in accepted => Landed(j)
  /\ \A j \in Jobs : j \in versions => Landed(j)
  /\ \A j, k \in Jobs : j \in jobs[k].file => Landed(j)

\* What a job under way has made is a candidate, a version, or surrendered.
Keeping ==
  /\ \A j \in Jobs : jobs[j].pc \in Underway \ {"locked"}
                       => Holds(j) \/ j \in versions \/ j \in surrendered
  /\ \A j \in Jobs : Fresh(j) => ~Holds(j) /\ j \notin surrendered

HasRead(j) ==
  jobs[j].pc \in {"read", "sent", "executed", "applied", "dialing", "verified", "restoring"}

\* The old secret a job goes by is a version, and in the file it has read.
Files ==
  /\ stored \in versions
  /\ \A j \in Jobs : jobs[j].old \in versions /\ jobs[j].old # j
  /\ \A j \in Jobs : HasRead(j) \/ j \in wire => jobs[j].old \in jobs[j].file

\* A password: one secret at a time, the vault's or the candidate's.
Exact ==
  method = "password" =>
    /\ \A j \in Jobs : j \in wire => Holds(j) \/ j \in surrendered
    /\ \A j \in Jobs : jobs[j].pc \notin {"verified", "restoring"}
    /\ \A j \in Jobs : jobs[j].pc = "rejected" => j \notin accepted /\ j \notin wire
    /\ surrendered = {} =>
         /\ accepted = {stored} \/ \E j \in Jobs : Holds(j) /\ accepted = {j}
         /\ \A j \in Jobs : Holds(j) /\ jobs[j].pc = "commit" => j \in accepted

\* A key: a version is let in, or a candidate whose job has verified it.
Added ==
  method = "append" /\ surrendered = {} =>
    \/ accepted \cap versions # {}
    \/ \E j \in Jobs : /\ Holds(j) /\ j \in accepted
                       /\ jobs[j].pc \in {"commit", "unverified", "killed"}

\* A retry knows a candidate that was made, and has logged in with its secret
\* before it commits: nobody changes a password while the candidate is there.
Verified(j) ==
  /\ Landed(j)
  /\ method = "password" /\ surrendered = {} /\ Holds(j) => j \in accepted
Retrying ==
  \A r \in Retriers :
    \/ retry[r].pc \in {"idle", "due", "over"}
    \/ /\ retry[r].job \in Jobs /\ ~Fresh(retry[r].job)
       /\ retry[r].pc = "commit" => Verified(retry[r].job)

Inv == TypeOK /\ Mutex /\ Landing /\ Keeping /\ Files /\ Exact /\ Added /\ Retrying

LEMMA RetryingKept ==
  ASSUME Retrying, UNCHANGED retry,
         \A k \in Jobs : ~Fresh(k) => ~Fresh(k)' /\ (Verified(k) => Verified(k)')
  PROVE  Retrying'
BY DEF Retrying, Fresh, Verified, Landed, Unsent, Holds, Retriers

-----------------------------------------------------------------------------
(* Types.                                                                  *)

JobType == [pc : Ended \cup Underway \cup {"idle"}, old : Secrets, file : SUBSET Secrets]
RetryType == [pc : {"idle", "due", "picked", "binding", "dialing", "commit", "over"},
              job : Jobs \cup {None}, applied : BOOLEAN]

LEMMA Names == /\ Jobs \subseteq Secrets /\ Original \in Secrets /\ Original \notin Jobs
               /\ None \notin Jobs /\ None \notin CandType /\ Free \notin Jobs
BY JobBound, NobodyNamed DEF Jobs, Secrets, Original

LEMMA JobMoves ==
  ASSUME TypeOK, NEW j \in Jobs, NEW p \in Ended \cup Underway,
         Goto(j, p) \/ Finish(j, p)
  PROVE  /\ jobs' \in [Jobs -> JobType] /\ lock' \in Jobs \cup {Free}
         /\ jobs' = [jobs EXCEPT ![j].pc = p]
BY DEF TypeOK, Goto, Finish, JobType

LEMMA CandMoves ==
  ASSUME TypeOK, NEW j,
         RecordFailure(j) \/ Bind(j) \/ Discard(j) \/ CommitCandidate(j) \/ UNCHANGED cand
  PROVE  cand' \in CandType \cup {None}
<1>1. cand \in CandType \cup {None}
  BY DEF TypeOK, CandType
<1>2. CASE RecordFailure(j) /\ Holds(j)
  <2>1. cand \in CandType /\ cand' = [cand EXCEPT !.abandoned = cand.aged]
    BY <1>1, <1>2 DEF RecordFailure, Holds
  <2> QED  BY <2>1 DEF CandType
<1>3. CASE Bind(j)
  <2>1. cand \in CandType /\ cand' = [cand EXCEPT !.bound = TRUE]
    BY <1>1, <1>3 DEF Bind, MayBind, Holds
  <2> QED  BY <2>1 DEF CandType
<1> QED  BY <1>1, <1>2, <1>3 DEF RecordFailure, Discard, CommitCandidate

LEMMA TypeOfJobStep ==
  ASSUME TypeOK, NEW j \in Jobs, JobStep(j)
  PROVE  TypeOK'
<1> USE DEF Ended, Underway
<1>0. /\ jobs \in [Jobs -> JobType] /\ accepted \subseteq Secrets /\ j \in Secrets
      /\ jobs[j].file \subseteq Secrets /\ stored \in Secrets
  BY Names DEF TypeOK, JobType
<1>1. CASE Acquire(j)
  BY <1>1 DEF Acquire, TypeOK, vars, target, vault, people
<1>2. CASE CreateCandidate(j)
  <2>1. CASE cand' = NewCandidate(j) /\ jobs' = [jobs EXCEPT ![j].pc = "created", ![j].old = stored]
             /\ Smoothly /\ UNCHANGED lock
    <3>1. NewCandidate(j) \in CandType
      BY DEF NewCandidate, CandType
    <3>2. jobs' \in [Jobs -> JobType]
      BY <1>0, <2>1 DEF JobType
    <3> QED  BY <1>2, <2>1, <3>1, <3>2 DEF CreateCandidate, Smoothly, TypeOK, CandType, JobType, target, vault, people
  <2>2. CASE /\ Finish(j, "skipped") \/ Finish(j, "failed")
             /\ Smoothly \/ Mishap
             /\ UNCHANGED cand
    <3>1. jobs' \in [Jobs -> JobType] /\ lock' \in Jobs \cup {Free}
      BY <2>2, JobMoves
    <3> QED  BY <1>2, <2>2, <3>1 DEF CreateCandidate, Smoothly, Mishap, TypeOK, JobType, target, vault, people
  <2> QED  BY <1>2, <2>1, <2>2 DEF CreateCandidate
<1>3. ASSUME NEW p \in Ended \cup Underway, Goto(j, p) \/ Finish(j, p),
             RecordFailure(j) \/ Bind(j) \/ Discard(j) \/ CommitCandidate(j) \/ UNCHANGED cand,
             accepted' \subseteq Secrets, wire' \subseteq Jobs,
             stored' \in Secrets, versions' \subseteq Secrets,
             Smoothly \/ Mishap, UNCHANGED <<method, retry, people>>
      PROVE  TypeOK'
  <2>1. jobs' \in [Jobs -> JobType] /\ lock' \in Jobs \cup {Free}
    BY <1>3, JobMoves
  <2>2. cand' \in CandType \cup {None}
    BY <1>3, CandMoves
  <2>3. mishaps' \in Nat
    BY <1>3 DEF Smoothly, Mishap, TypeOK
  <2> QED  BY <1>3, <2>1, <2>2, <2>3 DEF TypeOK, CandType, JobType, people
<1>4. CASE Recheck(j)
  BY <1>3, <1>4 DEF Recheck, TypeOK, target, vault
<1>5. CASE Login(j)
  <2>1. CASE jobs' = [jobs EXCEPT ![j].pc = "read", ![j].file = accepted] /\ Smoothly /\ UNCHANGED lock
             /\ Bind(j)
    <3>1. jobs' \in [Jobs -> JobType]
      BY <1>0, <2>1 DEF JobType
    <3>2. cand' \in CandType \cup {None}
      BY <2>1, CandMoves
    <3> QED  BY <1>5, <2>1, <3>1, <3>2 DEF Login, Smoothly, TypeOK, CandType, JobType, target, vault, people
  <2>2. CASE Goto(j, "rejected")
    BY <1>3, <1>5, <2>2 DEF Login, TypeOK, target, vault
  <2> QED  BY <1>5, <2>1, <2>2 DEF Login
<1>6. CASE Send(j)
  <2>1. Smoothly /\ accepted' = accepted /\ UNCHANGED <<cand, vault>> /\ UNCHANGED <<method, retry, people>>
    BY <1>6 DEF Send, Smoothly
  <2> QED  BY <1>3, <1>6, <2>1 DEF Send, TypeOK, vault
<1>7. CASE Refuse(j)
  BY <1>3, <1>7 DEF Refuse, TypeOK, vault
<1>8. CASE LoseAnswer(j)
  BY <1>3, <1>8 DEF LoseAnswer, TypeOK, vault, target
<1>9. CASE Answer(j)
  <2>1. jobs' \in [Jobs -> JobType] /\ lock' \in Jobs \cup {Free}
    BY <1>9, JobMoves DEF Answer
  <2>2. cand' \in CandType \cup {None}
    <3>1. cand \in CandType \cup {None}
      BY DEF TypeOK, CandType
    <3>2. ASSUME cand \in CandType  PROVE [cand EXCEPT !.applied = TRUE] \in CandType
      BY <3>2 DEF CandType
    <3> QED  BY <1>9, <3>1, <3>2 DEF Answer, Holds
  <2> QED  BY <1>9, <2>1, <2>2 DEF Answer, Smoothly, Mishap, TypeOK, CandType, JobType, target, vault, people
<1>10. CASE PrepareVerify(j)
  BY <1>3, <1>10 DEF PrepareVerify, Unverified, TypeOK, vault, target
<1>11. CASE Verify(j)
  <2>1. AfterVerify \in Underway
    BY DEF AfterVerify
  <2> QED  BY <1>3, <1>11, <2>1 DEF Verify, Unverified, TypeOK, vault, target
<1>12. CASE Restore(j)
  BY <1>0, <1>3, <1>12 DEF Restore, Unverified, TypeOK, vault
<1>13. CASE Prune(j)
  BY <1>0, <1>3, <1>13 DEF Prune, Unverified, TypeOK, vault
<1>14. CASE Promote(j)
  <2>1. UNCHANGED vault \/ CommitCandidate(j)
    BY <1>14 DEF Promote
  <2>2. stored' \in Secrets /\ versions' \subseteq Secrets
    BY <1>0, <2>1 DEF TypeOK, vault, CommitCandidate
  <2> QED  BY <1>3, <1>14, <2>2 DEF Promote, Unverified, TypeOK, target
<1>15. CASE GiveUp(j)
  <2>1. Smoothly /\ UNCHANGED <<accepted, wire, stored, versions>> /\ UNCHANGED <<method, retry, people>>
    BY <1>15 DEF GiveUp, Smoothly, target, vault
  <2> QED  BY <1>3, <1>15, <2>1 DEF GiveUp, TypeOK
<1> QED  BY <1>1, <1>2, <1>4, <1>5, <1>6, <1>7, <1>8, <1>9, <1>10, <1>11, <1>12, <1>13, <1>14, <1>15 DEF JobStep

LEMMA TypeOfRest ==
  ASSUME TypeOK,
         \/ \E j \in Jobs : Execute(j)
         \/ \E r \in Retriers : RetryStep(r)
         \/ ComeRound \/ PassBy
         \/ Revoke \/ Age \/ DiscardByAdmin \/ Crash
  PROVE  TypeOK'
<1>0. /\ jobs \in [Jobs -> JobType] /\ retry \in [Retriers -> RetryType]
      /\ cand \in CandType \cup {None} /\ accepted \subseteq Secrets
  BY DEF TypeOK, JobType, RetryType, CandType
<1>1. ASSUME NEW j \in Jobs, Execute(j)  PROVE TypeOK'
  <2>1. Effect(j) \subseteq Secrets
    BY <1>0, Names DEF Effect, JobType
  <2>2. jobs' \in [Jobs -> JobType] /\ lock' \in Jobs \cup {Free}
    <3>1. CASE At(j, "sent")
      BY <1>1, <3>1, JobMoves DEF Execute, Underway
    <3>2. CASE ~At(j, "sent")
      BY <1>0, <1>1, <3>2 DEF Execute, TypeOK
    <3> QED  BY <3>1, <3>2
  <2> QED  BY <1>1, <2>1, <2>2 DEF Execute, TypeOK, JobType, vault, people
<1>2. ASSUME NEW r \in Retriers, NEW t \in RetryType, retry' = [retry EXCEPT ![r] = t],
             NEW j, RecordFailure(j) \/ Bind(j) \/ Discard(j) \/ CommitCandidate(j) \/ UNCHANGED cand,
             stored' \in Secrets, versions' \subseteq Secrets,
             Smoothly \/ Mishap, UNCHANGED <<method, target, lock, jobs, people>>
      PROVE  TypeOK'
  <2>1. retry' \in [Retriers -> RetryType]
    BY <1>0, <1>2
  <2>2. cand' \in CandType \cup {None}
    BY <1>2, CandMoves
  <2>3. mishaps' \in Nat
    BY <1>2 DEF Smoothly, Mishap, TypeOK
  <2> QED  BY <1>2, <2>1, <2>2, <2>3 DEF TypeOK, CandType, RetryType, target, people
<1>3. ASSUME NEW r \in Retriers, RetryStep(r)  PROVE TypeOK'
  <2> DEFINE Over == IF r = Scheduler THEN NoRetry ELSE [NoRetry EXCEPT !.pc = "over"]
             Moved(p) == [retry[r] EXCEPT !.pc = p]
  <2>1. Over \in RetryType /\ (RetryEnds(r) => retry' = [retry EXCEPT ![r] = Over])
    BY DEF RetryEnds, NoRetry, RetryType
  <2>2. \A p \in {"binding", "dialing", "commit"} :
           Moved(p) \in RetryType /\ (RetryGoto(r, p) => retry' = [retry EXCEPT ![r] = Moved(p)])
    BY <1>0 DEF RetryGoto, RetryType
  <2> HIDE DEF Over, Moved
  <2>3. CASE Pick(r)
    <3>1. [pc |-> "picked", job |-> cand.job, applied |-> cand.applied] \in RetryType
      BY <1>0, <2>3 DEF Pick, RetryType, CandType
    <3> QED  BY <1>2, <2>3, <3>1 DEF Pick, TypeOK, vault, target, Smoothly
  <2>4. CASE Revalidate(r)
    BY <1>2, <2>1, <2>2, <2>4 DEF Revalidate, NoteFailure, TypeOK, vault
  <2>5. CASE BindAgain(r)
    <3>1. UNCHANGED <<method, target, lock, jobs, people>> /\ UNCHANGED vault /\ Smoothly
      BY <2>5 DEF BindAgain, Smoothly
    <3>2. stored' \in Secrets /\ versions' \subseteq Secrets
      BY <3>1 DEF TypeOK, vault
    <3>3. CASE Bind(retry[r].job) /\ RetryGoto(r, "dialing")
      BY <1>2, <2>2, <3>1, <3>2, <3>3
    <3>4. CASE NoteFailure(r)
      BY <1>2, <2>1, <3>1, <3>2, <3>4 DEF NoteFailure
    <3> QED  BY <2>5, <3>3, <3>4 DEF BindAgain
  <2>6. CASE VerifyAgain(r)
    BY <1>2, <2>1, <2>2, <2>6 DEF VerifyAgain, NoteFailure, TypeOK, vault
  <2>7. CASE PromoteRetried(r)
    <3>1. UNCHANGED vault \/ CommitCandidate(retry[r].job)
      BY <2>7 DEF PromoteRetried
    <3>2. stored' \in Secrets /\ versions' \subseteq Secrets
      BY <1>0, <3>1, Names DEF TypeOK, vault, CommitCandidate, Holds, CandType
    <3> QED  BY <1>2, <2>1, <2>7, <3>2 DEF PromoteRetried, NoteFailure
  <2> QED  BY <1>3, <2>3, <2>4, <2>5, <2>6, <2>7 DEF RetryStep
<1>4. CASE Revoke
  BY <1>4 DEF Revoke, TypeOK, target, vault
<1>5. CASE Age
  <2>1. cand' \in CandType \cup {None}
    BY <1>0, <1>5 DEF Age, CandType
  <2> QED  BY <1>5, <2>1 DEF Age, TypeOK, CandType, target, vault, people
<1>6. CASE DiscardByAdmin
  BY <1>0, <1>6 DEF DiscardByAdmin, TypeOK, CandType, target, vault
<1>7. CASE Crash
  <2>1. jobs' \in [Jobs -> JobType]
    BY <1>0, <1>7 DEF Crash, JobType, Ended
  <2>2. retry' \in [Retriers -> RetryType]
    BY <1>7 DEF Crash, NoRetry, RetryType
  <2>3. /\ mishaps' \in Nat /\ lock' = Free
        /\ UNCHANGED <<method, accepted, wire, stored, versions, cand, revoked, surrendered>>
    BY <1>7 DEF Crash, Mishap, TypeOK, target, vault, people
  <2> QED  BY <2>1, <2>2, <2>3 DEF TypeOK, JobType, RetryType
<1>8. CASE ComeRound \/ PassBy
  <2>1. Scheduler \in Retriers
    BY DEF Retriers
  <2>2. NoRetry \in RetryType
    BY DEF NoRetry, RetryType
  <2>3. [retry[Scheduler] EXCEPT !.pc = "due"] \in RetryType
    BY <1>0, <2>1 DEF RetryType
  <2>4. retry' \in [Retriers -> RetryType]
    BY <1>0, <1>8, <2>2, <2>3 DEF ComeRound, PassBy, RetryGoto, RetryEnds
  <2> QED  BY <1>8, <2>4 DEF ComeRound, PassBy, TypeOK, RetryType, target, vault, people
<1> QED  BY <1>1, <1>3, <1>4, <1>5, <1>6, <1>7, <1>8

LEMMA TypeCorrect ==
  ASSUME TypeOK, [Next]_vars  PROVE TypeOK'
<1>1. CASE UNCHANGED vars
  BY <1>1 DEF vars, target, vault, people, TypeOK
<1> QED  BY <1>1, TypeOfJobStep, TypeOfRest DEF Next

-----------------------------------------------------------------------------
(* Steps that send nothing, change nothing on the target or in the vault   *)
(* and keep the candidate: one job goes from one place to another.         *)

Kept == \A k \in Jobs : Holds(k)' = Holds(k)

Still ==
  /\ UNCHANGED <<method, accepted, wire, stored, versions, surrendered>>
  /\ Kept

\* What a job that has come to p must have behind it.
MayBeAt(j, p) ==
  /\ jobs[j].pc \in Underway \cup {"idle"}
  /\ p \notin {"idle", "sent"}
  /\ p = "locked" => jobs[j].pc = "idle"
  /\ p \in Underway \ {"locked"} => jobs[j].pc \in Underway \ {"locked"}
  /\ p \in {"created", "cleared", "read", "stopped"} => Unsent(j)
  /\ p \in {"executed", "applied", "dialing", "verified", "restoring", "commit"} => Landed(j)
  /\ p \in {"read", "executed", "applied", "dialing", "verified", "restoring"}
       => jobs[j].old \in jobs[j].file
  /\ method = "password" =>
       /\ p \notin {"verified", "restoring"}
       /\ p = "rejected" => j \notin accepted /\ j \notin wire
       /\ p = "commit" => j \in accepted
  /\ jobs[j].pc = "commit" => p \in {"unverified", "killed"}

JobsMove == \A j \in Jobs : /\ jobs'[j].old = jobs[j].old /\ jobs'[j].file = jobs[j].file
                            /\ jobs'[j].pc = jobs[j].pc \/ MayBeAt(j, jobs'[j].pc)

\* What a retry may do: end, or know a candidate that was once made.
RetriesMove ==
  \A r \in Retriers :
    \/ retry'[r] = retry[r]
    \/ retry'[r].pc \in {"idle", "due", "over"}
    \/ /\ retry'[r].job \in Jobs /\ ~Fresh(retry'[r].job)
       /\ retry'[r].pc = "commit" => retry'[r].job \in accepted

LEMMA CandKept ==
  ASSUME TypeOK,
         NEW j, \/ RecordFailure(j) \/ Bind(j) \/ UNCHANGED cand
                \/ Holds(j) /\ cand' = [cand EXCEPT !.applied = TRUE]
                \/ cand # None /\ cand' = [cand EXCEPT !.aged = TRUE]
  PROVE  Kept
<1>1. cand \in CandType \cup {None}
  BY DEF TypeOK, CandType
<1>2. ASSUME cand \in CandType, NEW c \in CandType, c.job = cand.job, cand' = c  PROVE Kept
  BY <1>2, Names DEF Kept, Holds
<1>3. CASE RecordFailure(j) /\ Holds(j)
  <2>1. cand \in CandType /\ cand' = [cand EXCEPT !.abandoned = cand.aged]
    BY <1>1, <1>3 DEF RecordFailure, Holds
  <2>2. [cand EXCEPT !.abandoned = cand.aged] \in CandType
    BY <2>1 DEF CandType
  <2>3. [cand EXCEPT !.abandoned = cand.aged].job = cand.job
    BY <2>1 DEF CandType
  <2> QED  BY <1>2, <2>1, <2>2, <2>3
<1>4. CASE Bind(j)
  <2>1. cand \in CandType /\ cand' = [cand EXCEPT !.bound = TRUE]
    BY <1>1, <1>4 DEF Bind, MayBind, Holds
  <2>2. [cand EXCEPT !.bound = TRUE] \in CandType /\ [cand EXCEPT !.bound = TRUE].job = cand.job
    BY <2>1 DEF CandType
  <2> QED  BY <1>2, <2>1, <2>2
<1>5. CASE Holds(j) /\ cand' = [cand EXCEPT !.applied = TRUE]
  <2>1. cand \in CandType
    BY <1>1, <1>5 DEF Holds
  <2>2. [cand EXCEPT !.applied = TRUE] \in CandType /\ [cand EXCEPT !.applied = TRUE].job = cand.job
    BY <2>1 DEF CandType
  <2> QED  BY <1>2, <1>5, <2>1, <2>2
<1>6. CASE cand # None /\ cand' = [cand EXCEPT !.aged = TRUE]
  <2>1. cand \in CandType
    BY <1>1, <1>6
  <2>2. [cand EXCEPT !.aged = TRUE] \in CandType /\ [cand EXCEPT !.aged = TRUE].job = cand.job
    BY <2>1 DEF CandType
  <2> QED  BY <1>2, <1>6, <2>1, <2>2
<1>7. CASE UNCHANGED cand
  BY <1>7 DEF Kept, Holds
<1> QED  BY <1>3, <1>4, <1>5, <1>6, <1>7 DEF RecordFailure

\* Such steps keep the invariant.
LEMMA StillKeepsInv ==
  ASSUME Inv, TypeOK', Still, JobsMove, RetriesMove, Mutex'
  PROVE  Inv'
<1>2. /\ UNCHANGED <<method, accepted, wire, versions, stored, surrendered>>
      /\ \A k \in Jobs : Holds(k)' = Holds(k)
  BY DEF Still, Kept
<1>3. \A k \in Jobs : /\ Unsent(k)' => Unsent(k)
                      /\ Landed(k) => Landed(k)'
                      /\ Fresh(k)' => Fresh(k)
  BY <1>2 DEF JobsMove, Unsent, Landed, Fresh, MayBeAt, Underway
<1>4. Retrying'
  <2>1. \A k \in Jobs : Verified(k) \/ k \in accepted => Verified(k)'
    BY <1>2, <1>3 DEF Inv, Landing, Verified
  <2>2. ASSUME NEW r \in Retriers, retry'[r].pc \notin {"idle", "due", "over"}
        PROVE  /\ retry'[r].job \in Jobs /\ ~Fresh(retry'[r].job)
               /\ retry'[r].pc = "commit" =>
                    Verified(retry'[r].job) \/ retry'[r].job \in accepted
    <3>1. CASE retry'[r] = retry[r]
      BY <2>2, <3>1 DEF Inv, Retrying
    <3>2. CASE retry'[r] # retry[r]
      BY <2>2, <3>2 DEF RetriesMove
    <3> QED  BY <3>1, <3>2
  <2> QED  BY <1>3, <2>1, <2>2 DEF Retrying, Retriers, Fresh, Verified, Landed, Unsent, Holds
<1>5. Landing'
  <2>1. \A k \in Jobs : Unsent(k)' => k \notin wire'
    BY <1>2, <1>3 DEF Inv, Landing
  <2>2. \A k \in Jobs : jobs'[k].pc = "sent" => k \in wire'
    BY <1>2 DEF JobsMove, Inv, Landing, MayBeAt
  <2>3. \A k \in Jobs : jobs'[k].pc \in {"executed", "applied", "dialing", "verified", "restoring", "commit"}
                          => Landed(k)'
    BY <1>3 DEF JobsMove, Inv, Landing, MayBeAt
  <2>4. /\ \A k \in Jobs : k \in accepted' => Landed(k)'
        /\ \A k \in Jobs : k \in versions' => Landed(k)'
    BY <1>2, <1>3 DEF Inv, Landing
  <2>5. \A i, k \in Jobs : i \in jobs'[k].file => Landed(i)'
    BY <1>3 DEF JobsMove, Inv, Landing
  <2> QED  BY <2>1, <2>2, <2>3, <2>4, <2>5 DEF Landing
<1>6. Keeping'
  <2>1. \A k \in Jobs : jobs'[k].pc \in Underway \ {"locked"} => jobs[k].pc \in Underway \ {"locked"}
    BY DEF JobsMove, MayBeAt
  <2>2. \A k \in Jobs : jobs'[k].pc \in Underway \ {"locked"}
                       => Holds(k)' \/ k \in versions' \/ k \in surrendered'
    BY <1>2, <2>1 DEF Inv, Keeping
  <2>3. \A k \in Jobs : Fresh(k)' => ~Holds(k)' /\ k \notin surrendered'
    BY <1>2, <1>3 DEF Inv, Keeping
  <2> QED  BY <2>2, <2>3 DEF Keeping
<1>7. Files'
  <2>1. \A k \in Jobs : HasRead(k)' \/ k \in wire' => jobs'[k].old \in jobs'[k].file
    BY <1>2 DEF JobsMove, Inv, Files, MayBeAt, HasRead
  <2>2. stored' \in versions' /\ \A k \in Jobs : jobs'[k].old \in versions' /\ jobs'[k].old # k
    BY <1>2 DEF JobsMove, Inv, Files
  <2> QED  BY <2>1, <2>2 DEF Files
<1>8. Exact'
  <2> SUFFICES ASSUME method = "password"  PROVE Exact'
    BY <1>2 DEF Exact
  <2>1. /\ \A k \in Jobs : k \in wire' => Holds(k)' \/ k \in surrendered'
        /\ \A k \in Jobs : jobs'[k].pc \notin {"verified", "restoring"}
        /\ \A k \in Jobs : jobs'[k].pc = "rejected" => k \notin accepted' /\ k \notin wire'
    BY <1>2 DEF JobsMove, Inv, Exact, MayBeAt
  <2>2. surrendered' = {} =>
         /\ accepted' = {stored'} \/ \E k \in Jobs : Holds(k)' /\ accepted' = {k}
         /\ \A k \in Jobs : Holds(k)' /\ jobs'[k].pc = "commit" => k \in accepted'
    BY <1>2 DEF JobsMove, Inv, Exact, MayBeAt
  <2> QED  BY <2>1, <2>2 DEF Exact
<1>9. Added'
  BY <1>2 DEF JobsMove, Inv, Added, MayBeAt, Underway
<1> QED  BY <1>4, <1>5, <1>6, <1>7, <1>8, <1>9 DEF Inv

\* One job moves, the retries wait.
LEMMA MoveKeepsInv ==
  ASSUME Inv, TypeOK', Still, UNCHANGED retry,
         NEW j \in Jobs, NEW p, MayBeAt(j, p),
         \/ lock = j /\ ((Goto(j, p) /\ p \in Underway) \/ (Finish(j, p) /\ p \in Ended))
         \/ lock = Free /\ p = "locked" /\ lock' = j /\ jobs' = [jobs EXCEPT ![j].pc = p]
  PROVE  Inv'
<1>1. jobs \in [Jobs -> JobType] /\ jobs' = [jobs EXCEPT ![j].pc = p]
  BY DEF Inv, TypeOK, JobType, Goto, Finish
<1>2. /\ jobs'[j].pc = p /\ jobs'[j].old = jobs[j].old /\ jobs'[j].file = jobs[j].file
      /\ \A k \in Jobs : k # j => jobs'[k] = jobs[k]
  BY <1>1 DEF JobType
<1>3. JobsMove
  BY <1>2 DEF JobsMove
<1>4. RetriesMove
  BY DEF RetriesMove
<1>5. Mutex'
  <2>1. \A k \in Jobs : k # j => jobs[k].pc \notin Underway
    BY Names DEF Inv, Mutex
  <2> QED  BY <1>2, <2>1, Names DEF Mutex, Goto, Finish, Underway, Ended
<1> QED  BY <1>3, <1>4, <1>5, StillKeepsInv

-----------------------------------------------------------------------------
(* The steps of a job that change nothing but its place.                   *)

LEMMA AcquireInv ==
  ASSUME Inv, TypeOK', NEW j \in Jobs, Acquire(j)  PROVE Inv'
<1>1. MayBeAt(j, "locked") /\ lock = Free /\ lock' = j /\ jobs' = [jobs EXCEPT ![j].pc = "locked"]
  BY DEF Acquire, At, MayBeAt, Underway
<1>2. Still /\ UNCHANGED retry
  BY CandKept DEF Inv, Acquire, Still, target, vault, people
<1> QED  BY <1>1, <1>2, MoveKeepsInv

\* A place under way is only where the mutex is held.
LEMMA HeldAt ==
  ASSUME Inv, NEW j \in Jobs, jobs[j].pc \in Underway  PROVE lock = j
BY DEF Inv, Mutex

LEMMA EndsInv ==
  ASSUME Inv, TypeOK', NEW j \in Jobs, jobs[j].pc \in Underway,
         NEW s \in Ended, Finish(j, s), jobs[j].pc = "commit" => s = "unverified",
         RecordFailure(j) \/ UNCHANGED cand, UNCHANGED <<method, target, vault, retry, people>>
  PROVE  Inv'
<1>1. MayBeAt(j, s)
  BY DEF MayBeAt, Underway, Ended
<1>2. Still /\ UNCHANGED retry
  BY CandKept DEF Inv, Still, target, vault, people
<1> QED  BY <1>1, <1>2, MoveKeepsInv, HeldAt

LEMMA GoesInv ==
  ASSUME Inv, TypeOK', NEW j \in Jobs, jobs[j].pc \in Underway,
         NEW p \in Underway, Goto(j, p), MayBeAt(j, p),
         \/ Bind(j) \/ UNCHANGED cand
         \/ Holds(j) /\ cand' = [cand EXCEPT !.applied = TRUE],
         UNCHANGED <<method, target, vault, retry, people>>
  PROVE  Inv'
<1>1. Still /\ UNCHANGED retry
  BY CandKept DEF Inv, Still, target, vault, people
<1> QED  BY <1>1, MoveKeepsInv, HeldAt

\* A secret that is not sent is nowhere.
LEMMA UnsentIsNowhere ==
  ASSUME Inv, NEW j \in Jobs, Unsent(j)
  PROVE  j \notin accepted /\ j \notin wire /\ j \notin versions
BY DEF Inv, Landing, Landed

LEMMA QuietJobInv ==
  ASSUME Inv, TypeOK', NEW j \in Jobs,
         Recheck(j) \/ LoseAnswer(j) \/ Answer(j) \/ PrepareVerify(j) \/ Verify(j)
  PROVE  Inv'
<1>0. HasRead(j) => jobs[j].old \in jobs[j].file
  BY DEF Inv, Files
<1>1. CASE Recheck(j)
  <2>1. \A p \in {"cleared", "stopped", "rejected"} : MayBeAt(j, p) /\ p \in Underway
    BY <1>1, UnsentIsNowhere DEF Recheck, MayBeAt, At, Unsent, Underway
  <2>2. jobs[j].pc \in Underway /\ UNCHANGED cand /\ UNCHANGED <<method, target, vault, retry, people>>
    BY <1>1 DEF Recheck, At, Underway
  <2> QED  BY <1>1, <2>1, <2>2, GoesInv DEF Recheck
<1>2. CASE LoseAnswer(j)
  <2>1. jobs[j].pc \in {"sent", "executed"} /\ UNCHANGED cand /\ UNCHANGED <<method, target, vault, retry, people>>
    BY <1>2 DEF LoseAnswer, At
  <2>2. CASE method = "password"
    BY <1>2, <2>1, <2>2, EndsInv DEF LoseAnswer, Ended, Underway
  <2>3. CASE method # "password"
    BY <1>2, <2>1, <2>3, GoesInv DEF LoseAnswer, MayBeAt, Underway
  <2> QED  BY <2>2, <2>3
<1>3. CASE Answer(j)
  <2>1. MayBeAt(j, "applied")
    BY <1>0, <1>3 DEF Answer, At, MayBeAt, Underway, HasRead, Inv, Landing
  <2> QED  BY <1>3, <2>1, GoesInv DEF Answer, At, Underway
<1>4. CASE PrepareVerify(j)
  <2>1. jobs[j].pc = "applied" /\ UNCHANGED <<method, target, vault, retry, people>>
    BY <1>4 DEF PrepareVerify, At
  <2>2. CASE Unverified(j)
    BY <2>1, <2>2, EndsInv DEF Unverified, Ended, Underway
  <2>3. CASE Goto(j, "dialing") /\ UNCHANGED cand
    <3>1. MayBeAt(j, "dialing")
      BY <1>0, <2>1 DEF MayBeAt, Underway, HasRead, Inv, Landing
    <3> QED  BY <2>1, <2>3, <3>1, GoesInv DEF Underway
  <2> QED  BY <1>4, <2>2, <2>3 DEF PrepareVerify
<1>5. CASE Verify(j)
  <2>1. jobs[j].pc = "dialing" /\ UNCHANGED <<method, target, vault, retry, people>> /\ Landed(j)
    BY <1>5 DEF Verify, At, Inv, Landing
  <2>2. CASE Unverified(j)
    BY <2>1, <2>2, EndsInv DEF Unverified, Ended, Underway
  <2>3. CASE j \in accepted /\ Goto(j, AfterVerify) /\ UNCHANGED cand
    <3>1. MayBeAt(j, AfterVerify) /\ AfterVerify \in Underway
      BY <1>0, <2>1, <2>3 DEF AfterVerify, MayBeAt, Underway, HasRead
    <3> QED  BY <2>1, <2>3, <3>1, GoesInv DEF Underway
  <2>4. CASE method # "password" /\ Goto(j, "restoring") /\ UNCHANGED cand
    <3>1. MayBeAt(j, "restoring")
      BY <1>0, <2>1, <2>4 DEF MayBeAt, Underway, HasRead
    <3> QED  BY <2>1, <2>4, <3>1, GoesInv DEF Underway
  <2> QED  BY <1>5, <2>2, <2>3, <2>4 DEF Verify
<1> QED  BY <1>1, <1>2, <1>3, <1>4, <1>5

-----------------------------------------------------------------------------
(* The steps of a job that change more.                                    *)

LEMMA CreateCandidateInv ==
  ASSUME Inv, TypeOK', NEW j \in Jobs, CreateCandidate(j)  PROVE Inv'
<1>0. jobs[j].pc = "locked" /\ UNCHANGED <<method, target, vault, retry, people>> /\ lock = j
      /\ jobs \in [Jobs -> JobType]
  BY HeldAt DEF CreateCandidate, At, Underway, Inv, TypeOK, JobType
<1>1. CASE (Finish(j, "skipped") \/ Finish(j, "failed")) /\ UNCHANGED cand
  BY <1>0, <1>1, EndsInv DEF Ended, Underway
<1>2. CASE /\ cand = None /\ cand' = NewCandidate(j) /\ UNCHANGED lock
           /\ jobs' = [jobs EXCEPT ![j].pc = "created", ![j].old = stored]
  <2>1. /\ jobs'[j].pc = "created" /\ jobs'[j].old = stored /\ jobs'[j].file = jobs[j].file
        /\ \A k \in Jobs : k # j => jobs'[k] = jobs[k]
    BY <1>0, <1>2 DEF JobType
  <2>2. \A k \in Jobs : ~Holds(k) /\ (Holds(k)' <=> k = j)
    <3>1. NewCandidate(j) \in CandType /\ NewCandidate(j).job = j
      BY DEF NewCandidate, CandType
    <3> QED  BY <1>2, <3>1, Names DEF Holds
  <2>3. UNCHANGED <<method, accepted, wire, stored, versions, retry, revoked, surrendered>>
    BY <1>0 DEF target, vault, people
  <2>4. j \notin accepted /\ j \notin wire /\ j \notin versions /\ stored # j
    BY <1>0, UnsentIsNowhere DEF Unsent, Inv, Files
  <2>5. \A k \in Jobs : /\ Unsent(k)' <=> Unsent(k)
                        /\ Landed(k)' <=> Landed(k)
                        /\ Fresh(k)' => Fresh(k) /\ k # j
    BY <1>0, <2>1, <2>3 DEF Unsent, Landed, Fresh
  <2>6. Mutex'
    BY <1>0, <1>2, <2>1 DEF Inv, Mutex, Underway
  <2>7. Retrying'
    <3>1. \A k \in Jobs : ~Fresh(k) => ~Fresh(k)' /\ (Verified(k) => Verified(k)')
      BY <1>0, <2>1, <2>2, <2>3, <2>5 DEF Verified, Fresh
    <3> QED  BY <2>3, <3>1, RetryingKept DEF Inv
  <2>8. Landing'
    <3>1. \A k \in Jobs : /\ Unsent(k)' => k \notin wire'
                          /\ jobs'[k].pc = "sent" => k \in wire'
                          /\ jobs'[k].pc \in {"executed", "applied", "dialing", "verified", "restoring", "commit"}
                               => Landed(k)'
                          /\ k \in accepted' \cup versions' => Landed(k)'
      BY <2>1, <2>3, <2>5 DEF Inv, Landing
    <3>2. \A i, k \in Jobs : i \in jobs'[k].file => Landed(i)'
      BY <2>1, <2>5 DEF Inv, Landing
    <3> QED  BY <3>1, <3>2 DEF Landing
  <2>9. Keeping'
    <3>1. \A k \in Jobs : jobs'[k].pc \in Underway \ {"locked"} => k = j
      BY <1>0, <2>1 DEF Inv, Mutex
    <3>2. \A k \in Jobs : Fresh(k)' => ~Holds(k)' /\ k \notin surrendered'
      BY <2>2, <2>3, <2>5 DEF Inv, Keeping
    <3> QED  BY <2>2, <3>1, <3>2 DEF Keeping
  <2>10. Files'
    BY <1>0, <2>1, <2>3, <2>4 DEF Inv, Files, HasRead, Landing, Unsent
  <2>11. Exact'
    <3> SUFFICES ASSUME method = "password"  PROVE Exact'
      BY <2>3 DEF Exact
    <3>1. /\ \A k \in Jobs : k \in wire' => Holds(k)' \/ k \in surrendered'
          /\ \A k \in Jobs : jobs'[k].pc \notin {"verified", "restoring"}
          /\ \A k \in Jobs : jobs'[k].pc = "rejected" => k \notin accepted' /\ k \notin wire'
      BY <2>1, <2>2, <2>3 DEF Inv, Exact
    <3>2. surrendered' = {} =>
           /\ accepted' = {stored'} \/ \E k \in Jobs : Holds(k)' /\ accepted' = {k}
           /\ \A k \in Jobs : Holds(k)' /\ jobs'[k].pc = "commit" => k \in accepted'
      BY <2>1, <2>2, <2>3 DEF Inv, Exact
    <3> QED  BY <3>1, <3>2 DEF Exact
  <2>12. Added'
    BY <2>2, <2>3 DEF Inv, Added
  <2> QED  BY <2>6, <2>7, <2>8, <2>9, <2>10, <2>11, <2>12 DEF Inv
<1> QED  BY <1>1, <1>2 DEF CreateCandidate

LEMMA LoginInv ==
  ASSUME Inv, TypeOK', NEW j \in Jobs, Login(j)  PROVE Inv'
<1>0. /\ jobs[j].pc = "cleared" /\ UNCHANGED <<method, target, vault, retry, people>>
      /\ lock = j /\ jobs \in [Jobs -> JobType] /\ Unsent(j)
  BY HeldAt DEF Login, At, Underway, Inv, TypeOK, JobType, Unsent
<1>1. CASE Goto(j, "rejected") /\ (Bind(j) \/ UNCHANGED cand)
  <2>1. MayBeAt(j, "rejected")
    BY <1>0, UnsentIsNowhere DEF MayBeAt, Underway
  <2> QED  BY <1>0, <1>1, <2>1, GoesInv DEF Underway
<1>2. CASE /\ Bind(j) /\ jobs[j].old \in accepted /\ UNCHANGED lock
           /\ jobs' = [jobs EXCEPT ![j].pc = "read", ![j].file = accepted]
  <2>1. /\ jobs'[j].pc = "read" /\ jobs'[j].old = jobs[j].old /\ jobs'[j].file = accepted
        /\ \A k \in Jobs : k # j => jobs'[k] = jobs[k]
    BY <1>0, <1>2 DEF JobType
  <2>2. /\ UNCHANGED <<method, accepted, wire, stored, versions, retry, surrendered>>
        /\ \A k \in Jobs : Holds(k)' = Holds(k)
    BY <1>0, <1>2, CandKept DEF target, vault, people, Inv, Kept
  <2>3. \A k \in Jobs : (Unsent(k)' <=> Unsent(k)) /\ (Landed(k)' <=> Landed(k)) /\ (Fresh(k)' <=> Fresh(k))
    BY <1>0, <2>1, <2>2 DEF Unsent, Landed, Fresh
  <2>4. \A k \in Jobs : jobs'[k].pc = jobs[k].pc \/ k = j
    BY <2>1
  <2>5. Mutex'
    BY <1>0, <1>2, <2>1 DEF Inv, Mutex, Underway
  <2>6. Landing'
    <3>1. \A k \in Jobs : /\ Unsent(k)' => k \notin wire'
                          /\ jobs'[k].pc = "sent" => k \in wire'
                          /\ jobs'[k].pc \in {"executed", "applied", "dialing", "verified", "restoring", "commit"}
                               => Landed(k)'
                          /\ k \in accepted' \cup versions' => Landed(k)'
      BY <2>1, <2>2, <2>3 DEF Inv, Landing
    <3>2. \A i, k \in Jobs : i \in jobs'[k].file => Landed(i)'
      BY <2>1, <2>3 DEF Inv, Landing
    <3> QED  BY <3>1, <3>2 DEF Landing
  <2>7. Keeping'
    <3>1. \A k \in Jobs : jobs'[k].pc \in Underway \ {"locked"} => Holds(k)' \/ k \in versions' \/ k \in surrendered'
      BY <1>0, <2>1, <2>2 DEF Inv, Keeping, Underway
    <3> QED  BY <2>2, <2>3, <3>1 DEF Inv, Keeping
  <2>8. Files'
    <3>1. \A k \in Jobs : HasRead(k)' \/ k \in wire' => jobs'[k].old \in jobs'[k].file
      BY <1>2, <2>1, <2>2 DEF Inv, Files, HasRead
    <3>2. stored' \in versions' /\ \A k \in Jobs : jobs'[k].old \in versions' /\ jobs'[k].old # k
      BY <2>1, <2>2 DEF Inv, Files
    <3> QED  BY <3>1, <3>2 DEF Files
  <2>9. Exact'
    <3> SUFFICES ASSUME method = "password"  PROVE Exact'
      BY <2>2 DEF Exact
    <3>1. /\ \A k \in Jobs : k \in wire' => Holds(k)' \/ k \in surrendered'
          /\ \A k \in Jobs : jobs'[k].pc \notin {"verified", "restoring"}
          /\ \A k \in Jobs : jobs'[k].pc = "rejected" => k \notin accepted' /\ k \notin wire'
      BY <2>1, <2>2 DEF Inv, Exact
    <3>2. surrendered' = {} =>
           /\ accepted' = {stored'} \/ \E k \in Jobs : Holds(k)' /\ accepted' = {k}
           /\ \A k \in Jobs : Holds(k)' /\ jobs'[k].pc = "commit" => k \in accepted'
      BY <2>1, <2>2 DEF Inv, Exact
    <3> QED  BY <3>1, <3>2 DEF Exact
  <2>10. Added'
    BY <1>0, <2>1, <2>2 DEF Inv, Added
  <2>11. Retrying'
    <3>1. \A k \in Jobs : ~Fresh(k) => ~Fresh(k)' /\ (Verified(k) => Verified(k)')
      BY <2>2, <2>3 DEF Verified
    <3> QED  BY <2>2, <3>1, RetryingKept DEF Inv
  <2> QED  BY <2>5, <2>6, <2>7, <2>8, <2>9, <2>10, <2>11 DEF Inv
<1> QED  BY <1>1, <1>2 DEF Login

LEMMA SendInv ==
  ASSUME Inv, TypeOK', NEW j \in Jobs, Send(j)  PROVE Inv'
<1>0. /\ jobs[j].pc = "read" /\ UNCHANGED <<method, accepted, vault, cand, retry, people>>
      /\ lock = j /\ jobs \in [Jobs -> JobType] /\ Unsent(j)
  BY HeldAt DEF Send, At, Underway, Inv, TypeOK, JobType, Unsent
<1>1. CASE Goto(j, "stopped") /\ UNCHANGED wire
  <2>1. MayBeAt(j, "stopped")
    BY <1>0 DEF MayBeAt, Underway, Unsent
  <2> QED  BY <1>0, <1>1, <2>1, GoesInv DEF Underway, target
<1>2. CASE Goto(j, "sent") /\ wire' = wire \cup {j}
  <2>1. /\ jobs'[j].pc = "sent" /\ jobs'[j].old = jobs[j].old /\ jobs'[j].file = jobs[j].file
        /\ \A k \in Jobs : k # j => jobs'[k] = jobs[k]
    BY <1>0, <1>2 DEF JobType, Goto
  <2>2. /\ UNCHANGED <<method, accepted, stored, versions, retry, surrendered, lock>>
        /\ \A k \in Jobs : Holds(k)' = Holds(k)
    BY <1>0, <1>2 DEF vault, people, Holds, Goto
  <2>3. j \notin accepted /\ j \notin wire /\ j \notin versions /\ (Holds(j) \/ j \in surrendered)
    BY <1>0, UnsentIsNowhere DEF Inv, Keeping, Underway
  <2>4. \A k \in Jobs : /\ Unsent(k)' <=> Unsent(k) /\ k # j
                        /\ Landed(k)' <=> Landed(k)
                        /\ Fresh(k)' <=> Fresh(k)
    BY <1>0, <1>2, <2>1 DEF Unsent, Landed, Fresh
  <2>5. Mutex'
    BY <1>0, <2>1, <2>2 DEF Inv, Mutex, Underway
  <2>6. Landing'
    <3>1. \A k \in Jobs : /\ Unsent(k)' => k \notin wire'
                          /\ jobs'[k].pc = "sent" => k \in wire'
                          /\ jobs'[k].pc \in {"executed", "applied", "dialing", "verified", "restoring", "commit"}
                               => Landed(k)'
                          /\ k \in accepted' \cup versions' => Landed(k)'
      BY <1>2, <2>1, <2>2, <2>4 DEF Inv, Landing
    <3>2. \A i, k \in Jobs : i \in jobs'[k].file => Landed(i)'
      BY <2>1, <2>4 DEF Inv, Landing
    <3> QED  BY <3>1, <3>2 DEF Landing
  <2>7. Keeping'
    <3>1. \A k \in Jobs : jobs'[k].pc \in Underway \ {"locked"} => Holds(k)' \/ k \in versions' \/ k \in surrendered'
      BY <2>1, <2>2, <2>3 DEF Inv, Keeping
    <3> QED  BY <2>2, <2>4, <3>1 DEF Inv, Keeping
  <2>8. Files'
    <3>1. \A k \in Jobs : HasRead(k)' \/ k \in wire' => jobs'[k].old \in jobs'[k].file
      BY <1>0, <1>2, <2>1, <2>2 DEF Inv, Files, HasRead
    <3>2. stored' \in versions' /\ \A k \in Jobs : jobs'[k].old \in versions' /\ jobs'[k].old # k
      BY <2>1, <2>2 DEF Inv, Files
    <3> QED  BY <3>1, <3>2 DEF Files
  <2>9. Exact'
    <3> SUFFICES ASSUME method = "password"  PROVE Exact'
      BY <2>2 DEF Exact
    <3>1. /\ \A k \in Jobs : k \in wire' => Holds(k)' \/ k \in surrendered'
          /\ \A k \in Jobs : jobs'[k].pc \notin {"verified", "restoring"}
          /\ \A k \in Jobs : jobs'[k].pc = "rejected" => k \notin accepted' /\ k \notin wire'
      BY <1>2, <2>1, <2>2, <2>3 DEF Inv, Exact
    <3>2. surrendered' = {} =>
           /\ accepted' = {stored'} \/ \E k \in Jobs : Holds(k)' /\ accepted' = {k}
           /\ \A k \in Jobs : Holds(k)' /\ jobs'[k].pc = "commit" => k \in accepted'
      BY <2>1, <2>2 DEF Inv, Exact
    <3> QED  BY <3>1, <3>2 DEF Exact
  <2>10. Added'
    BY <1>0, <2>1, <2>2 DEF Inv, Added
  <2>11. Retrying'
    <3>1. \A k \in Jobs : ~Fresh(k) => ~Fresh(k)' /\ (Verified(k) => Verified(k)')
      BY <2>2, <2>4 DEF Verified
    <3> QED  BY <2>2, <3>1, RetryingKept DEF Inv
  <2> QED  BY <2>5, <2>6, <2>7, <2>8, <2>9, <2>10, <2>11 DEF Inv
<1> QED  BY <1>1, <1>2 DEF Send

\* What is on the wire leaves it: executed, refused, or too late for its job.
LEMMA WireInv ==
  ASSUME Inv, TypeOK', NEW j \in Jobs, j \in wire, wire' = wire \ {j},
         NEW p \in {"executed", "rejected"},
         \/ At(j, "sent") /\ Goto(j, p)
         \/ ~At(j, "sent") /\ p = "executed" /\ UNCHANGED <<jobs, lock>>,
         accepted' = IF p = "executed" THEN Effect(j) ELSE accepted,
         UNCHANGED <<method, vault, cand, retry, people>>
  PROVE  Inv'
<1>0. /\ jobs \in [Jobs -> JobType] /\ ~Unsent(j) /\ j \notin accepted
  BY DEF Inv, TypeOK, JobType, Landing, Landed
<1>1. /\ jobs'[j].old = jobs[j].old /\ jobs'[j].file = jobs[j].file
      /\ \/ jobs'[j].pc = p /\ jobs[j].pc = "sent"
         \/ jobs'[j].pc = jobs[j].pc /\ jobs[j].pc # "sent"
      /\ \A k \in Jobs : k # j => jobs'[k] = jobs[k]
  BY <1>0 DEF JobType, Goto, At
<1>2. /\ UNCHANGED <<method, stored, versions, retry, surrendered, lock>>
      /\ \A k \in Jobs : Holds(k)' = Holds(k)
  BY DEF vault, people, Holds, Goto
<1>3. /\ Landed(j)'
      /\ \A k \in Jobs : /\ Unsent(k)' <=> Unsent(k)
                         /\ Landed(k) => Landed(k)'
                         /\ Fresh(k)' <=> Fresh(k)
  BY <1>0, <1>1 DEF Unsent, Landed, Fresh
<1>4. \A k \in accepted' : k \in accepted \/ k = j \/ k \in jobs[j].file
  BY DEF Effect
<1>5. Mutex'
  BY <1>1, <1>2 DEF Inv, Mutex, Underway
<1>6. Landing'
  <2>1. \A k \in Jobs : /\ Unsent(k)' => k \notin wire'
                        /\ jobs'[k].pc = "sent" => k \in wire'
                        /\ jobs'[k].pc \in {"executed", "applied", "dialing", "verified", "restoring", "commit"}
                             => Landed(k)'
                        /\ k \in accepted' \cup versions' => Landed(k)'
    BY <1>1, <1>2, <1>3, <1>4 DEF Inv, Landing
  <2>2. \A i, k \in Jobs : i \in jobs'[k].file => Landed(i)'
    BY <1>1, <1>3 DEF Inv, Landing
  <2> QED  BY <2>1, <2>2 DEF Landing
<1>7. Keeping'
  <2>1. \A k \in Jobs : jobs'[k].pc \in Underway \ {"locked"} => Holds(k)' \/ k \in versions' \/ k \in surrendered'
    BY <1>1, <1>2 DEF Inv, Keeping, Underway
  <2> QED  BY <1>2, <1>3, <2>1 DEF Inv, Keeping
<1>8. Files'
  <2>1. \A k \in Jobs : HasRead(k)' \/ k \in wire' => jobs'[k].old \in jobs'[k].file
    BY <1>1, <1>2 DEF Inv, Files, HasRead
  <2>2. stored' \in versions' /\ \A k \in Jobs : jobs'[k].old \in versions' /\ jobs'[k].old # k
    BY <1>1, <1>2 DEF Inv, Files
  <2> QED  BY <2>1, <2>2 DEF Files
<1>9. \A k \in Jobs : method = "password" /\ surrendered = {} /\ Holds(k) /\ k \in accepted => k \in accepted'
  BY DEF Inv, Exact, Holds, Effect
<1>10. Exact'
  <2> SUFFICES ASSUME method = "password"  PROVE Exact'
    BY <1>2 DEF Exact
  <2>1. /\ \A k \in Jobs : k \in wire' => Holds(k)' \/ k \in surrendered'
        /\ \A k \in Jobs : jobs'[k].pc \notin {"verified", "restoring"}
    BY <1>1, <1>2 DEF Inv, Exact
  <2>2. accepted' = {j} \/ accepted' = accepted
    BY DEF Effect
  <2>3. ASSUME NEW k \in Jobs, jobs'[k].pc = "rejected"  PROVE k \notin accepted' /\ k \notin wire'
    BY <1>0, <1>1, <2>2, <2>3 DEF Inv, Exact
  <2>4. surrendered' = {} =>
         /\ accepted' = {stored'} \/ \E k \in Jobs : Holds(k)' /\ accepted' = {k}
         /\ \A k \in Jobs : Holds(k)' /\ jobs'[k].pc = "commit" => k \in accepted'
    BY <1>1, <1>2, <1>9, <2>2 DEF Inv, Exact
  <2> QED  BY <2>1, <2>3, <2>4 DEF Exact
<1>11. Added'
  <2> SUFFICES ASSUME method = "append", surrendered = {}  PROVE Added'
    BY <1>2 DEF Added
  <2>1. CASE accepted' = Effect(j)
    BY <1>2, <2>1 DEF Inv, Files, Effect, Added
  <2>2. CASE accepted' = accepted
    BY <1>1, <1>2, <2>2 DEF Inv, Added
  <2> QED  BY <2>1, <2>2
<1>12. Retrying'
  <2>1. \A k \in Jobs : ~Fresh(k) => ~Fresh(k)' /\ (Verified(k) => Verified(k)')
    BY <1>2, <1>3, <1>9 DEF Verified
  <2> QED  BY <1>2, <2>1, RetryingKept DEF Inv
<1> QED  BY <1>5, <1>6, <1>7, <1>8, <1>10, <1>11, <1>12 DEF Inv

LEMMA ExecuteInv ==
  ASSUME Inv, TypeOK', NEW j \in Jobs, Execute(j) \/ Refuse(j)  PROVE Inv'
<1>1. CASE Execute(j)
  <2>1. /\ j \in wire /\ wire' = wire \ {j} /\ accepted' = Effect(j)
        /\ UNCHANGED <<method, vault, cand, retry, people>>
        /\ \/ At(j, "sent") /\ Goto(j, "executed")
           \/ ~At(j, "sent") /\ UNCHANGED <<jobs, lock>>
    BY <1>1 DEF Execute
  <2> QED  BY <2>1, WireInv
<1>2. CASE Refuse(j)
  <2>1. j \in wire
    BY <1>2 DEF Refuse, At, Inv, Landing
  <2> QED  BY <1>2, <2>1, WireInv DEF Refuse
<1> QED  BY <1>1, <1>2

\* The file of keys is written back, or without the old key.
LEMMA RewriteInv ==
  ASSUME Inv, TypeOK', NEW j \in Jobs, jobs[j].pc \in {"verified", "restoring"},
         NEW p, \/ p \in {"rejected", "commit"} /\ Goto(j, p)
                \/ p = "unverified" /\ Finish(j, p),
         accepted' \subseteq accepted \cup jobs[j].file \cup {j},
         \/ accepted' = accepted
         \/ jobs[j].old \in accepted'
         \/ p = "commit" /\ j \in accepted',
         RecordFailure(j) \/ UNCHANGED cand,
         UNCHANGED <<method, wire, vault, retry, people>>
  PROVE  Inv'
<1>0. /\ jobs \in [Jobs -> JobType] /\ lock = j /\ Landed(j) /\ method # "password"
      /\ Kept
  BY HeldAt, CandKept DEF Inv, TypeOK, JobType, Landing, Exact, Underway
<1>1. /\ jobs'[j].old = jobs[j].old /\ jobs'[j].file = jobs[j].file /\ jobs'[j].pc = p
      /\ \A k \in Jobs : k # j => jobs'[k] = jobs[k]
  BY <1>0 DEF JobType, Goto, Finish
<1>2. /\ UNCHANGED <<method, wire, stored, versions, retry, surrendered>>
      /\ \A k \in Jobs : Holds(k)' = Holds(k)
  BY <1>0 DEF vault, people, Kept
<1>3. \A k \in Jobs : /\ Unsent(k)' <=> Unsent(k)
                      /\ Landed(k)' <=> Landed(k)
                      /\ Fresh(k)' <=> Fresh(k)
  BY <1>0, <1>1, <1>2 DEF Unsent, Landed, Fresh
<1>4. Mutex'
  BY <1>0, <1>1, Names DEF Inv, Mutex, Underway, Goto, Finish
<1>5. Landing'
  <2>1. \A k \in Jobs : k \in accepted' => Landed(k)'
    BY <1>0, <1>3 DEF Inv, Landing
  <2>2. \A k \in Jobs : /\ Unsent(k)' => k \notin wire'
                        /\ jobs'[k].pc = "sent" => k \in wire'
                        /\ jobs'[k].pc \in {"executed", "applied", "dialing", "verified", "restoring", "commit"}
                             => Landed(k)'
                        /\ k \in versions' => Landed(k)'
    BY <1>0, <1>1, <1>2, <1>3 DEF Inv, Landing
  <2>3. \A i, k \in Jobs : i \in jobs'[k].file => Landed(i)'
    BY <1>1, <1>3 DEF Inv, Landing
  <2> QED  BY <2>1, <2>2, <2>3 DEF Landing
<1>6. Keeping'
  <2>1. \A k \in Jobs : jobs'[k].pc \in Underway \ {"locked"} => Holds(k)' \/ k \in versions' \/ k \in surrendered'
    BY <1>1, <1>2 DEF Inv, Keeping, Underway
  <2> QED  BY <1>2, <1>3, <2>1 DEF Inv, Keeping
<1>7. Files'
  <2>1. \A k \in Jobs : HasRead(k)' \/ k \in wire' => jobs'[k].old \in jobs'[k].file
    BY <1>1, <1>2 DEF Inv, Files, HasRead
  <2>2. stored' \in versions' /\ \A k \in Jobs : jobs'[k].old \in versions' /\ jobs'[k].old # k
    BY <1>1, <1>2 DEF Inv, Files
  <2> QED  BY <2>1, <2>2 DEF Files
<1>8. Exact'
  BY <1>0, <1>2 DEF Exact
<1>9. Added'
  <2> SUFFICES ASSUME method = "append", surrendered = {}  PROVE Added'
    BY <1>2 DEF Added
  <2>1. CASE jobs[j].old \in accepted'
    BY <1>2, <2>1 DEF Inv, Files, Added
  <2>2. CASE p = "commit" /\ j \in accepted'
    <3>1. Holds(j) \/ j \in versions
      BY DEF Inv, Keeping, Underway
    <3> QED  BY <1>1, <1>2, <2>2, <3>1 DEF Added
  <2>3. CASE accepted' = accepted
    BY <1>1, <1>2, <2>3 DEF Inv, Added
  <2> QED  BY <2>1, <2>2, <2>3
<1>10. Retrying'
  <2>1. \A k \in Jobs : ~Fresh(k) => ~Fresh(k)' /\ (Verified(k) => Verified(k)')
    BY <1>0, <1>2, <1>3 DEF Verified
  <2> QED  BY <1>2, <2>1, RetryingKept DEF Inv
<1> QED  BY <1>4, <1>5, <1>6, <1>7, <1>8, <1>9, <1>10 DEF Inv

LEMMA RestoreInv ==
  ASSUME Inv, TypeOK', NEW j \in Jobs, Restore(j) \/ Prune(j)  PROVE Inv'
<1>1. CASE Restore(j)
  <2>1. /\ jobs[j].pc = "restoring" /\ UNCHANGED <<method, wire, vault, retry, people>>
        /\ jobs[j].old \in jobs[j].file
    BY <1>1 DEF Restore, At, Inv, Files, HasRead
  <2> QED  BY <1>1, <2>1, RewriteInv DEF Restore, Unverified
<1>2. CASE Prune(j)
  <2>1. /\ jobs[j].pc = "verified" /\ UNCHANGED <<method, wire, vault, retry, people>>
        /\ jobs[j].old # j
    BY <1>2 DEF Prune, At, Inv, Files
  <2>2. CASE Unverified(j) /\ UNCHANGED accepted
    BY <2>1, <2>2, RewriteInv DEF Unverified
  <2>3. CASE Goto(j, "commit") /\ UNCHANGED cand /\ UNCHANGED accepted
    BY <2>1, <2>3, RewriteInv
  <2>4. CASE /\ Goto(j, "commit") /\ UNCHANGED cand
             /\ accepted' = (jobs[j].file \cup {j}) \ {jobs[j].old}
    BY <2>1, <2>4, RewriteInv
  <2> QED  BY <1>2, <2>2, <2>3, <2>4 DEF Prune
<1> QED  BY <1>1, <1>2

\* The candidate becomes the account's secret, at the hands of a job or a retry.
LEMMA CommitInv ==
  ASSUME Inv, TypeOK', NEW j \in Jobs, CommitCandidate(j), Verified(j),
         \/ At(j, "commit") /\ Finish(j, "success") /\ UNCHANGED retry
         \/ UNCHANGED <<jobs, lock>> /\ RetriesMove
              /\ \A r \in Retriers : retry'[r].pc # "commit" \/ retry'[r] = retry[r],
         UNCHANGED <<method, target, people>>
  PROVE  Inv'
<1>0. /\ jobs \in [Jobs -> JobType] /\ cand # None /\ cand.job = j /\ cand' = None
      /\ stored' = j /\ versions' = versions \cup {j} /\ Landed(j)
      /\ UNCHANGED <<method, accepted, wire, surrendered>>
  BY DEF Inv, TypeOK, JobType, CommitCandidate, Holds, Verified, target, people
<1>1. \A k \in Jobs : /\ jobs'[k].old = jobs[k].old /\ jobs'[k].file = jobs[k].file
                      /\ \/ jobs'[k].pc = jobs[k].pc
                         \/ k = j /\ jobs[k].pc = "commit" /\ jobs'[k].pc = "success"
  BY <1>0 DEF JobType, Finish, At
<1>2. \A k \in Jobs : (Holds(k) <=> k = j) /\ ~Holds(k)'
  BY <1>0 DEF Holds
<1>3. \A k \in Jobs : /\ Unsent(k)' <=> Unsent(k)
                      /\ Landed(k)' <=> Landed(k)
                      /\ Fresh(k)' <=> Fresh(k)
  BY <1>0, <1>1 DEF Unsent, Landed, Fresh
<1>4. Mutex'
  <2>1. CASE UNCHANGED <<jobs, lock>>
    BY <2>1 DEF Inv, Mutex
  <2>2. CASE At(j, "commit") /\ Finish(j, "success")
    <3>1. lock = j
      BY <2>2, HeldAt DEF At, Underway
    <3> QED  BY <1>0, <2>2, <3>1, Names DEF Inv, Mutex, Finish, Underway, JobType
  <2> QED  BY <2>1, <2>2
<1>5. Landing'
  <2>1. \A k \in Jobs : /\ Unsent(k)' => k \notin wire'
                        /\ jobs'[k].pc = "sent" => k \in wire'
                        /\ jobs'[k].pc \in {"executed", "applied", "dialing", "verified", "restoring", "commit"}
                             => Landed(k)'
                        /\ k \in accepted' \cup versions' => Landed(k)'
    BY <1>0, <1>1, <1>3 DEF Inv, Landing
  <2>2. \A i, k \in Jobs : i \in jobs'[k].file => Landed(i)'
    BY <1>1, <1>3 DEF Inv, Landing
  <2> QED  BY <2>1, <2>2 DEF Landing
<1>6. Keeping'
  <2>1. \A k \in Jobs : jobs'[k].pc \in Underway \ {"locked"} => Holds(k)' \/ k \in versions' \/ k \in surrendered'
    BY <1>0, <1>1, <1>2 DEF Inv, Keeping, Underway
  <2> QED  BY <1>0, <1>2, <1>3, <2>1 DEF Inv, Keeping
<1>7. Files'
  <2>1. \A k \in Jobs : HasRead(k)' \/ k \in wire' => jobs'[k].old \in jobs'[k].file
    BY <1>0, <1>1 DEF Inv, Files, HasRead
  <2>2. stored' \in versions' /\ \A k \in Jobs : jobs'[k].old \in versions' /\ jobs'[k].old # k
    BY <1>0, <1>1 DEF Inv, Files
  <2> QED  BY <2>1, <2>2 DEF Files
<1>8. Exact'
  <2> SUFFICES ASSUME method = "password"  PROVE Exact'
    BY <1>0 DEF Exact
  <2>1. \A k \in Jobs : k \in wire' => Holds(k)' \/ k \in surrendered'
    BY <1>0, <1>2 DEF Inv, Exact, Landed
  <2>2. \A k \in Jobs : /\ jobs'[k].pc \notin {"verified", "restoring"}
                        /\ jobs'[k].pc = "rejected" => k \notin accepted' /\ k \notin wire'
    BY <1>0, <1>1 DEF Inv, Exact
  <2>3. surrendered' = {} => accepted' = {stored'}
    BY <1>0 DEF Inv, Exact, Verified, Holds
  <2> QED  BY <1>2, <2>1, <2>2, <2>3 DEF Exact
<1>9. Added'
  BY <1>0, <1>2 DEF Inv, Added
<1>10. Retrying'
  <2>1. \A k \in Jobs : Verified(k) => Verified(k)'
    BY <1>0, <1>2, <1>3 DEF Verified
  <2>2. CASE UNCHANGED retry
    BY <1>3, <2>1, <2>2, RetryingKept DEF Inv
  <2>3. CASE RetriesMove /\ \A r \in Retriers : retry'[r].pc # "commit" \/ retry'[r] = retry[r]
    <3>1. ASSUME NEW r \in Retriers, retry'[r].pc \notin {"idle", "due", "over"}
          PROVE  /\ retry'[r].job \in Jobs /\ ~Fresh(retry'[r].job)
                 /\ retry'[r].pc = "commit" => Verified(retry'[r].job)
      BY <2>3, <3>1 DEF RetriesMove, Inv, Retrying
    <3> QED  BY <1>3, <2>1, <3>1 DEF Retrying, Retriers, Fresh, Verified, Landed, Unsent, Holds
  <2> QED  BY <2>2, <2>3
<1> QED  BY <1>4, <1>5, <1>6, <1>7, <1>8, <1>9, <1>10 DEF Inv

LEMMA PromoteInv ==
  ASSUME Inv, TypeOK', NEW j \in Jobs, Promote(j)  PROVE Inv'
<1>1. jobs[j].pc = "commit" /\ UNCHANGED <<method, target, retry, people>>
  BY DEF Promote, At
<1>2. CASE CommitCandidate(j) /\ Finish(j, "success")
  <2>1. Verified(j)
    BY <1>1 DEF Verified, Inv, Landing, Exact
  <2> QED  BY <1>1, <1>2, <2>1, CommitInv DEF At
<1>3. CASE Unverified(j) /\ UNCHANGED vault
  BY <1>1, <1>3, EndsInv DEF Unverified, Ended, Underway
<1> QED  BY <1>2, <1>3 DEF Promote

\* The candidate goes: its job knows that it is not in effect, or an
\* administrator takes the responsibility.
LEMMA DropInv ==
  ASSUME Inv, TypeOK', NEW j \in Jobs, Holds(j), cand' = None,
         \/ /\ jobs[j].pc \in {"rejected", "stopped"} /\ UNCHANGED surrendered
            /\ Finish(j, "failed") \/ Finish(j, "skipped")
         \/ UNCHANGED <<jobs, lock>> /\ surrendered' = surrendered \cup {j},
         UNCHANGED <<method, target, vault, retry>>
  PROVE  Inv'
<1>0. /\ jobs \in [Jobs -> JobType] /\ UNCHANGED <<method, accepted, wire, stored, versions>>
      /\ ~Fresh(j)
  BY DEF Inv, TypeOK, JobType, target, vault, Keeping
<1>1. \A k \in Jobs : /\ jobs'[k].old = jobs[k].old /\ jobs'[k].file = jobs[k].file
                      /\ \/ jobs'[k].pc = jobs[k].pc
                         \/ /\ k = j /\ jobs[k].pc \in {"rejected", "stopped"}
                            /\ jobs'[k].pc \in {"failed", "skipped"} /\ UNCHANGED surrendered
  BY <1>0 DEF JobType, Finish
<1>2. \A k \in Jobs : (Holds(k) <=> k = j) /\ ~Holds(k)'
  BY DEF Holds
<1>3. \A k \in Jobs : /\ Unsent(k)' => Unsent(k)
                      /\ Landed(k) => Landed(k)'
                      /\ Fresh(k)' <=> Fresh(k)
  BY <1>0, <1>1 DEF Unsent, Landed, Fresh
<1>4. Mutex'
  <2>1. CASE UNCHANGED <<jobs, lock>>
    BY <2>1 DEF Inv, Mutex
  <2>2. CASE jobs[j].pc \in {"rejected", "stopped"} /\ (Finish(j, "failed") \/ Finish(j, "skipped"))
    <3>1. lock = j
      BY <2>2, HeldAt DEF Underway
    <3> QED  BY <1>0, <2>2, <3>1, Names DEF Inv, Mutex, Finish, Underway, JobType
  <2> QED  BY <2>1, <2>2
<1>5. Landing'
  <2>1. \A k \in Jobs : /\ Unsent(k)' => k \notin wire'
                        /\ jobs'[k].pc = "sent" => k \in wire'
                        /\ jobs'[k].pc \in {"executed", "applied", "dialing", "verified", "restoring", "commit"}
                             => Landed(k)'
                        /\ k \in accepted' \cup versions' => Landed(k)'
    BY <1>0, <1>1, <1>3 DEF Inv, Landing
  <2>2. \A i, k \in Jobs : i \in jobs'[k].file => Landed(i)'
    BY <1>1, <1>3 DEF Inv, Landing
  <2> QED  BY <2>1, <2>2 DEF Landing
<1>6. Keeping'
  <2>1. \A k \in Jobs : jobs'[k].pc \in Underway \ {"locked"} => Holds(k)' \/ k \in versions' \/ k \in surrendered'
    <3> SUFFICES ASSUME NEW k \in Jobs, jobs'[k].pc \in Underway \ {"locked"}
                 PROVE  k \in versions \/ k \in surrendered'
      BY <1>0
    <3>1. jobs'[k].pc = jobs[k].pc
      BY <1>1 DEF Underway
    <3>2. Holds(k) \/ k \in versions \/ k \in surrendered
      BY <3>1 DEF Inv, Keeping
    <3>3. CASE k = j /\ (Finish(j, "failed") \/ Finish(j, "skipped"))
      BY <1>0, <3>3 DEF Finish, JobType, Underway
    <3> QED  BY <1>2, <3>2, <3>3
  <2> QED  BY <1>0, <1>1, <1>2, <1>3, <2>1 DEF Inv, Keeping
<1>7. Files'
  <2>1. \A k \in Jobs : HasRead(k)' \/ k \in wire' => jobs'[k].old \in jobs'[k].file
    BY <1>0, <1>1 DEF Inv, Files, HasRead
  <2>2. stored' \in versions' /\ \A k \in Jobs : jobs'[k].old \in versions' /\ jobs'[k].old # k
    BY <1>0, <1>1 DEF Inv, Files
  <2> QED  BY <2>1, <2>2 DEF Files
<1>8. ASSUME surrendered' = {}
      PROVE  /\ surrendered = {} /\ jobs[j].pc \in {"rejected", "stopped"}
  BY <1>8
<1>9. Exact'
  <2> SUFFICES ASSUME method = "password"  PROVE Exact'
    BY <1>0 DEF Exact
  <2>1. jobs[j].pc \in {"rejected", "stopped"} => j \notin accepted /\ j \notin wire
    BY UnsentIsNowhere DEF Inv, Exact, Unsent
  <2>2. \A k \in Jobs : k \in wire' => Holds(k)' \/ k \in surrendered'
    BY <1>0, <1>2, <2>1 DEF Inv, Exact
  <2>3. \A k \in Jobs : /\ jobs'[k].pc \notin {"verified", "restoring"}
                        /\ jobs'[k].pc = "rejected" => k \notin accepted' /\ k \notin wire'
    BY <1>0, <1>1 DEF Inv, Exact
  <2>4. surrendered' = {} => accepted' = {stored'}
    BY <1>0, <1>2, <1>8, <2>1 DEF Inv, Exact
  <2> QED  BY <1>2, <2>2, <2>3, <2>4 DEF Exact
<1>10. Added'
  BY <1>0, <1>2, <1>8 DEF Inv, Added
<1>11. Retrying'
  <2>1. \A k \in Jobs : Verified(k) => Verified(k)'
    BY <1>0, <1>2, <1>3 DEF Verified
  <2> QED  BY <1>3, <2>1, RetryingKept DEF Inv
<1> QED  BY <1>4, <1>5, <1>6, <1>7, <1>9, <1>10, <1>11 DEF Inv

LEMMA GiveUpInv ==
  ASSUME Inv, TypeOK', NEW j \in Jobs, GiveUp(j)  PROVE Inv'
<1>1. /\ jobs[j].pc \in {"rejected", "stopped"}
      /\ Finish(j, "failed") \/ Finish(j, "skipped")
      /\ UNCHANGED <<method, target, vault, retry, people>> /\ UNCHANGED surrendered
  BY DEF GiveUp, At, people
<1>2. CASE Holds(j)
  <2>1. cand' = None
    BY <1>2 DEF GiveUp, Discard
  <2> QED  BY <1>1, <1>2, <2>1, DropInv
<1>3. CASE ~Holds(j)
  <2>1. UNCHANGED cand
    BY <1>3 DEF GiveUp, Discard
  <2> QED  BY <1>1, <2>1, EndsInv DEF Ended, Underway
<1> QED  BY <1>2, <1>3

LEMMA DiscardByAdminInv ==
  ASSUME Inv, TypeOK', DiscardByAdmin  PROVE Inv'
<1>1. Holds(cand.job) /\ cand.job \in Jobs
  BY DEF DiscardByAdmin, Holds, Inv, TypeOK, CandType
<1> QED  BY <1>1, DropInv DEF DiscardByAdmin

-----------------------------------------------------------------------------
(* The steps of everybody else.                                            *)

\* A retry moves, and the jobs wait.
LEMMA RetryMoves ==
  ASSUME Inv, NEW r \in Retriers,
         \/ RetryEnds(r)
         \/ \E p \in {"binding", "dialing", "commit"} :
              /\ RetryGoto(r, p) /\ retry[r].pc \in {"picked", "binding", "dialing"}
              /\ p = "commit" => retry[r].job \in accepted
  PROVE  RetriesMove /\ \A q \in Retriers : q # r => retry'[q] = retry[q]
<1>1. retry \in [Retriers -> RetryType]
  BY DEF Inv, TypeOK, RetryType
<1>2. \A q \in Retriers : q # r => retry'[q] = retry[q]
  BY <1>1 DEF RetryEnds, RetryGoto
<1>3. CASE RetryEnds(r)
  <2>1. retry'[r].pc \in {"idle", "due", "over"}
    BY <1>1, <1>3 DEF RetryEnds, NoRetry
  <2> QED  BY <1>2, <2>1 DEF RetriesMove
<1>4. CASE \E p \in {"binding", "dialing", "commit"} :
              /\ RetryGoto(r, p) /\ retry[r].pc \in {"picked", "binding", "dialing"}
              /\ p = "commit" => retry[r].job \in accepted
  <2>1. PICK p \in {"binding", "dialing", "commit"} :
              /\ RetryGoto(r, p) /\ retry[r].pc \in {"picked", "binding", "dialing"}
              /\ p = "commit" => retry[r].job \in accepted
    BY <1>4
  <2>2. retry'[r].job = retry[r].job /\ retry'[r].pc = p
    BY <1>1, <2>1 DEF RetryGoto, RetryType
  <2>3. retry[r].job \in Jobs /\ ~Fresh(retry[r].job)
    BY <2>1 DEF Inv, Retrying
  <2> QED  BY <1>2, <2>1, <2>2, <2>3 DEF RetriesMove
<1> QED  BY <1>3, <1>4

\* Whatever keeps jobs, target and vault and the candidate.
LEMMA OthersInv ==
  ASSUME Inv, TypeOK', RetriesMove, Kept,
         UNCHANGED <<method, target, vault, jobs, lock, surrendered>>
  PROVE  Inv'
<1>1. Still
  BY DEF Still, target, vault
<1>2. JobsMove /\ Mutex'
  BY DEF JobsMove, Inv, Mutex
<1> QED  BY <1>1, <1>2, StillKeepsInv

LEMMA RetryInv ==
  ASSUME Inv, TypeOK', NEW r \in Retriers, RetryStep(r)  PROVE Inv'
<1>0. retry \in [Retriers -> RetryType] /\ TypeOK
  BY DEF Inv, TypeOK, RetryType
<1>1. CASE NoteFailure(r) /\ UNCHANGED <<method, target, vault, lock, jobs, people>>
  BY <1>0, <1>1, RetryMoves, CandKept, OthersInv DEF NoteFailure, people
<1>2. CASE Pick(r)
  <2>1. retry'[r].job = cand.job /\ retry'[r].pc = "picked" /\ \A q \in Retriers : q # r => retry'[q] = retry[q]
    BY <1>0, <1>2 DEF Pick
  <2>2. cand.job \in Jobs /\ ~Fresh(cand.job)
    BY <1>2 DEF Pick, Inv, Keeping, Holds, TypeOK, CandType
  <2>3. RetriesMove
    BY <2>1, <2>2 DEF RetriesMove
  <2> QED  BY <1>0, <1>2, <2>3, CandKept, OthersInv DEF Pick, people
<1>3. CASE Revalidate(r)
  <2>1. UNCHANGED <<method, target, vault, lock, jobs, people>> /\ retry[r].pc = "picked"
    BY <1>3 DEF Revalidate, RetryAt
  <2>2. ASSUME NEW p \in {"binding", "dialing"}, RetryGoto(r, p), UNCHANGED cand  PROVE Inv'
    BY <1>0, <2>1, <2>2, RetryMoves, CandKept, OthersInv DEF people
  <2>3. CASE RetryEnds(r) /\ UNCHANGED cand
    BY <1>0, <2>1, <2>3, RetryMoves, CandKept, OthersInv DEF people
  <2> QED  BY <1>1, <1>3, <2>1, <2>2, <2>3 DEF Revalidate
<1>4. CASE BindAgain(r)
  <2>1. UNCHANGED <<method, target, vault, lock, jobs, people>> /\ retry[r].pc = "binding"
    BY <1>4 DEF BindAgain, RetryAt
  <2>2. CASE Bind(retry[r].job) /\ RetryGoto(r, "dialing")
    BY <1>0, <2>1, <2>2, RetryMoves, CandKept, OthersInv DEF people
  <2> QED  BY <1>1, <1>4, <2>1, <2>2 DEF BindAgain
<1>5. CASE VerifyAgain(r)
  <2>1. UNCHANGED <<method, target, vault, lock, jobs, people>> /\ retry[r].pc = "dialing"
    BY <1>5 DEF VerifyAgain, RetryAt
  <2>2. CASE retry[r].job \in accepted /\ RetryGoto(r, "commit") /\ UNCHANGED cand
    BY <1>0, <2>1, <2>2, RetryMoves, CandKept, OthersInv DEF people
  <2> QED  BY <1>1, <1>5, <2>1, <2>2 DEF VerifyAgain
<1>6. CASE PromoteRetried(r)
  <2>1. UNCHANGED <<method, target, lock, jobs, people>> /\ retry[r].pc = "commit"
    BY <1>6 DEF PromoteRetried, RetryAt
  <2>2. CASE CommitCandidate(retry[r].job) /\ RetryEnds(r)
    <3>1. retry[r].job \in Jobs /\ Verified(retry[r].job)
      BY <2>1 DEF Inv, Retrying
    <3>2. RetriesMove /\ \A q \in Retriers : q # r => retry'[q] = retry[q]
      BY <2>2, RetryMoves
    <3>3. retry'[r].pc # "commit"
      BY <1>0, <2>2 DEF RetryEnds, NoRetry
    <3>4. \A q \in Retriers : retry'[q].pc # "commit" \/ retry'[q] = retry[q]
      BY <3>2, <3>3
    <3> QED  BY <2>1, <2>2, <3>1, <3>2, <3>4, CommitInv
  <2>3. CASE RetryEnds(r) /\ UNCHANGED <<cand, vault>>
    BY <1>0, <2>1, <2>3, RetryMoves, CandKept, OthersInv DEF people
  <2> QED  BY <1>1, <1>6, <2>1, <2>2, <2>3 DEF PromoteRetried
<1> QED  BY <1>2, <1>3, <1>4, <1>5, <1>6 DEF RetryStep

LEMMA CrashInv ==
  ASSUME Inv, TypeOK', Crash  PROVE Inv'
<1>1. /\ jobs \in [Jobs -> JobType] /\ retry \in [Retriers -> RetryType]
      /\ UNCHANGED <<method, target, vault, cand, people>>
  BY DEF Inv, TypeOK, JobType, RetryType, Crash
<1>2. Still
  BY <1>1, CandKept DEF Still, target, vault, people, Inv
<1>3. JobsMove
  <2> SUFFICES ASSUME NEW j \in Jobs
               PROVE  /\ jobs'[j].old = jobs[j].old /\ jobs'[j].file = jobs[j].file
                      /\ jobs'[j].pc = jobs[j].pc \/ MayBeAt(j, jobs'[j].pc)
    BY DEF JobsMove
  <2>1. CASE jobs[j].pc \in Underway
    <3>1. jobs'[j].old = jobs[j].old /\ jobs'[j].file = jobs[j].file /\ jobs'[j].pc = "killed"
      BY <1>1, <2>1 DEF Crash, JobType
    <3> QED  BY <2>1, <3>1 DEF MayBeAt, Underway
  <2>2. CASE jobs[j].pc \notin Underway
    BY <2>2 DEF Crash
  <2> QED  BY <2>1, <2>2
<1>4. RetriesMove
  BY DEF Crash, RetriesMove, NoRetry
<1>5. Mutex'
  <2>1. \A j \in Jobs : jobs'[j].pc \notin Underway
    BY <1>1 DEF Crash, Underway, JobType
  <2> QED  BY <2>1, Names DEF Mutex, Crash
<1> QED  BY <1>2, <1>3, <1>4, <1>5, StillKeepsInv

-----------------------------------------------------------------------------
(* The invariant, and what follows from it.                                *)

LEMMA InitInv == Init => Inv
<1> SUFFICES ASSUME Init  PROVE Inv
  OBVIOUS
<1>1. TypeOK
  BY Names, MethodsKnown DEF Init, TypeOK, NoRetry, Ended, Underway
<1>2. \A j \in Jobs : jobs[j].pc = "idle" /\ jobs[j].old = Original /\ jobs[j].file = {} /\ ~Holds(j)
  BY DEF Init, Holds
<1>3. Mutex /\ Landing /\ Keeping
  BY <1>2, Names DEF Init, Mutex, Landing, Keeping, Underway, Landed, Unsent, Fresh
<1>4. Files /\ Exact /\ Added /\ Retrying
  BY <1>2, Names DEF Init, Files, HasRead, Exact, Added, Retrying, NoRetry
<1> QED  BY <1>1, <1>3, <1>4 DEF Inv

LEMMA NextInv ==
  ASSUME Inv, [Next]_vars  PROVE Inv'
<1>0. TypeOK'
  BY TypeCorrect DEF Inv
<1>1. ASSUME NEW j \in Jobs, JobStep(j) \/ Execute(j)  PROVE Inv'
  BY <1>0, <1>1, AcquireInv, CreateCandidateInv, LoginInv, SendInv, ExecuteInv, QuietJobInv,
     RestoreInv, PromoteInv, GiveUpInv DEF JobStep
<1>2. ASSUME NEW r \in Retriers, RetryStep(r)  PROVE Inv'
  BY <1>0, <1>2, RetryInv
<1>3. CASE Revoke \/ Age \/ UNCHANGED vars
  <2>1. UNCHANGED retry /\ UNCHANGED <<method, target, vault, jobs, lock, surrendered>>
    BY <1>3 DEF Revoke, Age, vars, people, target, vault
  <2>2. Kept
    <3>1. UNCHANGED cand \/ (cand # None /\ cand' = [cand EXCEPT !.aged = TRUE])
      BY <1>3 DEF Revoke, Age, vars
    <3> QED  BY <3>1, CandKept DEF Inv
  <2>3. RetriesMove
    BY <2>1 DEF RetriesMove
  <2> QED  BY <1>0, <2>1, <2>2, <2>3, OthersInv
<1>4. CASE DiscardByAdmin \/ Crash
  BY <1>0, <1>4, DiscardByAdminInv, CrashInv
<1>5. CASE ComeRound \/ PassBy
  <2>1. UNCHANGED <<method, target, vault, cand, jobs, lock, people>>
    BY <1>5 DEF ComeRound, PassBy
  <2>2. Kept
    BY <2>1 DEF Kept, Holds
  <2>3. RetriesMove
    <3>1. retry \in [Retriers -> RetryType]
      BY DEF Inv, TypeOK, RetryType
    <3> QED  BY <1>5, <3>1 DEF RetriesMove, ComeRound, PassBy, RetryGoto, RetryEnds, NoRetry, RetryType
  <2> QED  BY <1>0, <2>1, <2>2, <2>3, OthersInv DEF people
<1> QED  BY <1>1, <1>2, <1>3, <1>4, <1>5 DEF Next

LEMMA Invariance == Spec => []Inv
<1> QED  BY InitInv, NextInv, PTL DEF Spec

\* Any number of jobs, requests and mishaps: unless an administrator has
\* cleared a candidate, the target takes a secret the vault holds.
THEOREM NobodyLockedOut == Spec => []NeverLockedOut
<1>1. Inv => NeverLockedOut
  <2> SUFFICES ASSUME Inv, surrendered = {}
               PROVE  /\ method = "password" => accepted \cap ({stored} \cup Candidates) # {}
                      /\ method = "append" => accepted \cap (versions \cup Candidates) # {}
    BY DEF NeverLockedOut
  <2>1. \A j \in Jobs : Holds(j) => j \in Candidates
    BY DEF Holds, Candidates
  <2>2. method = "password" => accepted \cap ({stored} \cup Candidates) # {}
    BY <2>1 DEF Inv, Exact
  <2>3. method = "append" => accepted \cap (versions \cup Candidates) # {}
    BY <2>1 DEF Inv, Added
  <2> QED  BY <2>2, <2>3
<1> QED  BY <1>1, Invariance, PTL

-----------------------------------------------------------------------------
(* The vault.  Its candidate is the job of the row; places, retries, the   *)
(* marks of the row and the initiator's right are behind it.               *)

Away == IF cand = None THEN None ELSE cand.job
Behind == UNCHANGED <<method, accepted, wire, stored, Away, surrendered>>

LEMMA BehindIsStutter ==
  ASSUME Behind  PROVE UNCHANGED Vault!vars
BY DEF Behind, Away, Vault!vars

LEMMA AwayKept ==
  ASSUME TypeOK,
         NEW j, \/ RecordFailure(j) \/ Bind(j) \/ UNCHANGED cand
                \/ Holds(j) /\ cand' = [cand EXCEPT !.applied = TRUE]
                \/ cand # None /\ cand' = [cand EXCEPT !.aged = TRUE]
  PROVE  Away' = Away
<1>1. cand \in CandType \cup {None} /\ Kept
  BY CandKept DEF TypeOK
<1>2. CASE cand = None
  <2>1. cand' = None
    BY <1>2 DEF RecordFailure, Bind, MayBind, Holds
  <2> QED  BY <1>2, <2>1 DEF Away
<1>3. CASE cand # None
  <2>1. PICK k \in Jobs : k = cand.job
    BY <1>1, <1>3 DEF CandType
  <2>2. Holds(k)'
    BY <1>1, <1>3, <2>1 DEF Kept, Holds
  <2>3. cand' # None /\ cand'.job = k
    BY <2>2 DEF Holds
  <2> QED  BY <1>3, <2>1, <2>3 DEF Away
<1> QED  BY <1>2, <1>3

LEMMA JobStepVault ==
  ASSUME Inv, NEW j \in Jobs, JobStep(j) \/ Execute(j)
  PROVE  [Vault!Next]_(Vault!vars)
<1>0. TypeOK /\ j \in Secrets
  BY Names DEF Inv
<1>1. ASSUME UNCHANGED <<method, target, stored, surrendered>>,
             RecordFailure(j) \/ Bind(j) \/ UNCHANGED cand
      PROVE  [Vault!Next]_(Vault!vars)
  <2>1. Away' = Away
    BY <1>0, <1>1, AwayKept
  <2> QED  BY <1>1, <2>1, BehindIsStutter DEF Behind, target
<1>2. CASE CreateCandidate(j)
  <2>1. CASE cand = None /\ cand' = NewCandidate(j)
    <3>1. jobs[j].pc = "locked" /\ UNCHANGED <<method, target, vault, retry, people>>
      BY <1>2 DEF CreateCandidate, At
    <3>2. j \notin accepted \cup wire \cup surrendered
      BY <3>1, UnsentIsNowhere DEF Unsent, Fresh, Inv, Keeping
    <3>3. NewCandidate(j) \in CandType /\ NewCandidate(j).job = j
      BY DEF NewCandidate, CandType
    <3>4. Away = None /\ Away' = j
      BY <2>1, <3>3, Names DEF Away
    <3>5. Vault!PutAway(j)
      BY <3>1, <3>2, <3>4 DEF Vault!PutAway, Away, target, vault, people
    <3> QED  BY <1>0, <3>5 DEF Vault!Next
  <2>2. CASE UNCHANGED cand
    BY <1>1, <1>2, <2>2 DEF CreateCandidate, vault, people
  <2> QED  BY <1>2, <2>1, <2>2 DEF CreateCandidate
<1>3. CASE Send(j)
  <2>1. CASE UNCHANGED wire
    BY <1>1, <1>3, <2>1 DEF Send, vault, people, target
  <2>2. CASE wire' = wire \cup {j}
    <3>1. jobs[j].pc = "read" /\ UNCHANGED <<method, accepted, vault, cand, retry, people>>
      BY <1>3 DEF Send, At
    <3>2. Away = j \/ j \in surrendered
      BY <3>1, UnsentIsNowhere DEF Unsent, Underway, Inv, Keeping, Away, Holds
    <3>3. Vault!Send(j)
      BY <2>2, <3>1, <3>2 DEF Vault!Send, Away, vault, people
    <3> QED  BY <1>0, <3>3 DEF Vault!Next
  <2> QED  BY <1>3, <2>1, <2>2 DEF Send
<1>4. CASE Execute(j)
  <2>1. /\ j \in wire /\ accepted' = Effect(j) /\ wire' = wire \ {j}
        /\ UNCHANGED <<method, vault, cand, people>>
    BY <1>4 DEF Execute
  <2>2. CASE method = "append"
    <3>1. accepted' \in SUBSET Secrets
      BY <1>0, <2>1 DEF Effect, TypeOK
    <3>2. Vault!Rewrite
      BY <2>1, <2>2, <3>1 DEF Vault!Rewrite, vault, people
    <3> QED  BY <3>2 DEF Vault!Next
  <2>3. CASE method # "append"
    <3>1. Vault!Take(j)
      BY <2>1, <2>3 DEF Vault!Take, Effect, vault, people
    <3> QED  BY <1>0, <3>1 DEF Vault!Next
  <2> QED  BY <2>2, <2>3
<1>5. CASE Refuse(j)
  <2>1. j \in wire
    BY <1>5 DEF Refuse, At, Inv, Landing
  <2>2. Vault!Refuse(j)
    BY <1>5, <2>1 DEF Refuse, Vault!Refuse, vault, people
  <2> QED  BY <1>0, <2>2 DEF Vault!Next
<1>6. CASE Answer(j)
  <2>1. UNCHANGED cand \/ (Holds(j) /\ cand' = [cand EXCEPT !.applied = TRUE])
    BY <1>6 DEF Answer
  <2>2. Away' = Away
    BY <1>0, <2>1, AwayKept
  <2> QED  BY <1>6, <2>2, BehindIsStutter DEF Answer, Behind, target, vault, people
<1>7. CASE Restore(j) \/ Prune(j)
  <2>1. /\ jobs[j].pc \in {"restoring", "verified"} /\ UNCHANGED <<method, wire, vault, people>>
        /\ RecordFailure(j) \/ UNCHANGED cand
        /\ accepted' \in {accepted, jobs[j].file, (jobs[j].file \cup {j}) \ {jobs[j].old}}
    BY <1>7 DEF Restore, Prune, At, Unverified
  <2>2. method # "password" /\ accepted' \in SUBSET Secrets /\ wire' \in SUBSET wire
    BY <1>0, <2>1 DEF Inv, Exact, TypeOK
  <2>3. Away' = Away
    BY <1>0, <2>1, AwayKept
  <2>4. Vault!Rewrite
    BY <2>1, <2>2, <2>3 DEF Vault!Rewrite, Away, vault, people
  <2> QED  BY <2>4 DEF Vault!Next
<1>8. CASE Promote(j)
  <2>1. CASE CommitCandidate(j)
    <3>1. jobs[j].pc = "commit" /\ UNCHANGED <<method, target, people>>
      BY <1>8 DEF Promote, At
    <3>2. Away = j /\ Away' = None /\ j # None
      BY <2>1, Names DEF CommitCandidate, Holds, Away
    <3>3. method = "password" /\ surrendered = {} => j \in accepted
      BY <2>1, <3>1 DEF Inv, Exact, CommitCandidate
    <3>4. Vault!Settle
      BY <2>1, <3>1, <3>2, <3>3 DEF Vault!Settle, Away, CommitCandidate, target, people
    <3> QED  BY <3>4 DEF Vault!Next
  <2>2. CASE Unverified(j) /\ UNCHANGED vault
    BY <1>1, <1>8, <2>2 DEF Promote, Unverified, vault, people
  <2> QED  BY <1>8, <2>1, <2>2 DEF Promote
<1>9. CASE GiveUp(j)
  <2>1. jobs[j].pc \in {"rejected", "stopped"} /\ UNCHANGED <<method, target, vault, people>>
    BY <1>9 DEF GiveUp, At
  <2>2. CASE Holds(j)
    <3>1. Away = j /\ Away' = None /\ j # None
      BY <1>9, <2>2, Names DEF GiveUp, Discard, Holds, Away
    <3>2. method = "password" => j \notin accepted \cup wire
      BY <2>1, UnsentIsNowhere DEF Unsent, Inv, Exact
    <3>3. Vault!GiveUp
      BY <2>1, <3>1, <3>2 DEF Vault!GiveUp, Away, target, vault, people
    <3> QED  BY <3>3 DEF Vault!Next
  <2>3. CASE ~Holds(j)
    <3>1. UNCHANGED cand
      BY <1>9, <2>3 DEF GiveUp, Discard
    <3> QED  BY <1>1, <2>1, <3>1 DEF vault, people
  <2> QED  BY <2>2, <2>3
<1>10. CASE Acquire(j) \/ Recheck(j) \/ Login(j) \/ LoseAnswer(j) \/ PrepareVerify(j) \/ Verify(j)
  <2>1. UNCHANGED <<method, target, stored, surrendered>>
    BY <1>10 DEF Acquire, Recheck, Login, LoseAnswer, PrepareVerify, Verify, vault, people
  <2>2. RecordFailure(j) \/ Bind(j) \/ UNCHANGED cand
    BY <1>10 DEF Acquire, Recheck, Login, LoseAnswer, PrepareVerify, Verify, Unverified
  <2> QED  BY <1>1, <2>1, <2>2
<1> QED  BY <1>2, <1>3, <1>4, <1>5, <1>6, <1>7, <1>8, <1>9, <1>10 DEF JobStep

LEMMA RetryVault ==
  ASSUME Inv, NEW r \in Retriers, RetryStep(r)
  PROVE  [Vault!Next]_(Vault!vars)
<1> DEFINE j == retry[r].job
<1>1. CASE PromoteRetried(r) /\ CommitCandidate(j)
  <2>1. retry[r].pc = "commit" /\ UNCHANGED <<method, target, people>>
    BY <1>1 DEF PromoteRetried, RetryAt
  <2>2. j \in Jobs /\ Verified(j) /\ Holds(j)
    BY <1>1, <2>1 DEF Inv, Retrying, CommitCandidate
  <2>3. Away = j /\ Away' = None /\ j # None /\ stored' = j
    BY <1>1, <2>2, Names DEF CommitCandidate, Holds, Away
  <2>4. method = "password" /\ surrendered = {} => j \in accepted
    BY <2>2 DEF Verified
  <2>5. Vault!Settle
    BY <2>1, <2>3, <2>4 DEF Vault!Settle, Away, target, people
  <2> QED  BY <2>5 DEF Vault!Next
<1>2. CASE ~(PromoteRetried(r) /\ CommitCandidate(j))
  <2>1. UNCHANGED <<method, accepted, wire, stored, surrendered>>
    BY <1>2 DEF RetryStep, Pick, Revalidate, BindAgain, VerifyAgain, PromoteRetried, target, vault, people
  <2>2. RecordFailure(j) \/ Bind(j) \/ UNCHANGED cand
    BY <1>2 DEF RetryStep, Pick, Revalidate, BindAgain, VerifyAgain, PromoteRetried, NoteFailure
  <2>3. Away' = Away
    BY <2>2, AwayKept DEF Inv
  <2> QED  BY <2>1, <2>3, BehindIsStutter DEF Behind
<1> QED  BY <1>1, <1>2

LEMMA NextVault ==
  ASSUME Inv, [Next]_vars
  PROVE  [Vault!Next]_(Vault!vars)
<1>1. CASE DiscardByAdmin
  <2>1. Away = cand.job /\ Away' = None /\ Away # None
    BY <1>1, Names DEF DiscardByAdmin, Away, Inv, TypeOK, CandType
  <2>2. Vault!Surrender
    BY <1>1, <2>1 DEF DiscardByAdmin, Vault!Surrender, Away, target, vault
  <2> QED  BY <2>2 DEF Vault!Next
<1>2. CASE Revoke \/ Age \/ ComeRound \/ PassBy \/ Crash \/ UNCHANGED vars
  <2>1. UNCHANGED <<method, accepted, wire, stored, surrendered>>
    BY <1>2 DEF Revoke, Age, ComeRound, PassBy, Crash, vars, target, vault, people
  <2>2. UNCHANGED cand \/ (cand # None /\ cand' = [cand EXCEPT !.aged = TRUE])
    BY <1>2 DEF Revoke, Age, ComeRound, PassBy, Crash, vars
  <2>3. Away' = Away
    BY <2>2, AwayKept DEF Inv
  <2> QED  BY <2>1, <2>3, BehindIsStutter DEF Behind
<1> QED  BY <1>1, <1>2, JobStepVault, RetryVault DEF Next

\* Any number of jobs, requests and mishaps, and any of the three methods: the
\* one copy of a secret that may be in effect is kept until it is settled.
THEOREM ChangeImplementsVault == Spec => ImplementsVault
<1>1. Init => Vault!Init
  BY Names DEF Init, Vault!Init, Original, Secrets
<1>2. Inv /\ [Next]_vars => [Vault!Next]_(Vault!vars)
  BY NextVault
<1> QED  BY Invariance, <1>1, <1>2, PTL DEF Spec, ImplementsVault, Vault!Spec
=============================================================================
