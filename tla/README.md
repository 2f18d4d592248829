# Verification of custodexa

This directory holds TLA+ models of the parts of custodexa whose correctness depends on
the order in which things happen, the TLC runs that check them on small instances, and
proofs of their main properties that TLAPS checks for every value of the constants.

Run `tlc -config <run>.cfg <MC module>.tla` for a run and `tlapm <module>_proofs.tla` for the
proofs. `PROJECT.json` lists, for every definition, the lines of Go it stands for, the runs,
one mutant per checked property, the findings, the hazards and the theorems.

Paths below are relative to `backend/` of the repository.

## 1. The system

custodexa is a bastion host: users open recorded sessions to servers, databases and clusters
whose credentials it keeps encrypted. The data keys are wrapped by a key-encryption key (KEK)
that may live only in memory. Until an administrator supplies it the server is *sealed*: a
small stage-1 process answers the unseal endpoint and refuses everything else. Unsealing
verifies the material, builds the whole service graph (stage 2) and publishes it; a runtime
*Seal* takes it away again. What happens while no database key is available is recorded in a
journal file of its own, which is replayed into the audit log after each unseal.

| component | state | operations | hard behaviour | what makes it correct |
|---|---|---|---|---|
| seal machine, `internal/seal` | one pointer to an immutable node; limiter; `sealBusy` | Unseal, Seal, the background reaper and releaser | all race on one compare-and-swap; late stage 2; records that land after their deadline; panics | one holder; every unsealing ends; nothing late has an effect; one live graph; write-ahead |
| material gate, `internal/seal/material_gate.go` | counter, flag, channel of one graph | Borrow, Finish, CloseWith, Drain | close and release against borrowers | no key wiped under a borrower; channel shut once |
| seal routing, `internal/api/seal_handler.go`, `cmd/server/sealwire.go`, `sealgate.go` | admission ticket, current router | the unseal request, router swap | ticket, machine and router are three pieces of state | what passes the gate finds the graph on offer; every request answered |
| seal journal, `internal/sealjournal` | one file: two header slots, a ring of records | Open, write a record, batch rejections, probe | crash or fault between any two of four file operations | acknowledged means durable; never refuses to start; numbers are fresh; faults clear |
| journal replay, `sealjournal/replay.go`, `modules/audit/seal_replay_sink.go` | checkpoint and counters in the header, audit rows | scan, transaction, checkpoint | runs beside new records and seals; crash between transaction and checkpoint | every record reaches the audit log, once |
| resource bag, `internal/seal/cancel.go` | what stage 2 opened | Add, Release | Add after Release, a release that fails | everything is released, in reverse order |
| data keys, `modules/keyvault` | a table of wrapped keys per purpose, version and KEK; a cache per process | bootstrap, rewrap to another KEK, abandon, settle after the restart, rotate, re-encrypt, clean up | several processes with stale caches; restarts between rewrap and settlement; values written meanwhile; destruction | the server can always be started; no key that a stored value needs is destroyed, or made twice |
| change of an account's secret, `modules/asset/change_secret_*.go`, `rotation_executor.go` | the account's versions, the candidate row, a mutex per account, the secret on the target | jobs, the periodic retry and its button, clearing a candidate | two systems and no transaction over both; answers lost or late; retries take no mutex; crash anywhere | never locked out of the target; a candidate is given up only when that is safe |
| rotation of a shared credential, `modules/asset/credential_rotation*.go`, `internal/dbrotate` | a rotation, its members | start, advance, cancel, take over | members succeed and fail one by one | every member's secret is in the vault |
| recordings, `modules/session/recording_*.go` | columns of the sessions table, files, one mutex | land, retention walk and sweep, cache pass, delete | a file goes before or after its row; lists made before the mutex | a recording is on the host or vouched for until its time is over |
| sessions and keystrokes, `modules/session`, `internal/keystroke`, `internal/recorder` | open sessions, record files | write, seal, end | ends and writes race; disk full | a sealed record is complete and unchanged |
| connection gates, `internal/connectgate` | policy, approvals, limits | ask in order | a policy changes between question and use | no session without a yes from every gate |
| offsite copies, `internal/offsite` | a ledger row per recording and generation of the settings, leases, the bucket | enqueue, claim, hash, put, verify, record; fetch; backfill; switch, stop, revoke | updates by id after minutes of upload; files that grow; crash between bucket and ledger | what the ledger vouches for is in the bucket; every row settles; what expires is no longer served |
| audit queue, `modules/audit/audit_log_service.go` | bounded channel, one batch per worker, counter of rows in hand, fallback file | Log, the workers' loop and its drain, Shutdown | workers against Shutdown and its deadline; an insert that fails, hangs or loses its answer | every row gets one fate and nothing disappears in silence; a bad row costs no other; a clean Shutdown has stored everything |
| audit chain, `modules/audit` | hash chain, checkpoints, retention | checkpoint, verify, purge | several writers, crash | the chain has no gap and no fork |
| approvals, `modules/authz`, `modules/policy` | requests and grants | ask, approve, expire, revoke | expiry against approval | a grant ends when it says |
| schedulers, `internal/scheduler` | jobs | start, stop, tick | stop against a running job | one run at a time; none after stop |
| identity, proxies, HTTP layer, database layer, crypto, reports, frontend | per request or connection | | parsers, encoders, I/O | not a matter of ordering: not modelled |

How they meet. The handler takes the journal's admission ticket, calls `Machine.Unseal`, which
writes to the journal before each commitment and builds a graph; the graph owns a material
gate. On success the handler gives the ticket back, swaps the router and starts a replay,
which borrows from the gate. `Machine.Seal` records, closes the gate together with its
compare-and-swap, waits for the leases, releases the graph and records the outcome. Requests
served by stage 2 hand rows to the audit queue, which is opened with the graph and shut down when
the graph is released, and whose rows are stamped with a key borrowed from the gate. A session that
ends leaves a recording and a ledger row in one transaction; uploader, retention, deletion and
fetcher then share the two tables and the directory, but no lock. Jobs and retries of a change of
secret share the candidate's row and, the jobs among themselves, the account's mutex.

## 2. Modules

    SealCells        nodes and the fourteen cells of the transition table
      SealTable      abstract: a node that only fires cells that match
      SealMachine    attempts, zombies, releasers, Seal requests, borrowers
        SealRouting  composition with ticket, handlers and router
    LeaseGate        abstract: lend while open, wipe when all is back
      MaterialGate   counter, flag and channel
    SealJournal      file, medium, owner, caller, replay, audit rows
    RowFates         abstract: each row gets one fate
      AuditQueue     channel, workers, batches, table, Shutdown
    EvidenceCustody  abstract: where a recording is, and who vouches for it
    OffsiteLedger    the rows of the ledger and every update of one
      OffsiteCopies  composition with uploader, retention, fetcher, settings
    CredentialVault  abstract: the one copy of a new secret
      ChangeSecret   jobs, retries, target, candidate, people
    KeyRing          abstract: keys made once, kept while needed
      DataKeys       the table of wrapped keys and the processes on it
    *_proofs         theorems; MC*: instances for TLC

**SealCells / SealTable.** `transitions.go` as data: a cell has sources, events, a target and
token effects. `ApplyCell` is `applyCell`. `SealTable` is the machine a reader of the table
imagines: one node, and a step fires a cell that matches the node as it is now.

**SealMachine.** `node` and `ptr` are the value and the identity behind `atomic.Pointer`;
a compare-and-swap compares identities. Each attempt has a program counter that follows
`Unseal`, `run` and the handlers of `handlers.go` from one shared access to the next: load,
limiter, compare-and-swap, each journal write, verification, stage 2, each ending, the
release and the clearing of the token. When stage 2 times out the same identifier goes on as
the zombie's reaper. Sealers follow `Machine.Seal` the same way; `Borrow` and `Finish` are the
users of a graph's gate. A journal write is acknowledged, or reported as failed although it
may have landed (`Write`). Verification and stage 2 return anything, stage 2 also never, or
with a panic that leaves its graph `orphaned`.

**MaterialGate / LeaseGate.** One action per method under the mutex. `Close` and `CloseRefused`
are `CloseWith` with and without effect, `JoinClosed` a release that finds the gate closed.

**SealRouting.** The handler of each attempt (`Arrive`, `Admit`, `ReleaseTicket`,
`PublishRouter`) around the machine's own steps, with one ticket and one router pointer.

**SealJournal.** `ring` and `heads` are what reads see, `ringD` and `headsD` what is on the medium.
A record takes `WriteSlot`, `SyncSlot`, `WriteHeader`, `SyncHeader`. Each may fail, and what a failed
write leaves is old, new or torn. `Crash` finds every place where the two views differ old,
new or torn, and a file whose directory was not synced possibly gone. The caller is the
machine reduced to the order of its records (`Protocol`); it may give up before or while the
owner works for it. `ReserveWrite`, `Snapshot`, `Commit`, `Checkpoint` are the replay, which runs
beside new records. A slot keeps kind, number and index; of the counters the model keeps the
sum and the rejections.

**AuditQueue / RowFates.** `queue` is `logChan` and `held` the batch of each worker. `at` follows a
worker from one step another goroutine could see to the next: it looks at `drainAbort`, receives
a row, counts it (`inFlight`), inserts its batch, retries the rows one by one, settles. `home` says
which loop it is in: `select` (`worker`), `drain` (`drainOnShutdown`) or its last flush. `Persist` is
one INSERT: stored, refused because of a bad row, refused for a reason of the database's own, or
stored and reported as failed. `Shutdown` is `BeginShutdown`, then `Drained`, or `Deadline` and
`TakeResidual`. The gate is that of `MaterialGate` reduced to a flag, read where a row is stamped.
`RowFates` is what a caller of `Log` may count on: a row is pending, then stored or degraded, for
good.

**OffsiteLedger / OffsiteCopies / EvidenceCustody.** `OffsiteLedger` is `ledger.go`: an operator per SQL
update, whose guard is what the WHERE asks (often the id only). `OffsiteCopies` puts the callers around it.
`up` is the row the uploader has in hand, and its `at` follows `processOne` from one look at the world to
the next: open, claim, hash, put, verify, record, own. `todo` is the list it works from, as listed. The
content of a file is its version; a graphics recording may still grow (`Tail`). `ret` is the retention
job's hold: a walk or a sweep over expired recordings (`ReadRow` and `WriteRow` are apart because
`MarkLocalPurged` reads, decides and writes), or the list of a cache pass, made before
`RecordingService.mu` is taken. `remote` is the bucket. Switching the settings retires a generation
and makes its rows foreign in one transaction. `running` says whether the process has an uploader: writing
settings starts one, stopping them leaves it, and a process that starts without settings has none.
The backfill is offered the newest `BackfillBatch` sessions without a row (`InView`), among them those it
passes over, as the sessions in `Gone`, whose file is lost. A mishap is a crash, a failed write, a copy that
rots, late growth, revoked credentials or an admin's retry. `EvidenceCustody` is what a
recording's owner may count on: it is on the host, or vouched for, until its time is over.

**ChangeSecret / CredentialVault.** A job is known by when it took the account's mutex and its secret by
the job. `jobs[j].pc` follows `runTarget`, `rotatePassword` and `rotateKey`: the pending candidate and
the right are looked at, the candidate is created, the right is looked at again, the handshake binds
the candidate to the host, the command is sent (`wire`), executed some time (`Execute`), answered or not,
verified, promoted or put back. Retries (`retry`) work from the copy of the candidate they were given
and take no mutex, as in the code. The scheduler's first comes round (`ComeRound`: RunDue has advanced the
members of rotations), then picks what is due or passes by. `CommitCandidate` is the transaction of `promote`, which fails when the
row is gone. `accepted` is what the target takes; `method` distinguishes chpasswd, which replaces
the secret, from the two ways to rewrite `authorized_keys`. `CredentialVault` is the promise: put away
before the target hears of it, settled only if the target takes it, given up only if it never will.

**DataKeys / KeyRing.** `table` has, per KEK and slot (purpose and version), the row that is not retired,
live or pending, with a key that is destroyed when it is 0; `retired` what is left of retired rows. Every
writer holds one try-lock of the database for its whole transaction (`withDataKeysLock`), so each is one
action: `Bootstrap`, `FinalizeSwitch` (the settlement at start), `RewrapKEK`, `AbandonRewrap`, `BumpActiveKey`,
`Purge`. What a process knows without the lock is `inst`: its KEK, the version it takes for current and
its cached keys, which other processes may have made stale. `Starts` is all that `load` asks of the
table. `Encrypt` and `Store` are apart, and `Reencrypt` is one value of the loop that follows a
rotation, outside the lock. In `KeyRing` there are no KEKs: a key is made once, stays within reach of every KEK
the server starts with while a value needs it, and the newest of a purpose always does.

## 3. Runs

| run | instance | what it shows |
|---|---|---|
| `seal_concurrency` | 2 attempts of one source, 1 sealer, 1 borrower, 1 restart, fair | safety of the machine: HolderOwnsNode, WriteAhead, OneOutcome; ZombiesAreHarmless, an action property; GatesLend, each graph's gate is a LeaseGate; ImplementsTable, the whole is a SealTable; SealEnds |
| `gate` | 3 users, 2 sealers, 1 releaser | SignalExact, NoWipeUnderBorrow; ImplementsLease |
| `routing` | 2 attempts of one source, threshold 1, no Seal, 1 restart, fair | OneLiveGraph, GateMatchesGraph; LimiterHonoured although limiter and node are read apart; RequestsAnswered, UnsealingEnds, CleanupEnds |
| `journal` | 3 slots, 2 numbers, 2 crashes, 1 fault, 1 rejection, fair | HeaderDurable, AckedSurvives, NumbersFresh, AttemptsReplayed, NothingUncounted, RejectedOnce, with crashes, faults and replays together; FaultClears, also across a crash |
| `audit_queue` | 2 workers, 2 rows of which one is bad, channel of 1, batches of 2, 1 fault, 1 lost answer, fair | InFlightExact, StoredOnce, BadRowsIsolated, CleanMeansStored; ImplementsFates; ShutdownEnds, RowsSettle |
| `offsite_copies` | 1 graphics recording, a newer session whose file is lost, a backfill view of 1, 2 generations of settings, 2 attempts, 1 mishap, fair | RecordedIsStored; ImplementsCustody; RowsSettle, BackfillCovers, ExpiredLeaves |
| `change_secret` | 2 jobs, the scheduler and 1 click, 1 mishap, passwords and appended keys, fair | NeverLockedOut; ImplementsVault; LateCommit |
| `data_keys` | 2 processes, a local and a delegated KEK, 1 value, 2 versions of each key | Bootable; ImplementsRing |

Four more runs (`journal_seal_outcome`, `audit_unstamped`, `change_secret_restore`, `data_keys_cleanup`) end in
a violation: section 4.

Bounds. Two attempts are what it takes for one to be late while another holds the machine;
in `seal_concurrency` and `routing` the second may also belong to the process after a restart. One sealer races with them for the node, and one borrower keeps its graph from being
released; a second sealer finds `sealBusy` set, and any number of them is covered by the proofs. Every attempt
and Seal request is made
once, so the node's generation and pointer are bounded by their number. A ring of three slots
wraps after one unseal (received, success, published); two numbers give an unseal and a Seal, or another
unseal, over a wrapped ring, and two crashes a crash during the recovery from a crash, with a fault before, between
or after them. Numbers, crashes, faults and rejections are bounded in the guards (`MaxSeq`,
`MaxCrashes`, `MaxFaults`, `MaxRejected`, `MaxBoots`) and nothing else is. Two rows fill one batch and
overflow a channel of one, and one of them is what the other must be isolated from; two workers
leave rows in a channel that one of them found empty. One fault and one lost answer make a batch
fail whose retries succeed, fail or store again. One recording is enough because uploader and
retention take recordings one at a time and no update of one row looks at another; what recordings do to
each other is to fill the backfill's view, for which a lost file and a view of one are enough; two
generations give a row of a retired one beside a live one, two attempts a failure that is
retried and one that is final. Two jobs, one after the other, let the second find what the first left: a
candidate, a command still on the wire, a new version, a failed restore. The key strategy `exclusive` is
left out of the runs (nothing is promised for it but the vault's bookkeeping) and covered by
the proofs. In `data_keys` two
processes are one that is stale and one that goes on; the local KEK is the first or the one an outside
service keeps, to which there may be a second rewrap; two versions give one rotation of each key, also one
that stopped half-way; processes are interchangeable, which the run uses as symmetry (its properties need
no fairness). Three KEKs and rotations under each of them are beyond TLC's
time. The proofs of section 5 cover every size and number. Deadlock is not checked: every request is made at most once, so every instance comes to
rest.

Fairness is weak and on processes only. Goroutines run, waits have deadlines, file calls
return. Stage 2 need never return, a borrower need never finish, no request need arrive, and an
operation of the replay need never start. In `AuditQueue` workers and Shutdown's timers are fair and
the database is not: `ShutdownEnds` holds although an insert may hang for ever. Only `RowsSettle` has
the hypothesis that the database answers (`Answers`), a refusal being an answer. `UnsealingEnds`
assumes that the verification callback returns: the machine sets it no deadline.
`RequestsAnswered` uses that a waiter for the ticket is not passed over for ever, which Go's
channels promise. In `OffsiteCopies` the uploader's loop, where there is one, and the retention job are fair, a committed
deletion goes on to the file, and a recording grows quiet; switches of the settings, fetches, deletions and
crashes are not. A process that starts without settings has no uploader (`cmd/server/stage2.go:1509-1514`),
so RowsSettle promises an end to a row or to the uploader, and ExpiredLeaves leaves out a recording whose row
is being sent by nobody (`Stranded`). BackfillCovers promises a row only to a recording with fewer than
`BackfillBatch` newer ones that the backfill passes over. In `ChangeSecret` a command on the target has no
deadline, so nothing is assumed of a job, and nothing of the scheduler's rounds either, each of which waits for
the one before and for the members of rotations it advances first. Fair is only what follows once a round has
come to the candidates: it picks one that is due, or ends. LateCommit has the hypothesis that rounds
go on (`RoundsGoOn`); it then holds although the account's own job may hang with the mutex in hand.
LateCommit says nothing of keys, which the job itself may take back.

## 4. Where the code and its documents disagree

Each of these has a run in which TLC finds the behaviour; `PROJECT.json` quotes the lines.

1. `journal_seal_outcome`, RecordsReplayed: a replay that reads between the two records of a Seal
   moves the checkpoint past the second one. It waits in the ring and never reaches the audit
   log.
2. `audit_unstamped`, Stamped: releasing a graph closes its gate before it shuts the audit queue
   down, so rows still in the channel or in a batch are inserted without their HMAC, which the
   verification then takes for tampering.
3. `change_secret_restore`, FailedLocksNobodyOut: a retry verifies and promotes a new key while the job that
   added it, whose own verification failed, writes the file back. The job ends as failed, and
   the account's key is one the target no longer takes. NeverLockedOut still holds: the old key is an
   earlier version in the vault.

4. `data_keys_cleanup`, KeysAtHand: a cleanup forgets from its process's cache every purged row of the process's
   own KEK, also the copies retired when a rewrap to that KEK was abandoned, although the KEK is in
   use now and its live rows were not purged. Data keys are unwrapped again when needed; the audit key is
   not, so rows are stored without an HMAC until the next start, and a rewrap is refused.

The models show more, which no run states:

- After a crash between a replay's transaction and its checkpoint the rerun covers one more attempt,
  so its aggregate row has another identity and the counters are added twice.
- A record whose header failed is replayed like the others and takes the checkpoint past a number that
  is then given to a real attempt. AttemptsReplayed and NothingUncounted are therefore about histories
  in which no write has failed yet.
- The error of `WritePublished` is ignored (`internal/seal/handlers.go:109`) and the unseal is answered
  with success; `sealjournal/doc.go:22-24` asks the caller to retract.
- The ticket goes back before the router is swapped (`internal/api/seal_handler.go:411`), so two
  handlers may swap in the wrong order and the older router stays, although
  `cmd/server/stage2.go:192-194` says that by construction no successful unseal leaves the
  service unroutable.
- An insert that was stored and reported as failed is retried row by row and stored again
  (`audit_log_service.go:400-403`), although the comment there rules duplicates out; no key of the
  table refuses the second copy. StoredOnce is therefore about databases whose answers are not
  lost.
- The error of Shutdown leaves out what a worker degraded before the numbers were read, and a row
  received and not yet counted (`audit_log_service.go:783-790`), although
  `openspec/specs/audit-coverage/spec.md:281` asks for every row not confirmed. The rows get their
  fate; only the numbers are wrong.
- GateMatchesGraph holds until the first runtime Seal (`routing`). With one, after a second unseal
  and until the router is swapped, requests pass the gate into the first, released graph: the
  gate asks for the state only. The comments at `cmd/server/sealwire.go:398-403` date from a
  machine without an edge out of unsealed.
- A panic of stage 2 (`internal/seal/machine.go:428`) loses the half-built graph, the token is
  cleared, and the next attempt builds beside it. The model calls such a graph `orphaned`;
  OneLiveGraph is about the others.
- A retraction whose release fails (`internal/seal/handlers.go:125`) leaves sealed-faulted without a
  fault code.
- `MarkUploaded` and `MarkFailed` ask for the id only (`internal/offsite/ledger.go:291`): a row the uploader
  had in hand when its generation was retired goes from foreign back to pending, failed or
  uploaded, although `recording_offsite_adapter.go:222-223` says that whatever is not final belongs to
  the current generation.
- Such a row may be pending when the process goes down, and if by then the settings are stopped the
  next process starts no uploader (`cmd/server/stage2.go:1509-1514`): the row stays pending until somebody
  makes settings again, although `stage2.go:1493-1494` says that the uploader of a stopped generation has
  nothing to take, and `profile_service.go:602-603` that stopping makes the waiting rows foreign so
  that they do not stay pending. RowsSettle is therefore about times with an uploader.
- In the same way a row that was being sent stays `uploading`, with nobody to reap its lease. If the same crash
  left a retention walk half done, the file gone and the columns not cleared, the sweep passes by that
  row each time and the expired recording stays on offer. ExpiredLeaves leaves
  it out (`Stranded`).
- The backfill asks for the newest 200 sessions without a row (`recording_offsite_adapter.go:163-181`) and makes
  none for those whose file is missing. Two hundred of these hide every older session
  from it for good, although the comment there wants each to be looked at again in the next scan.
  BackfillCovers says how many newer ones it bears.
- A round of the retries first advances the members of rotations (`change_secret_retry_runner.go:97-98`), which
  waits for their accounts' mutexes and for commands without a deadline (`credential_rotation_run.go:338-346`,
  `:803`), and while it lasts no other round starts (`scheduler/change_secret_retry.go:27`): one target that hangs
  stops the retries of all accounts until the process is restarted. Hence the hypothesis of LateCommit.
- A row found `uploading` by the retention walk is left for the next round, which does not come:
  the walk has cleared the session's columns (`recording_service.go:507-532`). The upload goes on, and the
  copy stays in the bucket.
- A purged row becomes pending again when the uploader, which had listed it before, cannot
  open its file.
- A lost answer to the write of `authorized_keys` is taken for a refusal (`change_secret_runner.go:1400-1403`),
  although `rotation_executor.go:21-29` reserves that error for a target that was certainly not
  changed. When keys are appended the old one still works; with `exclusive` the candidate that is
  thrown away is the only key left.
- Nobody stops the job whose candidate an administrator clears: its secret may reach the target and
  is then nowhere else. NeverLockedOut is about histories without such a clearing.
- A remote command has no deadline, so one that hangs keeps the account's mutex, and later jobs
  wait for ever; only retries, which take none, go on.
- A job whose candidate a retry has promoted meanwhile records `unverified` although the change succeeded.
- A value that was encrypted before a rotation and is stored after a cleanup has lost its key. The comment at
  `key_manager_cleanup.go:150-158` knows the limit and says that a single instance cannot reach it; one
  process and a request that is slower than the rotation, its loop and the cleanup are enough. `KeyRing`
  lets a value be stored under a key that is gone.
- The same comment says that a stale process's cleanup is refused with `ErrStaleKeyCache`; the cleanup asks
  for no freshness. It is refused only when the KEK was changed meanwhile (the backlog).
- `openspec/specs/key-management/spec.md:364` says that until the cleanup the retired rows can always be restored by
  hand; after a rotation they lack the new version, and `load` refuses them.
- After a crash between slot and header on a full ring, the record that was really overwritten is
  in no overwritten range (`internal/sealjournal/journal.go:249` reads the number from the slot).

Not modelled, seen while reading: no label for "verified but not confirmed as published" is
computed by the replay, although `seal/journal.go:54` and the specification announce one.

## 5. Proofs

| module | theorem | property |
|---|---|---|
| `SealMachine_proofs` | TypeCorrect | its types |
| | UnsealingExclusive | HolderOwnsNode |
| | MachineImplementsTable | ImplementsTable |
| `SealPromises_proofs` | WrittenAhead | WriteAhead |
| | OneOutcomeEach | OneOutcome |
| | LimiterIsHonoured | LimiterHonoured |
| | ZombiesDoNoHarm | ZombiesAreHarmless |
| | OneGraphAtATime | OneLiveGraph |
| | GatesLendAsPromised | GatesLend |
| | RoutingRunsTheMachine | the server's behaviours are the machine's |
| | ServerKeepsPromises | HolderOwnsNode, WriteAhead, OneOutcome, OneLiveGraph in the server |
| | GateIsTheGraphs | GateMatchesGraph, until the first Seal is recorded |
| `MaterialGate_proofs` | SignalIsExact, NoWipe | SignalExact, NoWipeUnderBorrow |
| | GateImplementsLease | ImplementsLease |
| `SealJournal_proofs` | HeaderStays | HeaderDurable |
| | NeverRefused | NeverLocksOut (no run: it follows from what HeaderDurable says) |
| | RecordsSurvive | AckedSurvives |
| | RejectionsCountOnce | RejectedOnce |
| | NumbersAreFresh | NumbersFresh |
| | CountsReachTheLog | NothingUncounted |
| | CheckpointsFollow | AttemptsReplayed |
| `AuditQueue_proofs` | QueueTypes | its types |
| | CounterExact | InFlightExact |
| | NothingTwice | StoredOnce |
| | OnlyBadRowsDegraded | BadRowsIsolated |
| | CleanShutdown | CleanMeansStored |
| | QueueImplementsFates | ImplementsFates |
| `OffsiteCopies_proofs` | RecordedCopiesAreStored | RecordedIsStored |
| | CopiesImplementCustody | ImplementsCustody |
| `ChangeSecret_proofs` | NobodyLockedOut | NeverLockedOut |
| | ChangeImplementsVault | ImplementsVault |
| `DataKeys_proofs` | ServerStarts | Bootable |
| | TableImplementsRing | ImplementsRing |

*The machine.* `HolderOwnsNode` is not inductive: it does not say why an attempt's compare-and-swap
cannot succeed on a node other than the one it computed from. `Inv` adds `Observers` (an identity
that is still current belongs to the very node observed; identities only grow), `Askers` (whoever
is about to acquire saw nothing in its way), `Zombies` (a zombie's identity is not current) and
`SealObservers`. With these a successful compare-and-swap acts on the node it was computed for, which
also makes each step a cell that matches now: that is the refinement of `SealTable`.
Assumptions: attempts and sealers are disjoint, every attempt has a source, `None` is not an attempt.

*The machine's promises.* `JournalInv` ties what is recorded to where an attempt and its stage 2 are, so
that an outcome is written from a place that has none yet. `Admitted` is the limiter's: as long as
the node an attempt has read is current, what it was told still holds, since whatever starts a backoff
or a cooldown installs another node. One live graph is a matter of tokens, and no invariant of a single
attempt: `GraphInv` says of a live graph who answers for it (`Owned`): the attempt that holds the
unsealing, the machine that serves it, a Seal request whose cleanup token nobody else can clear
(`UnderSeal`), or the token of its own generation. Then a machine that may acquire has no token and does
not serve, hence no live graph. It needs that generations are given out once (`Generations`), that one Seal
request is under way at a time (`Sealing`), and where each graph and gate is (`Graphs`, `Tokens`). Steps that
give no generation and take nothing over (`Steady`, `Aged`) are dealt with by two lemmas. The gates'
refinement of `LeaseGate` uses `Graphs`. The routing adds variables and only restricts the machine
(`RoutingRunsTheMachine`), so all this holds in the server; `Routed` says that an attempt whose router is in
force, or about to be, is the one on offer: until a Seal no transition leaves unsealed. It is stated for
histories in which no `seal_received` is recorded (`NeverSealed`), which is more than the run checks and about
as much as holds: after a Seal GateMatchesGraph may fail (section 4).

*The gate.* `GateInv` says the counter is the number of borrowers, and what the channel is from counter
and flag; it needs the users to be finitely many. Drained and closed then mean that nobody
borrows and nobody will, which is both NoWipe and the refinement of `LeaseGate`.

*The journal.* Whether a record survives depends on what a crash may tear. `JInv` says of a running
process that its header is on the medium in the slot of its parity (`HeaderDurable`, `Parity`); that
whatever lies in the other slot and claims a later generation commits at least the same slots
(`NoneBehind`, needed because a header whose write was reported as failed may still be found); what the
operation in hand has already written (`OpInv`); and that every acknowledged record within one round
of the ring is in its slot on both sides (`Survives`). The write of a slot keeps this since two indexes
less than a round apart lie in different slots (`RingSlots`); a crash keeps it since the header in
force is not torn and the header that wins instead, if any, commits no less. The bounds
play no part: any ring of at least two slots, any number of records, faults and crashes.

Numbers and counters lie in headers, and headers lie in six places (`Headers`). `HeadersKnown` says
once where a header can come from: it was there, it is the first, or this step makes it. `RejectedInv` and
`BatchInHand` then follow a batch from the aggregator through the header that carries it: pending is
reduced by what the header in force has gained, so their sum moves only with a rejection.
`NumbersInv` needs, as the records do, what a later header left by a failed write may say
(`NoneReused`: it gives no number again) and what the operation in hand is about to give (`OpNumbers`).

The replay's two properties hold until the first failing write (section 4 says why no longer), but with
crashes at every point, transactions that fail and callers that give up. A checkpoint is a
number, and a scan reads whatever is in the ring, so the question is why a scan's last number is
neither too small nor one to be given again. `Tip` says that the last committed record is in the ring under
the last number given; `RingBelow`, that nothing in the ring is beyond it once anybody is admitted, since
what a crash left in the next slot has been overwritten by then; hence a scan ends exactly there
(`ScanEnds`), without induction over the ring. `Covered` is what a header's checkpoint may claim, and is
kept because no slot comes back into the window and no new attempt gets an old number (`MovesOn`). `Unreached` says that
a replay to come ends behind every interval in the log, so that its aggregate row, whose key is the interval,
is new and its counters are added. The caller's part in this is `CallerOp` and `CallerNumbers`: what
it does between a publication and the next attempt. `faults = 0 => FaultlessInv` is inductive with the
others. It was found with TLC, which refuted earlier forms of it on rings of two and three slots.

*The audit queue.* `QueueInv` adds to the properties where rows can be (`Places`: channel and batches do
not overlap, and what was degraded is in neither), what a worker knows of its batch (`Batches`: rows
of a failed batch that are neither left nor failed are stored), that no row vanishes (`NoneGone`),
that nothing still to be inserted is in the table (`NotYetStored`, without which a retry could store
twice), that what fails is bad (`FailedBad`), and how the service ends (`Ending`: once one worker has
found the channel empty, nothing that was due is in it any more; the others have the rest in
their batches). The counter stays exact since batches are disjoint and what leaves a batch leaves
the union. The refinement needs all of it: that a row is stored, degraded or still in hand is what
makes its fate unique. Assumptions: rows and workers are finite, there is a worker, bad rows are
rows. Capacity and batch size play no part.

*The offsite copies.* The ledger's updates guard nothing of `RecordedIsStored`. `Inv` says what the
uploader knows at each step of its one job (`Jobs`: once it has verified, the bucket has what was
hashed and the file is no other), that a vouched recording no longer changes while its session
has it (`Vouching`), that whatever is in anybody's hands has landed (`Hands`), and that what a cache pass
has listed stays vouched although its row may move on (`Cleaning`). Steps that leave hashes alone
(`Tame`) are dealt with together; recording an upload, putting and evicting are the steps that
need the whole. Which sessions the backfill is offered and whether there is an uploader play no part.
Assumptions: generations, attempts and sessions are numbers, at least one attempt, and a session whose file
is lost is not one of the recordings.

*The change of a secret.* A secret is unsent, on the wire, or landed. `Landing` says that one which has not
landed is nowhere to be seen, so that a job's secret is fresh when it lands; `Mutex` that the
jobs under way are the one that holds the mutex; `Keeping` that what it made is a candidate, a
version or cleared; `Files` what it read. `Exact` is the heart for passwords: the target takes one
secret, the vault's or the candidate's, because a second job finds the candidate and does not start. `Added`
is weaker, since a file may be written back over what a retry has promoted. `Retrying` says that a retry
about to commit has logged in with the secret and that this is still so. Steps that move only program
counters are done by two lemmas; sending, executing, restoring, promoting and crashing one by
one. In the refinement of `CredentialVault` the wire is what travels; the write-back of a file
is `Rewrite`, which only inexact channels have. Assumptions: jobs are numbered, the scheduler is no
clicker, `None` and `Free` are no values.

*The data keys.* `Bootable` speaks of a table that several processes with stale caches have written, and
says nothing of which rows belong together. `KInv` does: unless the table is empty one KEK is at home
(`Home`), that is, its rows are live, one for every slot ever seen, and no other KEK has a live row;
what is pending is pending under one KEK and is a copy of those rows but for its form; the versions
of a purpose are 1..v and v is the active one. `Blank` and `Once` say that a slot that was never
seen has no row and that a key is made once; `Running`, `CacheMade`, `StoredMade` and `FlightMade` that
what a process holds, or has stored, is a key that was made. The guards of the code then do their
work: whoever has no backlog, or whose version is fresh, runs under the home (`NoBacklog`, `BumpTable`), so
rewraps copy the home's rows, rotations and cleanups change only those; a settlement under another KEK
is let through only if that one is pending, and home moves there (`SettleThere`); an abandonment never
meets the home. What can be started is home and what is pending (`HomeStarts`, `StartsHome`), with the
same keys, so the entries within reach are the ones whose key is at home: a campaign is a stutter
of `KeyRing`, and a cleanup spares the active version. Processes, KEKs, versions and values are
arbitrary sets; assumptions: a delegated KEK is a KEK, at least one version, `None` is no KEK and no
stored value.

Every safety property, action property and refinement that a passing run checks is a theorem of this
table. What stays with TLC: liveness under fairness (SealEnds, RequestsAnswered, UnsealingEnds,
CleanupEnds, FaultClears, ShutdownEnds, RowsSettle, BackfillCovers, ExpiredLeaves, LateCommit), which the
provers cannot reason about, and the findings, which are counterexamples. The theorem on GateMatchesGraph has
a condition on the history, which the run meets by having no Seal requests.

## 6. What is abstracted, and what is left out

Durations are lengths nobody measures: a timer may fire at any time. Error texts, digests,
timestamps, checksums and the byte layout are left out; a torn slot is one that does not
decode. The rejected ring's contents, the migration checks of `Open`, `Close` and the status
reports are not modelled, nor is a datasync that reports an error but has dropped the page, so
that a later one succeeds without writing it. A panic anywhere but in stage 2 is not
modelled. The two halves of the owner's tick may be separated by an operation in the model. In
`SealJournal` the caller is one process with one attempt at a time, which is what the admission
ticket and `sealBusy` give it; zombies write no records after their timeout.
In `AuditQueue` the order of rows in the channel and in a batch is left out (several workers take from
it and no order is promised), and so are the synchronous mode, a fallback file that cannot be
written, the numbers in Shutdown's error and the failure events. Rows logged after Shutdown has
returned stay in the channel for good; the specification declares them out of scope.
In `OffsiteCopies` leases and backoffs have no length, a lost file does not come back, a process that went
down is started and unsealed again, the share of a cycle that each origin gets is left out (with finitely many
recordings and attempts it delays a row and no more), and exports (the same path with another owner),
the fetcher's spool, the status cached for display, alerts and seeding from the environment are left
out. In `ChangeSecret` there is one account. Left out are the change made by another account's login
(`rotateDelegated`), the promotion into a credential shared by a batch, candidates of rotation
members and those from before an upgrade, an administrator's takeover (`PromoteConfirmed`), backoff times,
manual updates of the account's secret, and an account that had no key of ours. A change of the
host's identity is one of the failed steps. In `DataKeys` the cache has no time to live (the default), a
re-encryption may stop at any value instead of at a page or a limit, rows are not damaged from outside,
and the branch that rewraps with a cloud service from the rows themselves, the monitor of unsettled switches and
the migration of older formats are left out.
Hazards with no property of their own, known from reading: a panic of stage 2 (`seal/machine.go:428`), a
failed record after publication (`seal/handlers.go:109`), a late replay (`cmd/server/sealwire.go:494`),
what the rejected ring forgets (`sealjournal/journal.go:320`), and a fallback file that fails
(`audit_log_service.go:346`). Further components are listed with their reasons in `PROJECT.json`.

## 7. Plan

In order of what would hurt most if it were wrong.

1. *Resource bag* (`ResourceBag`): Add against Release, composed with stage 2's cancellation.
2. *Audit chain* (`AuditChain`, abstract `Ledger`): checkpoints, anchors, verification, retention,
   restart; with `AuditQueue` as one of its writers.
3. *Keystroke records* (`KeystrokeSegment`): writer, sealer, end of session, crash, disk full.
4. *Rotation of a shared credential* (`GroupRotation`): members on `ChangeSecret`'s terms, advanced by the
   same scheduler, cancelled, taken over.
5. *Exports* as a second owner of `OffsiteLedger`'s rows.
6. *Access requests* (`AccessRequest`), *schedulers* (`Jobs`), *connection gates* (`ConnectGate`).
7. Proofs: of the journal, what is left of the replay's properties after a failed write (an attempt whose
   number was not given twice is replayed); the journal as an implementation of an abstract log; for
   each new module, type correctness, its main invariant and the refinement of its abstract
   specification.

The replay that starts late, after the lease of its graph is gone (`cmd/server/sealwire.go:494`), goes
into `SealJournal` with the resource bag.
