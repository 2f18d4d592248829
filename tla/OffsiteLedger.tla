--------------------------- MODULE OffsiteLedger ---------------------------
(***************************************************************************)
(* The ledger of offsite copies (internal/offsite/ledger.go): one row for  *)
(* a recording and a generation of the storage settings, and the updates   *)
(* of it that the uploader, the retention job, the fetcher and the         *)
(* settings make.  Each is one SQL statement; what its WHERE asks is its   *)
(* guard, and most ask nothing but the id.                                 *)
(*                                                                         *)
(* Time is left out: a lease may have expired whenever it is looked at,    *)
(* and a backoff only makes a row wait for a later cycle.                  *)
(***************************************************************************)
EXTENDS Integers, FiniteSets

CONSTANTS Recordings,
          MaxGenerations,     \* bound on the settings ever activated
          MaxAttempts         \* MaxUploadAttempts, 5 in the code

Generations == 1..MaxGenerations

ASSUME LedgerAssumption ==
  MaxGenerations \in Nat /\ MaxAttempts \in Nat \ {0}

VARIABLES rows,     \* offsite_objects: [recording, generation] -> row
          current   \* the generation that is not retired, 0 if there is none

States == {"none", "pending", "uploading", "uploaded", "failed",
           "mismatch", "foreign", "purged"}

(* att: attempts.  sha: the version of the content that the hash stands    *)
(* for, 0 as long as none is recorded.                                     *)
RowType == [st : States, att : Nat, sha : Nat]
NoRow == [st |-> "none", att |-> 0, sha |-> 0]

At(r, g) == rows[<<r, g>>]
Set(r, g, row) == rows' = [rows EXCEPT ![<<r, g>>] = row]

-----------------------------------------------------------------------------
(* INSERT ... ON CONFLICT DO NOTHING, in the transaction of the caller.    *)
EnqueueTx(r, g) ==
  IF At(r, g).st = "none" THEN Set(r, g, [NoRow EXCEPT !.st = "pending"])
                          ELSE UNCHANGED rows

Claim(r, g) ==
  /\ At(r, g).st = "pending"
  /\ Set(r, g, [At(r, g) EXCEPT !.st = "uploading", !.att = @ + 1])

Reap(r, g) ==
  /\ At(r, g).st = "uploading"
  /\ Set(r, g, [At(r, g) EXCEPT !.st = "pending"])

MarkUploaded(r, g, v) == Set(r, g, [At(r, g) EXCEPT !.st = "uploaded", !.sha = v])

MarkFailedUncounted(r, g, n) == \* a bug: the attempts are left to Claim
  Set(r, g, [At(r, g) EXCEPT !.st = IF n >= MaxAttempts THEN "failed" ELSE "pending"])

MarkFailed(r, g, n) ==
  Set(r, g, [At(r, g) EXCEPT !.st = IF n >= MaxAttempts THEN "failed" ELSE "pending",
                             !.att = n])

MarkIntegrityMismatch(r, g) == Set(r, g, [At(r, g) EXCEPT !.st = "mismatch"])

(* The end of retention, first half: what the row that was read asks for.  *)
Purgeable == {"pending", "failed", "uploaded", "mismatch"}
MarkPurged(r, g) == Set(r, g, [At(r, g) EXCEPT !.st = "purged"])

(* All rows of a generation, in the transaction that retires it.           *)
MarkForeign(g) ==
  rows' = [k \in DOMAIN rows |->
             IF k[2] = g /\ rows[k].st \notin {"none", "purged", "foreign"}
             THEN [rows[k] EXCEPT !.st = "foreign"] ELSE rows[k]]

RetryFailed(r, g) ==
  /\ At(r, g).st = "failed"
  /\ Set(r, g, [At(r, g) EXCEPT !.st = "pending", !.att = 0])

-----------------------------------------------------------------------------
LedgerInit ==
  /\ rows = [k \in Recordings \X Generations |-> NoRow]
  /\ current = 0

LedgerTypeOK ==
  /\ rows \in [Recordings \X Generations -> RowType]
  /\ current \in 0..MaxGenerations
=============================================================================
