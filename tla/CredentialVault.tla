-------------------------- MODULE CredentialVault --------------------------
(***************************************************************************)
(* What the change of an account's secret promises about the one copy of   *)
(* the new secret (change_secret_candidate_service.go, rotation_executor): *)
(* it is put away before the machine hears of it, it becomes the account's *)
(* secret only when the machine takes it, and it is given up only when it  *)
(* is certain that the machine does not take it and will not come to.      *)
(*                                                                         *)
(* Only a channel whose answers say what has happened can promise so much: *)
(* chpasswd and its kin do, the rewriting of a file does not (see exact).  *)
(***************************************************************************)
CONSTANTS Secrets, None

VARIABLES
  exact,       \* does the channel replace the secret and answer for it?
  current,     \* the secret the vault gives for the account
  candidate,   \* the secret put away and not yet given, or None
  accepted,    \* the secrets the machine takes
  travelling,  \* the secrets the machine may still be told to take
  surrendered  \* the secrets an administrator has thrown away

vars == <<exact, current, candidate, accepted, travelling, surrendered>>

Init ==
  /\ exact \in BOOLEAN
  /\ current \in Secrets
  /\ candidate = None
  /\ accepted = {current}
  /\ travelling = {}
  /\ surrendered = {}

PutAway(s) ==
  /\ candidate = None
  /\ s \notin accepted \cup travelling \cup surrendered
  /\ candidate' = s
  /\ UNCHANGED <<exact, current, accepted, travelling, surrendered>>

\* Nobody stops the job whose candidate is thrown away before it sends.
Send(s) ==
  /\ s = candidate \/ s \in surrendered
  /\ travelling' = travelling \cup {s}
  /\ UNCHANGED <<exact, current, candidate, accepted, surrendered>>

\* The machine does what it was told, whether or not anybody hears of it.
Take(s) ==
  /\ s \in travelling
  /\ accepted' = {s}
  /\ travelling' = travelling \ {s}
  /\ UNCHANGED <<exact, current, candidate, surrendered>>

Refuse(s) ==
  /\ s \in travelling
  /\ travelling' = travelling \ {s}
  /\ UNCHANGED <<exact, current, candidate, accepted, surrendered>>

\* Unless a command whose secret was thrown away has come in between.
Settle ==
  /\ candidate # None
  /\ exact /\ surrendered = {} => candidate \in accepted
  /\ current' = candidate
  /\ candidate' = None
  /\ UNCHANGED <<exact, accepted, travelling, surrendered>>

GiveUp ==
  /\ candidate # None
  /\ exact => candidate \notin accepted \cup travelling
  /\ candidate' = None
  /\ UNCHANGED <<exact, current, accepted, travelling, surrendered>>

Surrender ==
  /\ candidate # None
  /\ surrendered' = surrendered \cup {candidate}
  /\ candidate' = None
  /\ UNCHANGED <<exact, current, accepted, travelling>>

\* A file of keys is rewritten whole, from what was read before.
Rewrite ==
  /\ ~exact
  /\ accepted' \in SUBSET Secrets
  /\ travelling' \in SUBSET travelling
  /\ UNCHANGED <<exact, current, candidate, surrendered>>

Next ==
  \/ \E s \in Secrets : PutAway(s) \/ Send(s) \/ Take(s) \/ Refuse(s)
  \/ Settle \/ GiveUp \/ Surrender \/ Rewrite

Spec == Init /\ [][Next]_vars
=============================================================================
