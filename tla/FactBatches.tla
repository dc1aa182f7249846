----------------------------- MODULE FactBatches ------------------------------
(***************************************************************************)
(* Orchestrations of a fact extraction plan and their batch rows           *)
(* (app/services/fact_extraction_orchestration.py).  All orchestrations    *)
(* here have the same request hash; the position is attempt_no.  Every     *)
(* operation is one transaction that locks the orchestration, then the     *)
(* batch, then its run.                                                    *)
(***************************************************************************)
EXTENDS InferenceLedger

CONSTANTS
    Tokens,             \* worker_token values of the callers
    NoToken,
    MaxAttempts,        \* max_batch_attempts
    MaxOrchestrations   \* bound on the attempts to process the plan

ASSUME TokensAssumption == NoToken \notin Tokens
ASSUME AttemptsAssumption == MaxAttempts \in Nat \ {0} /\ MaxOrchestrations \in Nat

VARIABLE orchs   \* the orchestrations, oldest first

rowVars == <<runs, orchs>>

BatchCodes == RunCodes \cup {"context_invalid", "lease_lost"}

\* run: current_inference_run_id (0: none); live: the lease has not run out.
Row == [status : {"pending", "running", "completed", "failed"},
        attempts : 0..MaxAttempts, run : Nat, owner : Tokens \cup {NoToken},
        live : BOOLEAN, code : BatchCodes \cup {"none"}]
NewRow == [status |-> "pending", attempts |-> 0, run |-> 0, owner |-> NoToken,
           live |-> FALSE, code |-> "none"]

TerminalStatus == {"completed", "partial", "failed"}
Orchestration == [status : {"planned", "running"} \cup TerminalStatus,
                  batch : [Batches -> Row]]
NewOrchestration == [status |-> "planned", batch |-> [b \in Batches |-> NewRow]]

\* The check constraints of fact_extraction_orch_batches.
RowShape(row) ==
    /\ row.status = "pending" => row.run = 0
    /\ row.status = "running" <=> row.owner # NoToken
    /\ row.live => row.status = "running"
    /\ row.status = "completed" => row.run # 0
    /\ row.status = "failed" <=> row.code # "none"

BatchesTypeOK ==
    /\ LedgerTypeOK
    /\ orchs \in Seq(Orchestration) /\ Len(orchs) <= MaxOrchestrations
    /\ \A o \in 1..Len(orchs), b \in Batches :
         /\ RowShape(orchs[o].batch[b])
         /\ orchs[o].batch[b].run <= Len(runs[b])

BatchesInit == LedgerInit /\ orchs = << >>

Orchs == 1..Len(orchs)
SetRow(o, b, row) == orchs' = [orchs EXCEPT ![o].batch[b] = row]

------------------------------------------------------------------------------
(* prepare_fact_extraction_orchestration *)

NewestStatus == IF orchs = << >> THEN "none" ELSE orchs[Len(orchs)].status
Open == NewestStatus \in {"planned", "running"}

\* (Mutant of MayRetry: a completed orchestration does not end the matter.)
MayRetryCompleted == NewestStatus \notin {"planned", "running"} /\ Len(orchs) < MaxOrchestrations

\* A plan that was partly processed, or failed, gets another orchestration.
MayRetry ==
    /\ NewestStatus \in {"none", "partial", "failed"}
    /\ Len(orchs) < MaxOrchestrations

------------------------------------------------------------------------------
(* claim_fact_extraction_orchestration_batch *)

Leased(row, token) == [row EXCEPT !.status = "running", !.owner = token,
                                  !.live = TRUE, !.code = "none"]

\* (Mutant of ClaimPending: the attempt is not counted.)
ClaimPendingUncounted(o, b, token) ==
    LET row == orchs[o].batch[b] IN
    /\ row.status = "pending" /\ row.attempts < MaxAttempts
    /\ orchs' = [orchs EXCEPT ![o].status = "running",
                              ![o].batch[b] = Leased(row, token)]

\* A pending batch that has used all its attempts would be refused with an error;
\* there is none, as it fails instead of becoming pending.
ClaimPending(o, b, token) ==
    LET row == orchs[o].batch[b] IN
    /\ row.status = "pending" /\ row.attempts < MaxAttempts
    /\ orchs' = [orchs EXCEPT
         ![o].status = "running",
         ![o].batch[b] = Leased([row EXCEPT !.attempts = @ + 1], token)]

\* The caller's lease is renewed, another's lease that ran out is taken over,
\* unless its call may still be answered.
ClaimRunning(o, b, token) ==
    LET row == orchs[o].batch[b] IN
    /\ row.status = "running"
    /\ \/ row.owner = token
       \/ /\ ~row.live
          /\ row.run # 0 => ~runs[b][row.run].fresh
    /\ SetRow(o, b, Leased(row, token))

\* The batch is done, or somebody else is at it.
MustSkip(o, b, token) ==
    LET row == orchs[o].batch[b] IN
    \/ row.status \in {"completed", "failed"}
    \/ /\ row.status = "running" /\ row.owner # token
       /\ row.live \/ (row.run # 0 /\ runs[b][row.run].fresh)

------------------------------------------------------------------------------
(* Rows that change hands. *)

PendingAgain(row) ==
    [row EXCEPT !.status = "pending", !.run = 0, !.owner = NoToken,
                !.live = FALSE, !.code = "none"]
Failed(row, code) ==
    [row EXCEPT !.status = "failed", !.code = code, !.owner = NoToken,
                !.live = FALSE]
Completed(row) ==
    [row EXCEPT !.status = "completed", !.code = "none", !.owner = NoToken,
                !.live = FALSE]
Expired(row) == [row EXCEPT !.live = FALSE]

\* _is_retryable_failure_code while attempts are left
Retryable(row, code) == code \in RetryableCodes /\ row.attempts < MaxAttempts
Retried(row, code) ==
    IF Retryable(row, code) THEN PendingAgain(row) ELSE Failed(row, code)

\* transition_batch_after_failed_inference_attempt of a batch not yet completed:
\* the batch is the caller's, its run is the one that failed, and for this reason.
MayTransition(o, b, token, r, code) ==
    /\ orchs[o].batch[b].owner = token
    /\ orchs[o].batch[b].run = r
    /\ Status(b, r) = "failed" /\ runs[b][r].code = code

\* _record_prepared_run_notice
MayRegister(o, b, token, r) ==
    LET row == orchs[o].batch[b] IN
    /\ orchs[o].status = "running" /\ row.status = "running"
    /\ row.owner = token
    /\ Status(b, r) # "failed"
    /\ row.run \in {0, r}

\* renew_fact_extraction_orchestration_batch_lease: whether the lease has run out
\* does not matter as long as nobody took the batch.
MayRenew(o, b, token) ==
    /\ orchs[o].status = "running"
    /\ orchs[o].batch[b].status = "running" /\ orchs[o].batch[b].owner = token

\* uq_feob_application_id: no other batch row may refer to the application of
\* the run, whatever its orchestration.
ApplicationFree(o, b, r) ==
    \A p \in Orchs \ {o} :
      ~(orchs[p].batch[b].status = "completed" /\ orchs[p].batch[b].run = r)

\* _apply_completed_application_to_batch
MayFinish(o, b, token, r) ==
    /\ orchs[o].batch[b].run = r
    /\ orchs[o].batch[b].owner = token
    /\ ApplicationFree(o, b, r)

------------------------------------------------------------------------------
(* _finalize_orchestration *)

StatusOf(o) == {orchs[o].batch[b].status : b \in Batches}

Outcome(o) ==
    IF StatusOf(o) \cap {"pending", "running"} # {} THEN "running"
    ELSE IF StatusOf(o) = {"completed"} THEN "completed"
    ELSE IF StatusOf(o) = {"failed"} THEN "failed" ELSE "partial"

\* A terminal orchestration is only read again.
FinalizeOrchestration(o) ==
    orchs' = IF orchs[o].status \in TerminalStatus THEN orchs
             ELSE [orchs EXCEPT ![o].status = Outcome(o)]
==============================================================================
