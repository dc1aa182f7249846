--------------------------- MODULE InferenceLedger ----------------------------
(***************************************************************************)
(* The inference runs of the batches of one fact extraction plan           *)
(* (app/services/inference.py).  All runs of a batch belong to the same    *)
(* request: the input batch and the request hash follow from the plan.     *)
(* Each operation is one transaction that locks the run, or the input      *)
(* batch when a run may be created.                                        *)
(***************************************************************************)
EXTENDS Naturals, Sequences, FiniteSets

CONSTANT BatchCount   \* batches of the plan

ASSUME BatchCountAssumption == BatchCount \in Nat \ {0}

Batches == 1..BatchCount

VARIABLE runs   \* the runs of each batch, oldest first

\* Failure codes, as far as retrying tells them apart: of the provider or the
\* network ("transport"), of a cancelled or an abandoned call, and all that is
\* not worth another try ("invalid").
RetryableCodes == {"transport", "cancelled", "stale"}
RunCodes == RetryableCodes \cup {"invalid"}

\* fresh: started less than stale_inference_seconds ago; applied: there is a
\* completed fact_extraction_batch_application of the run.
Run == [status : {"pending", "running", "completed", "failed"},
        code : RunCodes \cup {"none"}, fresh : BOOLEAN, applied : BOOLEAN]
PendingRun == [status |-> "pending", code |-> "none", fresh |-> FALSE,
               applied |-> FALSE]

LedgerInit == runs = [b \in Batches |-> << >>]

\* What holds of a stored run: check constraints and the order of its life.
RunShape(run) ==
    /\ run.code # "none" <=> run.status = "failed"
    /\ run.fresh => run.status = "running"
    /\ run.applied => run.status = "completed"

LedgerTypeOK ==
    /\ runs \in [Batches -> Seq(Run)]
    /\ \A b \in Batches : \A r \in 1..Len(runs[b]) : RunShape(runs[b][r])

Status(b, r) == runs[b][r].status
Latest(b) == Len(runs[b])

\* (Mutant of Reusable: a run that failed is used again, too.)
ReusableAlways(b) == runs[b] # << >>

\* (Mutant of Reusable: an answer that is stored is asked for once more.)
ReusableWhileActive(b) == runs[b] # << >> /\ Status(b, Latest(b)) \in {"pending", "running"}

\* The latest run of the request is used again unless it failed.
Reusable(b) == runs[b] # << >> /\ Status(b, Latest(b)) # "failed"

\* prepare_inference_run: the run it returns, and the row it may insert.
PreparedRun(b) == IF Reusable(b) THEN Latest(b) ELSE Latest(b) + 1
PrepareRun(b) ==
    runs' = IF Reusable(b) THEN runs ELSE [runs EXCEPT ![b] = Append(@, PendingRun)]

\* (Mutant of LaunchRun: a run that is running is started again.)
LaunchRunAgain(b, r) ==
    /\ Status(b, r) \in {"pending", "running"}
    /\ runs' = [runs EXCEPT ![b][r].status = "running", ![b][r].fresh = TRUE]

\* claim_inference_run_for_execution of a pending run; others it only looks at.
LaunchRun(b, r) ==
    /\ Status(b, r) = "pending"
    /\ runs' = [runs EXCEPT ![b][r].status = "running", ![b][r].fresh = TRUE]

Ended(run, status, code) ==
    [run EXCEPT !.status = status, !.code = code, !.fresh = FALSE]

\* (Mutant of MayComplete: a late answer is stored whatever became of the run.)
MayCompleteLate(b, r) == Status(b, r) # "completed"

MayComplete(b, r) == Status(b, r) = "running"

\* complete_inference_run; a run that is not running any more is refused.
CompleteRun(b, r) ==
    /\ MayComplete(b, r)
    /\ runs' = [runs EXCEPT ![b][r] = Ended(@, "completed", "none")]

\* fail_inference_run of a call that did not succeed.
FailRun(b, r, code) ==
    /\ Status(b, r) = "running"
    /\ runs' = [runs EXCEPT ![b][r] = Ended(@, "failed", code)]

\* recover_stale_fact_extraction_inference_run of a run started long ago.
FailStale(b, r) ==
    /\ Status(b, r) = "running" /\ ~runs[b][r].fresh
    /\ runs' = [runs EXCEPT ![b][r] = Ended(@, "failed", "stale")]

\* persist_completed_fact_extraction_batch: one application for each run; when
\* there is one already, it is replayed.
ApplyRun(b, r) ==
    /\ Status(b, r) = "completed"
    /\ runs' = [runs EXCEPT ![b][r].applied = TRUE]

GrowStale(b, r) ==
    /\ runs[b][r].fresh
    /\ runs' = [runs EXCEPT ![b][r].fresh = FALSE]
==============================================================================
