--------------------------- MODULE ProcessingJobs ----------------------------
(***************************************************************************)
(* The job table of one revision (app/services/processing_job.py): the     *)
(* operator's transactions enqueue, retry and recover, and the worker's    *)
(* claim, renew, fail and complete.  A worker uses a new session for each  *)
(* and reads fresh rows; the operator's run in the session that loaded the *)
(* page and read row attributes from `seen', while WHERE clauses (is there *)
(* an active job, an unlinked run, the next attempt_no) see the database.  *)
(***************************************************************************)
EXTENDS RevisionStore

RunsLinked == {job[a].run : a \in Attempts}
\* revision_has_unlinked_terminal_extraction_run: every stored run is terminal.
UnlinkedRun == \E i \in 1..Len(runs) : i \notin RunsLinked

\* A job row as the operator's session sees it.
SeenJob(seen, a) == IF a = seen.latest THEN seen.job ELSE job[a]

\* _mark_job_failed clears every column the model has of the row.
MarkFailed(row) == FailedJob

\* _create_queued_job: attempt_no is one more than the largest stored.
CreateQueuedJob(rows) ==
    /\ attempts < MaxAttempts
    /\ attempts' = attempts + 1
    /\ job' = [rows EXCEPT ![attempts + 1] = QueuedJob]

\* enqueue_revision_extraction_job answers with an active attempt ...
EnqueueExisting(seen, a) ==
    /\ seen.revision.status = "accepted"
    /\ a \in ActiveAttempts
    /\ UNCHANGED storeVars

\* (Mutant of EnqueueNew: no look at the active attempts.)
EnqueueNewBlindly(seen) ==
    /\ seen.revision.status = "accepted"
    /\ CreateQueuedJob(job)
    /\ UNCHANGED <<revision, report, runs>>

\* ... or makes a new one, which becomes number attempts + 1.
EnqueueNew(seen) ==
    /\ seen.revision.status = "accepted"
    /\ ActiveAttempts = {}
    /\ CreateQueuedJob(job)
    /\ UNCHANGED <<revision, report, runs>>

\* The revision accepted again, if the copy says that it is not.
Reaccept(seen) ==
    revision' = Flush(revision, seen.revision, "accepted", seen.revision.authority)

Retry(seen) ==
    /\ seen.revision.status = "failed"
    /\ ActiveAttempts = {}
    /\ \/ runs # << >> /\ runs[Len(runs)] \in {"failed", "needs_ocr"}
       \/ \E a \in Attempts : job[a].status = "failed"
    /\ Reaccept(seen)
    /\ CreateQueuedJob(job)
    /\ UNCHANGED <<report, runs>>

ReacceptIfStarted(seen) ==
    IF seen.revision.status \in {"parsing", "extracting"}
    THEN Reaccept(seen) ELSE UNCHANGED revision

\* (Mutant of RecoverExpired: the expired attempt is left running.)
RecoverExpiredLeavingIt(seen, a) ==
    /\ a \in ActiveAttempts
    /\ SeenJob(seen, a).status = "running"
    /\ SeenJob(seen, a).lease = 0
    /\ CreateQueuedJob(job)
    /\ ReacceptIfStarted(seen)
    /\ UNCHANGED <<report, runs>>

\* recover_stale_revision_extraction with an active attempt: its lease must be
\* over.  A run that no job links is not redone, the attempt only fails.
RecoverExpired(seen, a) ==
    /\ a \in ActiveAttempts
    /\ SeenJob(seen, a).status = "running"
    /\ SeenJob(seen, a).lease = 0
    /\ LET closed == [job EXCEPT ![a] = MarkFailed(job[a])] IN
       IF UnlinkedRun
       THEN job' = closed /\ UNCHANGED <<attempts, revision>>
       ELSE CreateQueuedJob(closed) /\ ReacceptIfStarted(seen)
    /\ UNCHANGED <<report, runs>>

\* ... and without one: the revision must not have moved for StaleTicks.
RecoverIdle(seen) ==
    /\ ActiveAttempts = {}
    /\ seen.revision.status \in {"accepted", "parsing", "extracting"}
    /\ seen.revision.age = StaleTicks
    /\ ~UnlinkedRun
    /\ CreateQueuedJob(job)
    /\ ReacceptIfStarted(seen)
    /\ UNCHANGED <<report, runs>>

\* (Mutant of ClaimJob: a job that runs already is claimed again.)
ClaimJobAgain(w, a) ==
    /\ job[a].status \in ActiveStatus
    /\ job' = [job EXCEPT ![a] =
                 [status |-> "running", token |-> w, lease |-> LeaseTicks, run |-> 0]]
    /\ UNCHANGED <<revision, report, attempts, runs>>

\* claim_processing_job
ClaimJob(w, a) ==
    /\ job[a].status = "queued"
    /\ job' = [job EXCEPT ![a] =
                 [status |-> "running", token |-> w, lease |-> LeaseTicks, run |-> 0]]
    /\ UNCHANGED <<revision, report, attempts, runs>>

\* (Mutant of LeaseHeld: the expiry is not compared with now.)
LeaseHeldOnce(w, a) == job[a].status = "running" /\ job[a].token = w

\* _validate_running_job_lease
LeaseHeld(w, a) ==
    /\ job[a].status = "running"
    /\ job[a].token = w
    /\ job[a].lease > 0

\* renew_processing_job_lease
RenewLease(w, a) ==
    /\ LeaseHeld(w, a)
    /\ job' = [job EXCEPT ![a].lease = LeaseTicks]
    /\ UNCHANGED <<revision, report, attempts, runs>>

\* (Mutant of FailJob: the revision fails with the job.)
FailJobAndRevision(w, a) ==
    /\ LeaseHeld(w, a)
    /\ job' = [job EXCEPT ![a] = MarkFailed(job[a])]
    /\ revision' = Flush(revision, revision, "failed", revision.authority)
    /\ UNCHANGED <<report, attempts, runs>>

\* fail_processing_job: the revision keeps the status the attempt left it in.
FailJob(w, a) ==
    /\ LeaseHeld(w, a)
    /\ job' = [job EXCEPT ![a] = MarkFailed(job[a])]
    /\ UNCHANGED <<revision, report, attempts, runs>>

\* _map_extraction_outcome_to_revision_status
ExtractedStatus(outcome) ==
    IF outcome \in {"success", "partial"} THEN "awaiting_review" ELSE "failed"

\* _finalize_extraction_phase with complete_processing_job_in_transaction as its
\* finalizer: run, revision and job are written together or not at all.
CompleteJob(w, a, outcome) ==
    /\ revision.status = "extracting"
    /\ LeaseHeld(w, a)
    /\ runs' = Append(runs, outcome)
    /\ revision' = Flush(revision, revision, ExtractedStatus(outcome),
                         revision.authority)
    /\ job' = [job EXCEPT ![a] =
                 [status |-> "completed", token |-> NoWorker, lease |-> 0,
                  run |-> Len(runs) + 1]]
    /\ UNCHANGED <<report, attempts>>
==============================================================================
