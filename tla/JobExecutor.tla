----------------------------- MODULE JobExecutor -----------------------------
(***************************************************************************)
(* Background execution of extraction jobs: the dispatcher                 *)
(* (processing_job_dispatch.py), the executor with its heartbeat           *)
(* (processing_job_executor.py) and the three transactions of an           *)
(* extraction (revision_extraction.py).  Between two transactions a worker *)
(* holds no lock, and the first two never look at the job or its lease.    *)
(***************************************************************************)
EXTENDS RevisionAdmission, ProcessingJobs

VARIABLES
    tasks,   \* attempts with a background task that has not started
    worker   \* the running tasks

executorVars == <<tasks, worker>>

\* claimed, parsing, extracting: the last transaction that went through.
\* failing: the heartbeat is stopped, fail_processing_job comes next.
IdleWorker == [pc |-> "idle", job |-> 0, beat |-> FALSE]
Worker == {IdleWorker} \cup
          [pc : {"claimed", "parsing", "extracting", "failing"},
           job : Attempts, beat : BOOLEAN]

ExecutorTypeOK ==
    /\ tasks \subseteq Attempts
    /\ worker \in [Workers -> Worker]

ExecutorInit ==
    /\ tasks = {}
    /\ worker = [w \in Workers |-> IdleWorker]

\* execute_revision_extraction_job claims the job and starts the heartbeat.
Claim(w, a) ==
    /\ a \in tasks
    /\ worker[w].pc = "idle"
    /\ ClaimJob(w, a)
    /\ tasks' = tasks \ {a}
    /\ worker' = [worker EXCEPT ![w] = [pc |-> "claimed", job |-> a, beat |-> TRUE]]

\* A task that claims nothing: the job is not queued any more (skipped), or an
\* error before the claim, which the dispatcher only logs.
DropTask(a) ==
    /\ a \in tasks
    /\ tasks' = tasks \ {a}
    /\ UNCHANGED <<storeVars, worker>>

Advance(w, pc) == worker' = [worker EXCEPT ![w].pc = pc]

\* (Mutant of EnterParsing: the admission is not checked again.)
EnterParsingUnchecked(w) ==
    /\ worker[w].pc = "claimed"
    /\ revision.status = "accepted"
    /\ revision' = Flush(revision, revision, "parsing", revision.authority)
    /\ Advance(w, "parsing")
    /\ UNCHANGED <<report, attempts, job, runs, tasks>>

\* _enter_parsing_phase
EnterParsing(w) ==
    /\ worker[w].pc = "claimed"
    /\ revision.status = "accepted"
    /\ Admitted(revision, report)
    /\ revision' = Flush(revision, revision, "parsing", revision.authority)
    /\ Advance(w, "parsing")
    /\ UNCHANGED <<report, attempts, job, runs, tasks>>

\* _enter_extracting_phase
EnterExtracting(w) ==
    /\ worker[w].pc = "parsing"
    /\ revision.status = "parsing"
    /\ revision' = Flush(revision, revision, "extracting", revision.authority)
    /\ Advance(w, "extracting")
    /\ UNCHANGED <<report, attempts, job, runs, tasks>>

\* The document is read outside any transaction; whatever it yields, an error
\* included (a safe failed document), is then persisted.
Finalize(w, outcome) ==
    /\ worker[w].pc = "extracting"
    /\ CompleteJob(w, worker[w].job, outcome)
    /\ worker' = [worker EXCEPT ![w] = IdleWorker]
    /\ UNCHANGED tasks

\* (Mutant of LoseLease: the run is committed before the finalizer refuses.)
LoseLeaseKeepingRun(w) ==
    /\ worker[w].pc = "extracting"
    /\ revision.status = "extracting"
    /\ ~LeaseHeld(w, worker[w].job)
    /\ \E outcome \in ExtractionOutcomes : runs' = Append(runs, outcome)
    /\ worker' = [worker EXCEPT ![w] = IdleWorker]
    /\ UNCHANGED <<revision, report, attempts, job, tasks>>

\* The finalizer finds the lease gone: the transaction is rolled back and the
\* task ends without touching the job.
LoseLease(w) ==
    /\ worker[w].pc = "extracting"
    /\ revision.status = "extracting"
    /\ ~LeaseHeld(w, worker[w].job)
    /\ worker' = [worker EXCEPT ![w] = IdleWorker]
    /\ UNCHANGED <<storeVars, tasks>>

\* Any other exception of the extraction: a revision in another status, an
\* inadmissible report, a bad configuration, a database error.
RunFails(w) ==
    /\ worker[w].pc \in {"claimed", "parsing", "extracting"}
    /\ worker' = [worker EXCEPT ![w].pc = "failing", ![w].beat = FALSE]
    /\ UNCHANGED <<storeVars, tasks>>

\* _handle_execution_failure: the job fails, or its lease is gone already.
ReportFailure(w) ==
    /\ worker[w].pc = "failing"
    /\ \/ FailJob(w, worker[w].job)
       \/ ~LeaseHeld(w, worker[w].job) /\ UNCHANGED storeVars
    /\ worker' = [worker EXCEPT ![w] = IdleWorker]
    /\ UNCHANGED tasks

\* (Mutant of WorkerDies: cancelling the task forgets its heartbeat.)
WorkerDiesBeating(w) ==
    /\ worker[w].pc # "idle"
    /\ worker' = [worker EXCEPT ![w].pc = "idle"]
    /\ UNCHANGED <<storeVars, tasks>>

\* The task is cancelled, or reporting its failure fails: the job stays as it is.
WorkerDies(w) ==
    /\ worker[w].pc # "idle"
    /\ worker' = [worker EXCEPT ![w] = IdleWorker]
    /\ UNCHANGED <<storeVars, tasks>>

\* _heartbeat_loop
Heartbeat(w) ==
    /\ worker[w].beat
    /\ RenewLease(w, worker[w].job)
    /\ UNCHANGED executorVars

\* Any error in a renewal, an expired lease for one, ends the heartbeat for good.
HeartbeatStops(w) ==
    /\ worker[w].beat
    /\ worker' = [worker EXCEPT ![w].beat = FALSE]
    /\ UNCHANGED <<storeVars, tasks>>

\* The steps a scheduled coroutine takes by itself.
WorkerStep(w) ==
    \/ EnterParsing(w)
    \/ EnterExtracting(w)
    \/ \E outcome \in ExtractionOutcomes : Finalize(w, outcome)
    \/ LoseLease(w)
    \/ RunFails(w)
    \/ ReportFailure(w)
==============================================================================
