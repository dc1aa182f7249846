-------------------------- MODULE FactOrchestration ---------------------------
(***************************************************************************)
(* Calls of execute_fact_extraction_orchestration                          *)
(* (app/services/fact_extraction_orchestration.py) that process the plan   *)
(* of one extraction run at the same time, again and again: each takes the *)
(* batches in their order, and each batch goes through claim, recovery of  *)
(* its last run, execution (app/services/fact_extraction_execution.py),    *)
(* persistence and finalization, each a transaction of its own, while a    *)
(* heartbeat renews the lease.  A call may be cancelled or die anywhere.   *)
(***************************************************************************)
EXTENDS FactBatches

CONSTANT Workers   \* calls that may be in progress at the same time

VARIABLE worker

vars == <<rowVars, worker>>

\* Where a call is.  preparing to persisting run under the heartbeat; from
\* preparing to finishing every exception leads to reconciling.
Stages == {"idle", "claiming", "recovering", "transitioning", "preparing",
           "registering", "launching", "calling", "persisting", "renewing",
           "finishing", "reconciling", "finalizing"}
Beating == {"preparing", "registering", "launching", "calling", "persisting"}
Trying  == Beating \cup {"renewing", "finishing"}

Worker == [stage : Stages, token : Tokens \cup {NoToken},
           orch : 0..MaxOrchestrations, batch : 0..BatchCount, run : Nat,
           code : BatchCodes \cup {"none"}]
IdleWorker == [stage |-> "idle", token |-> NoToken, orch |-> 0, batch |-> 0,
               run |-> 0, code |-> "none"]

FactTypeOK ==
    /\ BatchesTypeOK
    /\ worker \in [Workers -> Worker]
    /\ \A w \in Workers : worker[w].stage # "idle" =>
         /\ worker[w].token \in Tokens
         /\ worker[w].orch \in Orchs /\ worker[w].batch \in Batches
         /\ worker[w].run <= Len(runs[worker[w].batch])

Init == BatchesInit /\ worker = [w \in Workers |-> IdleWorker]

\* The batch row, the run and the token a worker is concerned with.
RowOf(w) == orchs[worker[w].orch].batch[worker[w].batch]
OwnedBy(w) == RowOf(w).owner = worker[w].token
SetRowOf(w, row) == SetRow(worker[w].orch, worker[w].batch, row)

GoOn(w, stage) == worker' = [worker EXCEPT ![w].stage = stage]
Fail(w, code) ==
    worker' = [worker EXCEPT ![w].stage = "reconciling", ![w].code = code]
Return(w) == worker' = [worker EXCEPT ![w] = IdleWorker]

ClaimOf(w, b) ==
    [worker[w] EXCEPT !.stage = "claiming", !.batch = b, !.run = 0, !.code = "none"]
NextBatch(w) ==
    worker' = [worker EXCEPT ![w] =
        IF @.batch = BatchCount
        THEN [@ EXCEPT !.stage = "finalizing", !.run = 0, !.code = "none"]
        ELSE ClaimOf(w, @.batch + 1)]
Again(w) == worker' = [worker EXCEPT ![w] = ClaimOf(w, @.batch)]

------------------------------------------------------------------------------
(* A call up to the execution of a batch. *)

\* A completed orchestration is only read, and the call returns.
Start(w, token) ==
    /\ worker[w].stage = "idle"
    /\ \/ /\ Open
          /\ UNCHANGED orchs
       \/ /\ MayRetry
          /\ orchs' = Append(orchs, NewOrchestration)
    /\ worker' = [worker EXCEPT ![w] =
         [IdleWorker EXCEPT !.stage = "claiming", !.token = token,
                            !.orch = Len(orchs'), !.batch = 1]]
    /\ UNCHANGED runs

Claim(w) ==
    /\ worker[w].stage = "claiming"
    /\ LET o == worker[w].orch
           b == worker[w].batch
           row == RowOf(w) IN
       \/ /\ MustSkip(o, b, worker[w].token)
          /\ NextBatch(w)
          /\ UNCHANGED orchs
       \/ /\ ClaimPending(o, b, worker[w].token)
          /\ GoOn(w, "preparing")
       \/ /\ ClaimRunning(o, b, worker[w].token)
          /\ worker' = [worker EXCEPT
               ![w].stage = IF row.run = 0 THEN "preparing" ELSE "recovering",
               ![w].run = row.run]
    /\ UNCHANGED runs

\* The run the claim has returned: a failed or an abandoned one ends the attempt,
\* one that may still be answered is left alone.
Recover(w) ==
    /\ worker[w].stage = "recovering"
    /\ LET b == worker[w].batch
           r == worker[w].run IN
       \/ /\ Status(b, r) \in {"pending", "completed"}
          /\ GoOn(w, "preparing")
          /\ UNCHANGED runs
       \/ /\ Status(b, r) = "failed"
          /\ worker' = [worker EXCEPT ![w].stage = "transitioning",
                                      ![w].code = runs[b][r].code]
          /\ UNCHANGED runs
       \/ /\ runs[b][r].fresh
          /\ NextBatch(w)
          /\ UNCHANGED runs
       \/ /\ FailStale(b, r)
          /\ worker' = [worker EXCEPT ![w].stage = "transitioning",
                                      ![w].code = "stale"]
    /\ UNCHANGED orchs

\* After a failed run, outside of any handler: an error ends the call.
Transition(w) ==
    /\ worker[w].stage = "transitioning"
    /\ LET row == RowOf(w)
           me  == worker[w] IN
       \/ /\ row.status = "completed"
          /\ NextBatch(w)
          /\ UNCHANGED orchs
       \/ /\ row.status # "completed"
          /\ MayTransition(me.orch, me.batch, me.token, me.run, me.code)
          /\ SetRowOf(w, Retried(row, me.code))
          /\ IF Retryable(row, me.code) THEN Again(w) ELSE NextBatch(w)
       \/ /\ row.status # "completed"
          /\ ~MayTransition(me.orch, me.batch, me.token, me.run, me.code)
          /\ Return(w)
          /\ UNCHANGED orchs
    /\ UNCHANGED runs

------------------------------------------------------------------------------
(* execute_fact_extraction_batch and the persistence of its result. *)

\* The input batch is materialized and the run prepared.
Prepare(w) ==
    /\ worker[w].stage = "preparing"
    /\ PrepareRun(worker[w].batch)
    /\ worker' = [worker EXCEPT ![w].stage = "registering",
                                ![w].run = PreparedRun(worker[w].batch)]
    /\ UNCHANGED orchs

\* The observer of the prepared run.
Register(w) ==
    /\ worker[w].stage = "registering"
    /\ LET me == worker[w] IN
       IF MayRegister(me.orch, me.batch, me.token, me.run)
       THEN SetRowOf(w, [RowOf(w) EXCEPT !.run = me.run]) /\ GoOn(w, "launching")
       ELSE Fail(w, "invalid") /\ UNCHANGED orchs
    /\ UNCHANGED runs

\* A run that is completed is used as it is (whether that was seen when it was
\* prepared or is seen now); one that runs or has failed is an error.
Launch(w) ==
    /\ worker[w].stage = "launching"
    /\ LET b == worker[w].batch
           r == worker[w].run IN
       \/ /\ LaunchRun(b, r)
          /\ GoOn(w, "calling")
       \/ /\ Status(b, r) = "completed"
          /\ GoOn(w, "persisting")
          /\ UNCHANGED runs
       \/ /\ Status(b, r) \in {"running", "failed"}
          /\ Fail(w, "invalid")
          /\ UNCHANGED runs
    /\ UNCHANGED orchs

\* The provider has answered, and the answer is valid.
Answered(w) ==
    /\ worker[w].stage = "calling"
    /\ LET b == worker[w].batch
           r == worker[w].run IN
       \/ /\ CompleteRun(b, r)
          /\ GoOn(w, "persisting")
       \/ /\ ~MayComplete(b, r)
          /\ Fail(w, "invalid")
          /\ UNCHANGED runs
    /\ UNCHANGED orchs

\* _safe_record_failed_run: a run that is not running any more, or an error of
\* the database, is logged and forgotten.
RecordFailure(w, code) ==
    \/ FailRun(worker[w].batch, worker[w].run, code)
    \/ UNCHANGED runs

\* The provider fails, or answers what cannot be used.
CallFails(w, code) ==
    /\ worker[w].stage = "calling"
    /\ RecordFailure(w, code)
    /\ Fail(w, code)
    /\ UNCHANGED orchs

\* persist_completed_fact_extraction_batch, which does not look at the lease.
Persist(w) ==
    /\ worker[w].stage = "persisting"
    /\ ApplyRun(worker[w].batch, worker[w].run)
    /\ GoOn(w, "renewing")
    /\ UNCHANGED orchs

\* The source blocks are not what the run was made from any more.
ContextInvalid(w) ==
    /\ worker[w].stage = "persisting"
    /\ Fail(w, "context_invalid")
    /\ UNCHANGED rowVars

Renew(w) ==
    /\ worker[w].stage = "renewing"
    /\ IF MayRenew(worker[w].orch, worker[w].batch, worker[w].token)
       THEN SetRowOf(w, [RowOf(w) EXCEPT !.live = TRUE]) /\ GoOn(w, "finishing")
       ELSE Fail(w, "lease_lost") /\ UNCHANGED orchs
    /\ UNCHANGED runs

\* _finalize_batch_success; a batch that another call has completed with the same
\* application is as good.
Finish(w) ==
    /\ worker[w].stage = "finishing"
    /\ LET me == worker[w] IN
       \/ /\ RowOf(w).status = "completed" /\ RowOf(w).run = me.run
          /\ NextBatch(w)
          /\ UNCHANGED orchs
       \/ /\ RowOf(w).status # "completed"
          /\ MayFinish(me.orch, me.batch, me.token, me.run)
          /\ SetRowOf(w, Completed(RowOf(w)))
          /\ NextBatch(w)
       \/ /\ ~(RowOf(w).status = "completed" /\ RowOf(w).run = me.run)
          /\ ~MayFinish(me.orch, me.batch, me.token, me.run)
          /\ Fail(w, "invalid")
          /\ UNCHANGED orchs
    /\ UNCHANGED runs

\* An error of the database, or a plan that does not fit its input any more:
\* every exception that is not known is classified as an invalid response.
StepFails(w) ==
    /\ worker[w].stage \in Trying \ {"calling"}
    /\ Fail(w, "invalid")
    /\ UNCHANGED rowVars

------------------------------------------------------------------------------
(* reconcile_fact_extraction_batch_after_interruption, in the order of the     *)
(* code.  A batch that is pending after it is claimed again, otherwise the     *)
(* next one is; a call that was cancelled ends in either case.                 *)

RunOf(w) == runs[worker[w].batch][RowOf(w).run]
HasRun(w, status) == RowOf(w).run # 0 /\ RunOf(w).status \in status

\* (Mutant of Resume: a batch that is still running is claimed again, too.)
ResumeRunning(w, row) ==
    IF worker[w].code = "cancelled" THEN Return(w)
    ELSE IF row.status \in {"pending", "running"} THEN Again(w) ELSE NextBatch(w)

Resume(w, row) ==
    IF worker[w].code = "cancelled" THEN Return(w)
    ELSE IF row.status = "pending" THEN Again(w) ELSE NextBatch(w)

Leave(w) == Resume(w, RowOf(w)) /\ UNCHANGED orchs
Settle(w, row) == SetRowOf(w, row) /\ Resume(w, row)
Raise(w) == Return(w) /\ UNCHANGED orchs

\* (Mutant of Settled: orchestrations that have ended are reconciled as well.)
SettledIfCompleted(w) == RowOf(w).status = "completed"

Settled(w) ==
    \/ orchs[worker[w].orch].status \in TerminalStatus
    \/ RowOf(w).status = "completed"

\* (Mutant of Applied: an answer is taken for stored facts.)
AppliedOrAnswered(w) == HasRun(w, {"completed"})

Applied(w) == RowOf(w).run # 0 /\ RunOf(w).applied
OthersTurn(w) == RowOf(w).status = "running" /\ ~OwnedBy(w)

\* The run is completed and applied: the batch can be completed, at once.
ReconcileApplied(w) ==
    IF MayFinish(worker[w].orch, worker[w].batch, worker[w].token, RowOf(w).run)
    THEN Settle(w, Completed(RowOf(w))) ELSE Raise(w)

\* (Mutant of ReconcileAnswered: the batch starts again from nothing.)
ReconcileAnsweredAnew(w) == Settle(w, Retried(RowOf(w), worker[w].code))

\* The run is completed: its answer is kept for whoever claims the batch next.
ReconcileAnswered(w) ==
    IF worker[w].code = "context_invalid"
    THEN Settle(w, Failed(RowOf(w), worker[w].code))
    ELSE IF RowOf(w).status = "running" THEN Settle(w, Expired(RowOf(w))) ELSE Leave(w)

ReconcileFailed(w) ==
    IF MayTransition(worker[w].orch, worker[w].batch, worker[w].token,
                     RowOf(w).run, worker[w].code)
    THEN Settle(w, Retried(RowOf(w), worker[w].code)) ELSE Raise(w)

\* The run has not ended: it is left to those who are at it, or to its end.
ReconcileOpen(w) ==
    IF RowOf(w).status = "running" /\ HasRun(w, {"pending"})
    THEN Settle(w, Expired(RowOf(w))) ELSE Leave(w)

\* No run was registered.  A batch that has not been started cannot fail: the
\* check constraint feob_failed_shape refuses that.
ReconcileNoRun(w) ==
    IF RowOf(w).status = "pending" /\ ~Retryable(RowOf(w), worker[w].code)
    THEN Raise(w)
    ELSE Settle(w, Retried(RowOf(w), worker[w].code))

Reconcile(w) ==
    /\ worker[w].stage = "reconciling"
    /\ IF Settled(w) THEN Leave(w)
       ELSE IF Applied(w) THEN ReconcileApplied(w)
       ELSE IF OthersTurn(w) THEN Leave(w)
       ELSE IF HasRun(w, {"completed"}) THEN ReconcileAnswered(w)
       ELSE IF HasRun(w, {"failed"}) THEN ReconcileFailed(w)
       ELSE IF HasRun(w, {"pending", "running"}) THEN ReconcileOpen(w)
       ELSE ReconcileNoRun(w)
    /\ UNCHANGED runs

Finalize(w) ==
    /\ worker[w].stage = "finalizing"
    /\ FinalizeOrchestration(worker[w].orch)
    /\ Return(w)
    /\ UNCHANGED runs

------------------------------------------------------------------------------
(* What happens to a call. *)

Beat(w) ==
    /\ worker[w].stage \in Beating
    /\ MayRenew(worker[w].orch, worker[w].batch, worker[w].token)
    /\ ~RowOf(w).live
    /\ SetRowOf(w, [RowOf(w) EXCEPT !.live = TRUE])
    /\ UNCHANGED <<runs, worker>>

\* The heartbeat finds the batch taken, or fails once: the operation is cancelled,
\* and a run it has launched fails as cancelled.
HeartbeatFails(w) ==
    /\ worker[w].stage \in Beating
    /\ IF worker[w].stage = "calling" THEN RecordFailure(w, "cancelled")
       ELSE UNCHANGED runs
    /\ Fail(w, "lease_lost")
    /\ UNCHANGED orchs

\* The call is cancelled where it has a handler for that.
Cancel(w) ==
    /\ worker[w].stage \in Trying
    /\ IF worker[w].stage = "calling" THEN RecordFailure(w, "cancelled")
       ELSE UNCHANGED runs
    /\ Fail(w, "cancelled")
    /\ UNCHANGED orchs

\* The process ends, or the call is cancelled or fails where nothing handles it.
Dies(w) ==
    /\ worker[w].stage # "idle"
    /\ Return(w)
    /\ UNCHANGED rowVars

LeaseExpires(o, b) ==
    /\ orchs[o].batch[b].live
    /\ SetRow(o, b, Expired(orchs[o].batch[b]))
    /\ UNCHANGED <<runs, worker>>

RunGrowsStale(b, r) == GrowStale(b, r) /\ UNCHANGED <<orchs, worker>>

Step(w) ==
    \/ Claim(w) \/ Recover(w) \/ Transition(w)
    \/ Prepare(w) \/ Register(w) \/ Launch(w)
    \/ Answered(w) \/ \E code \in {"transport", "invalid"} : CallFails(w, code)
    \/ Persist(w) \/ ContextInvalid(w) \/ Renew(w) \/ Finish(w) \/ StepFails(w)
    \/ Reconcile(w) \/ Finalize(w)

Next ==
    \/ \E w \in Workers :
         \/ \E token \in Tokens : Start(w, token)
         \/ Step(w)
         \/ Beat(w) \/ HeartbeatFails(w) \/ Cancel(w) \/ Dies(w)
    \/ \E o \in Orchs, b \in Batches : LeaseExpires(o, b)
    \/ \E b \in Batches : \E r \in 1..Len(runs[b]) : RunGrowsStale(b, r)

Spec == Init /\ [][Next]_vars

\* The event loop runs every call that can run, and the client of the provider has
\* timeouts, so that every request to it ends.
Fairness == \A w \in Workers : WF_vars(Step(w))
FairSpec == Spec /\ Fairness

------------------------------------------------------------------------------
(* Safety. *)

\* A run is sent to the provider by one call only, however many work on the batch
\* with old leases, whether or not they share a token.
OneCallPerRun ==
    \A v, w \in Workers :
      v # w /\ worker[v].stage = "calling" /\ worker[w].stage = "calling"
        /\ worker[v].batch = worker[w].batch
      => worker[v].run # worker[w].run

\* A batch is sent to the provider no more often than its attempts say, although
\* leases are taken over without counting an attempt: max_batch_attempts bounds
\* what a plan costs.
Launched(b) == {r \in 1..Len(runs[b]) : Status(b, r) # "pending"}
Attempts(b) == {a \in Orchs \X (1..MaxAttempts) : a[2] <= orchs[a[1]].batch[b].attempts}
CallsWithinAttempts ==
    \A b \in Batches : Cardinality(Launched(b)) <= Cardinality(Attempts(b))

\* An orchestration that has ended agrees with its batches, and only the newest
\* one may still be open (the partial unique index for active orchestrations is
\* never needed).
EndedAgrees ==
    \A o \in Orchs :
      /\ orchs[o].status \in TerminalStatus => orchs[o].status = Outcome(o)
      /\ o < Len(orchs) => orchs[o].status \in {"partial", "failed"}

\* A completed batch has a completed run whose facts are stored.
CompletedIsApplied ==
    \A o \in Orchs, b \in Batches :
      orchs[o].batch[b].status = "completed" =>
        /\ runs[b][orchs[o].batch[b].run].status = "completed"
        /\ runs[b][orchs[o].batch[b].run].applied

\* What an orchestration says of itself is true: its end agrees with its batches, and
\* a completed batch with its run and the stored facts.
OutcomeIsBacked == FactTypeOK /\ EndedAgrees /\ CompletedIsApplied

\* Nothing of an orchestration changes after it has ended, whatever calls that
\* lost their lease, or their answer, still do.
EndedIsFinal ==
    [][\A o \in Orchs : orchs[o].status \in TerminalStatus => orchs'[o] = orchs[o]]_vars

\* An answer of the provider that a batch has is never dropped, nor replaced by
\* another run: it is paid for.
AnswerIsKept ==
    [][\A o \in Orchs, b \in Batches :
         LET r == orchs[o].batch[b].run IN
         r # 0 /\ Status(b, r) = "completed" => orchs'[o].batch[b].run = r]_vars

\* Each request as the provider sees it.
PhaseOf(b) ==
    IF \E r \in 1..Len(runs[b]) : Status(b, r) = "completed" THEN "answered"
    ELSE IF \E r \in 1..Len(runs[b]) : Status(b, r) = "running" THEN "open" ELSE "idle"
Log == INSTANCE RequestLog WITH
    Requests <- Batches,
    calls <- [b \in Batches |-> Cardinality(Launched(b))],
    phase <- [b \in Batches |-> PhaseOf(b)]

\* The runs implement the log of requests: one open call, and none after an answer.
ImplementsRequestLog == Log!Spec

------------------------------------------------------------------------------
(* Liveness. *)

\* Every call returns: retries, takeovers and reconciliations never go in circles.
CallReturns ==
    \A w \in Workers : worker[w].stage # "idle" ~> worker[w].stage = "idle"

------------------------------------------------------------------------------
(* Claims of the repository that calls at the same time or repeated break. *)

\* "reconcile completed application finalizes batch": when the run of a batch is
\* applied, the call that owns the batch can complete it.
AppliedCanBeFinished ==
    \A w \in Workers :
      worker[w].stage = "reconciling" /\ ~Settled(w) /\ Applied(w) /\ OwnedBy(w)
      => MayFinish(worker[w].orch, worker[w].batch, worker[w].token, RowOf(w).run)

\* "reconcile does not modify batch after lease is taken over": only a batch that
\* is the caller's is changed by its reconciliation.
ReconcilesOwnBatch ==
    [][\A w \in Workers :
         worker[w].stage = "reconciling" /\ worker'[w] # worker[w] /\ orchs' # orchs
         => OwnedBy(w)]_vars
==============================================================================
