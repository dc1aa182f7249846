-------------------------- MODULE RevisionLifecycle --------------------------
(***************************************************************************)
(* One document revision from the commit of its upload to its extraction   *)
(* result: the upload request, the requests operators submit from the      *)
(* revision page (app/routers/projects.py), the background workers, the    *)
(* clock and restarts of the process, over the rows of RevisionStore.      *)
(***************************************************************************)
EXTENDS JobExecutor

CONSTANT Requests   \* operator requests that may be open at the same time

VARIABLES
    upload,    \* what the upload request still has to do
    request    \* the open operator requests with the rows they have loaded

vars == <<storeVars, executorVars, upload, request>>

\* An operator request first loads the revision page (get_revision_detail_for_user)
\* and keeps the loaded objects alive, then calls a service in the same session.
Page == [stage : {"idle", "page", "decided"}, revision : Revision,
         report : Report, latest : 0..MaxAttempts, job : Job]
NoPage == [stage |-> "idle",
           revision |-> [status |-> "preflight_checking", authority |-> "pending",
                         age |-> 0],
           report |-> [outcome |-> "pass", decision |-> "none"],
           latest |-> 0, job |-> NoJob]

TypeOK ==
    /\ StoreTypeOK
    /\ ExecutorTypeOK
    /\ upload \in {"resolve", "enqueue", "done"}
    /\ request \in [Requests -> Page]

Init ==
    /\ StoreInit
    /\ ExecutorInit
    /\ upload = IF revision.status = "preflight_checking" THEN "resolve" ELSE "done"
    /\ request = [q \in Requests |-> NoPage]

Close(q) == request' = [request EXCEPT ![q] = NoPage]

------------------------------------------------------------------------------
(* The upload request: handle_post_upload_processing. *)

ResolveUpload ==
    /\ upload = "resolve"
    /\ ResolveAdmission
    /\ upload' = IF revision'.status = "accepted" THEN "enqueue" ELSE "done"
    /\ UNCHANGED <<executorVars, request>>

\* Its session still holds the revision that it has just accepted itself.
UploadPage == [revision |-> [status |-> "accepted", authority |-> "pending", age |-> 0]]

EnqueueUpload ==
    /\ upload = "enqueue"
    /\ \/ EnqueueNew(UploadPage) /\ tasks' = tasks \cup {attempts + 1}
       \/ \E a \in Attempts :
            EnqueueExisting(UploadPage, a) /\ tasks' = tasks \cup {a}
    /\ upload' = "done"
    /\ UNCHANGED <<worker, request>>

\* Any exception on the way is logged and shown as the notice enqueue_failed.
UploadFails ==
    /\ upload # "done"
    /\ upload' = "done"
    /\ UNCHANGED <<storeVars, executorVars, request>>

------------------------------------------------------------------------------
(* Operator requests. *)

LoadPage(q) ==
    /\ request[q].stage = "idle"
    /\ request' = [request EXCEPT ![q] =
         [stage |-> "page", revision |-> revision, report |-> report,
          latest |-> attempts,
          job |-> IF attempts = 0 THEN NoJob ELSE job[attempts]]]
    /\ UNCHANGED <<storeVars, executorVars, upload>>

\* revision_admission_submit: after the decision the same request enqueues.
SubmitDecision(q, decision) ==
    /\ request[q].stage = "page"
    /\ Decide(request[q], decision)
    /\ IF decision = "cancel" THEN Close(q)
       ELSE request' = [request EXCEPT
              ![q].stage = "decided",
              ![q].revision = DecidedRevision(request[q].revision, decision),
              ![q].report.decision = decision]
    /\ UNCHANGED <<executorVars, upload>>

ResubmitDecision(q, decision) ==
    /\ request[q].stage = "page"
    /\ RepeatDecision(request[q], decision)
    /\ decision # "cancel"
    /\ request' = [request EXCEPT ![q].stage = "decided"]
    /\ UNCHANGED <<executorVars, upload>>

\* revision_processing_start, and the second half of revision_admission_submit:
\* an attempt that was already there is dispatched unless it is seen running.
StartProcessing(q) ==
    /\ request[q].stage \in {"page", "decided"}
    /\ \/ EnqueueNew(request[q]) /\ tasks' = tasks \cup {attempts + 1}
       \/ \E a \in Attempts :
            /\ EnqueueExisting(request[q], a)
            /\ tasks' = IF SeenJob(request[q], a).status = "running"
                        THEN tasks ELSE tasks \cup {a}
    /\ Close(q)
    /\ UNCHANGED <<worker, upload>>

\* revision_processing_retry
RetryProcessing(q) ==
    /\ request[q].stage = "page"
    /\ Retry(request[q])
    /\ tasks' = tasks \cup {attempts + 1}
    /\ Close(q)
    /\ UNCHANGED <<worker, upload>>

\* revision_processing_recover: the attempt that comes back is dispatched.
RecoverProcessing(q) ==
    /\ request[q].stage = "page"
    /\ \/ RecoverIdle(request[q]) /\ tasks' = tasks \cup {attempts + 1}
       \/ \E a \in Attempts :
            /\ RecoverExpired(request[q], a)
            /\ tasks' = tasks \cup {IF UnlinkedRun THEN a ELSE attempts + 1}
    /\ Close(q)
    /\ UNCHANGED <<worker, upload>>

\* A refusal, a failed transaction, or a client that does not submit.
CloseRequest(q) ==
    /\ request[q].stage # "idle"
    /\ Close(q)
    /\ UNCHANGED <<storeVars, executorVars, upload>>

------------------------------------------------------------------------------
(* Time passes for the rows and for the copies of them; the process restarts. *)

AgePage(page) ==
    IF page.stage = "idle" THEN page
    ELSE [page EXCEPT !.revision.age = Older(page.revision.age),
                      !.job.lease = Shorter(page.job.lease)]

Tick ==
    /\ AgeStore
    /\ request' = [q \in Requests |-> AgePage(request[q])]
    /\ UNCHANGED <<executorVars, upload>>

\* Background tasks and open requests live in the memory of the process.
Restart ==
    /\ tasks' = {}
    /\ worker' = [w \in Workers |-> IdleWorker]
    /\ upload' = "done"
    /\ request' = [q \in Requests |-> NoPage]
    /\ UNCHANGED storeVars

Background(w) ==
    /\ \/ \E a \in Attempts : Claim(w, a)
       \/ WorkerStep(w)
       \/ WorkerDies(w)
       \/ Heartbeat(w)
       \/ HeartbeatStops(w)
    /\ UNCHANGED <<upload, request>>

Operate(q) ==
    \/ LoadPage(q)
    \/ \E decision \in Decisions :
         SubmitDecision(q, decision) \/ ResubmitDecision(q, decision)
    \/ StartProcessing(q)
    \/ RetryProcessing(q)
    \/ RecoverProcessing(q)
    \/ CloseRequest(q)

Next ==
    \/ ResolveUpload \/ EnqueueUpload \/ UploadFails
    \/ \E q \in Requests : Operate(q)
    \/ \E w \in Workers : Background(w)
    \/ (\E a \in Attempts : DropTask(a)) /\ UNCHANGED <<upload, request>>
    \/ Tick
    \/ Restart

Spec == Init /\ [][Next]_vars

\* The event loop runs every coroutine that can run, and the clock advances.
\* Nothing is assumed of operators, crashes or the heartbeat.
Fairness ==
    /\ WF_vars(Tick)
    /\ \A w \in Workers : WF_vars(WorkerStep(w) /\ UNCHANGED <<upload, request>>)

FairSpec == Spec /\ Fairness

------------------------------------------------------------------------------
(* Safety. *)

\* At most one attempt is queued or running, and it is the newest one: enqueue,
\* retry and recovery of several operators never leave two attempts alive, though
\* they decide on copies of the revision that may be out of date.
OneActiveAttempt ==
    \A a \in Attempts : job[a].status \in ActiveStatus => a = attempts

\* An extraction run, the status it gives the revision and the completion of its
\* job are one commit: every stored run is the result of exactly one completed
\* job, in the order of the attempts, and no run is ever orphaned (so recovery
\* never meets the repairs it has for an orphaned or an unrecorded result).
RunsMatchCompletions ==
    /\ \A i \in 1..Len(runs) : \E a \in Attempts : job[a].run = i
    /\ \A a \in Attempts :
         /\ job[a].run \in 0..Len(runs)
         /\ job[a].status = "completed" <=> job[a].run # 0
    /\ \A a, b \in Attempts :
         a < b /\ job[a].run # 0 /\ job[b].run # 0 => job[a].run < job[b].run

\* A revision that awaits review, or has failed, is so because of the last run:
\* whatever workers that lost their lease and operators with old pages do in
\* between, the status never advertises the result of another attempt.
StatusTellsLastRun ==
    revision.status \in {"awaiting_review", "failed"} =>
      /\ runs # << >>
      /\ revision.status = ExtractedStatus(runs[Len(runs)])

\* Content is only ever extracted under an admission that holds: from the moment
\* parsing begins, the report and the authority of the revision agree, also when
\* a decision is recorded concurrently or overwritten.
ExtractionIsAdmitted ==
    revision.status \in {"parsing", "extracting", "awaiting_review", "failed"} =>
      Admitted(revision, report)

\* No two running tasks ever work on the same attempt, however often it was
\* dispatched.
OneWorkerPerAttempt ==
    \A v, w \in Workers :
      v # w /\ worker[v].pc # "idle" => worker[v].job # worker[w].job

\* Attempts are numbered without gaps, and a task only works on an attempt that
\* it has claimed: with these the invariants above are inductive.
AttemptsAreDense == \A a \in Attempts : job[a].status = "absent" <=> a > attempts
Started(a) == job[a].status \notin {"absent", "queued"}
WorkersHaveClaimed == \A w \in Workers : worker[w].pc # "idle" => Started(worker[w].job)

StoreInv == /\ AttemptsAreDense /\ OneActiveAttempt /\ RunsMatchCompletions
            /\ StatusTellsLastRun /\ ExtractionIsAdmitted
Inv == TypeOK /\ StoreInv /\ WorkersHaveClaimed /\ OneWorkerPerAttempt

\* A job is only completed by the worker that was given its token, while its
\* lease has not run out; a worker that lost it changes no job.
CompletedUnderLease ==
    [][\A a \in Attempts :
         job'[a].status = "completed" /\ job[a].status # "completed" =>
           /\ job[a].status = "running" /\ job[a].lease > 0
           /\ worker[job[a].token].pc = "extracting"
           /\ worker[job[a].token].job = a]_vars

\* What the job table promises, whatever happens to workers and the process.
LedgerEntry == [a \in Attempts |->
    IF job[a].status \in ActiveStatus THEN "active" ELSE job[a].status]
Ledger == INSTANCE ExtractionLedger WITH
    Outcomes <- RunOutcomes, opened <- attempts, entry <- LedgerEntry, results <- runs

\* The rows implement the append-only ledger of attempts and results.
ImplementsLedger == Ledger!Spec

------------------------------------------------------------------------------
(* Liveness. *)

\* A running job does not stay running under a live lease: either it reaches a
\* final status or, its worker gone, the lease runs out and recovery may start.
LeaseEventuallyEnds ==
    \A a \in Attempts :
      job[a].status = "running" ~>
        job[a].status \in TerminalStatus \/ job[a].lease = 0

------------------------------------------------------------------------------
(* Claims of the repository that concurrent requests and restarts break. *)

\* "A different admission decision already exists and cannot be overwritten."
DecisionIsFinal ==
    [][report.decision # "none" => report'.decision = report.decision]_vars

\* "Recovery only supports accepted, parsing, or extracting revisions": a
\* revision whose extraction succeeded is not sent back for another one.
ResultIsNotReopened ==
    [][revision.status = "awaiting_review" => revision'.status = "awaiting_review"]_vars

\* The buttons of the revision page for an owner or editor.
ShowsAdmission == revision.status = "needs_confirmation"
ShowsStart ==
    /\ revision.status = "accepted"
    /\ attempts > 0 => ~(job[attempts].status = "running" /\ job[attempts].lease > 0)
ShowsRetry   == revision.status = "failed"
ShowsRecover ==
    \/ attempts > 0 /\ job[attempts].status = "running" /\ job[attempts].lease = 0
    \/ revision.status \in {"parsing", "extracting"} /\ revision.age = StaleTicks

InProgress ==
    \/ upload # "done" \/ tasks # {}
    \/ \E w \in Workers : worker[w].pc # "idle"
    \/ \E q \in Requests : request[q].stage # "idle"

\* "No operation is available, please wait until processing is complete": a page
\* that offers nothing for an unfinished revision is one somebody works on, or
\* waits for the revision or a lease to become stale.
WaitingIsForSomething ==
    revision.status \in {"preflight_checking", "accepted"}
      /\ ~ShowsStart /\ ~(attempts > 0 /\ job[attempts].status = "running")
    => InProgress

\* The button "recover the stuck task" recovers it: when the page shows it and
\* nobody is at work, the service accepts it.
OfferedRecoveryWorks ==
    ShowsRecover /\ ~InProgress =>
      \/ ActiveAttempts = {}
      \/ \E a \in ActiveAttempts : job[a].status = "running" /\ job[a].lease = 0
==============================================================================
