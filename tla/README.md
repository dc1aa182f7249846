# Zhiwen in TLA+

Zhiwen (`src/`) keeps the documents of a project, decides whether an uploaded
revision is admitted, extracts its text in the background, lets language models
extract facts, compares the facts, records what people decide about conflicts and
freezes versions of what is known.  It is a FastAPI application over PostgreSQL and a
local file store; everything that lasts is a row or a file, and almost everything that
can go wrong is an interleaving of transactions of requests, background tasks and
restarts, or a ledger that is read in pieces.

This directory holds TLA+ models of its parts, the TLC runs that check them and TLAPS
proofs about them.  `PROJECT.json` lists the components, the runs, the source lines
each definition stands for, the hazards and the findings.

## 1. Inventory

| Component | State | Operations | What is hard | Correct means | Module |
|---|---|---|---|---|---|
| **Upload, ingestion, storage** (`document_upload`, `file_ingestion`, `storage/`) | temporary and promoted files; documents, revisions, reports | receive, preflight, promote, insert, clean up | files and rows are not one transaction; two uploads of one document; lost acknowledgements | an answered upload has its file; a failed one leaves nothing; numbers form one chain | `DocumentUpload`, `TechnicalPreflight` |
| **Revision admission** (`revision_admission`) | status and authority of the revision, decision of the report | resolve, decide, repeat a decision | pages of different age | one decision, consistent with status and authority | `RevisionAdmission` |
| **Processing jobs, background execution** (`processing_job*`, `revision_extraction`) | attempts, lease token and expiry; tasks in memory | enqueue, retry, recover, claim, renew, complete, fail | zombie workers, restarts, duplicate dispatch | one active attempt; results only under a live lease | `ProcessingJobs`, `JobExecutor` |
| **Operator routes and page** (`routers/projects`) | objects cached by a request's session | load, decide, start, retry, recover | services run on rows the session read earlier | decisions are made on the rows that are locked | `RevisionLifecycle` |
| **Document extraction, content persistence** (`document_extraction`, `document_content`) | extraction runs, blocks, evidence | parse, persist a run | attempt numbers | runs are numbered densely | `JobExecutor` (the run), parsers not modelled |
| **Inference ledger** (`inference`) | inference runs | prepare, claim, complete, fail, give up as stale | calls outside transactions, retries, crashes | one open call, one answer | `InferenceLedger` |
| **Fact extraction** (`fact_extraction_orchestration`, `_execution`, `_persistence`) | orchestrations, batches, applications | claim, execute, persist, reconcile, finalize | leases, takeovers, partial failure | a batch is paid for within its attempts and applied once | `FactBatches`, `FactOrchestration` |
| **Facts, entities, effective values** (`fact`, `entity`, `effective_fact_value`) | facts, numbered values, entities, applications | persist a batch, human value, accept, reject | row locks in different orders, batches that must be whole | dense history, one accepted value, final decisions | `FactLedger`, `EffectiveValues` |
| **Duplicate grouping** (`fact_value_duplicate_grouping`) | groups and candidates, written once | derive, store, authenticate | sources that are incomplete; altered ledgers | a partition of exactly what completed batches stored | `DuplicateGrouping` |
| **Consistency checks** (`consistency_pipeline`, `consistency_check*`) | runs and the stored check | plan, assess, collect, store | concurrent callers, lost answers, abandoned runs | each batch answered once; the check cites what was said | `ConsistencyChecks` |
| **Consistency review** (`consistency_review`, `consistency_projection`, `frontend_api`) | decisions and selections | append a decision, read the current one | two reviewers, repeated submissions, revoked members | one chain without forks or lost decisions | `ConsistencyReview` |
| **Dynamic schema and views** (`dynamic_schema*`) | versions of a schema; projections | draft, activate, project, review, show | definition read in several statements; undecided facts | one active version; a view tells what is settled | `KnowledgeView` |
| **Project versions** (`project_version`) | frozen versions | create, repeat | sources that change while freezing | a version shows the moment of its insertion | `ProjectVersions` |
| **Revision differences, update impact** (`document_revision_*diff`, `_update_*`) | none | compare two revisions | moved and repeated blocks | nothing changed passes without review | `RevisionDifferences` |
| **LLM client, agents, planner** (`llm`, `agents/`) | none | plan the batches of a revision, ask with retries | limits of size, overlap, headings that go on, transient replies | every block is planned once under its heading; an answer is taken once | `FactPlanner` |
| **Review queries** (`review_query`) | none | list, detail, record of a version | limits, undecided facts | nothing undecided is hidden; what is listed can be decided | `ReviewQueries` |
| **Projects and identity** | users, members, credentials | sign in, create, join | revoked members | a decision has an author who may decide | roles in `ConsistencyReview` |
| **Demo data, pages, configuration; migrations** | seeds, schema | | | | section 7 |

Interactions: the upload request calls admission, then the job service, then hands the
job to a background task; operators call admission and the job service through the
revision page; the background task calls the job service and content persistence.
Fact extraction reads an extraction run, calls the provider through the inference
ledger, persists each answer in the fact ledger and starts the consistency pipeline
(grouping, candidates, check) when it ends.  Reviewers decide about assessments of the
check; effective values, schema projections and knowledge views are derived from the
ledgers on each read and authenticated against them; a project version freezes such a
view.  Rows are the only shared state and `SELECT ... FOR UPDATE` the only lock; file
store and provider are the two partners outside the database.

## 2. Plan

All steps are done, in this order: (1) the life of a revision; (2) review decisions and
project versions; (3) fact extraction; (4) upload; (5) facts; (6) consistency checks and
duplicate grouping; (7) the parts without state as operators against what they promise;
(8) proofs: about revision processing, uploads, review decisions, project versions, fact
extraction, the fact ledger and consistency checks, then about parts without state.
What could follow is in section 7.

## 3. Modules and code

Where a transaction locks its rows before it decides, it is one action, because it
leaves nothing when it fails; where the code splits its work over transactions or
sessions, reads before it locks, or takes locks statement by statement in different
orders, the model has one action per piece.  Abstract specifications state what a
component promises: `ExtractionLedger`, `RequestLog` and `DecisionLog`.

| Module | Code | State and actions |
|---|---|---|
| `RevisionStore` | models of revision, report, jobs, extraction runs | the rows; what ages with time |
| `RevisionAdmission` | `services/revision_admission.py` | automatic resolution, a person's decision, its repetition |
| `ProcessingJobs` | `services/processing_job.py` | enqueue, retry, recovery of idle and expired jobs, claim, renewal, completion, failure |
| `JobExecutor` | `processing_job_executor.py`, `_dispatch`, `revision_extraction.py` | dispatched tasks, workers between their three transactions, heartbeat, loss of the lease, death |
| `RevisionLifecycle` | `routers/projects.py`, the revision page | upload request, operators and the copies of rows their sessions hold, clock, restart; refines `ExtractionLedger` |
| `TechnicalPreflight` | `services/file_ingestion.py` | receiving in chunks, inspection by extension, verdict (operators) |
| `DocumentUpload` | `services/document_upload.py`, `storage/local.py` | requests from reception to commit; file store, rows, row lock of the document, compensation |
| `ConsistencyReview` | `services/consistency_review.py`, `frontend_api.py` | submissions from page to answer, the decision ledger; refines `DecisionLog` |
| `ProjectVersions` | `services/project_version.py` | creation of versions next to decisions |
| `InferenceLedger` | `services/inference.py`, the application of a run | runs of each batch: prepare, launch, complete, fail, give up as stale, apply |
| `FactBatches` | `services/fact_extraction_orchestration.py` | orchestrations and batch rows; which claim, registration, transition or completion a row admits |
| `FactOrchestration` | the same, `fact_extraction_execution.py`, `_persistence.py` | calls from claim to finalization; heartbeat, reconciliation, cancellation, death; refines `RequestLog` |
| `FactLedger` | `services/fact.py`, `entity.py`, `fact_extraction_persistence.py` | transactions with row locks and what they have written, deadlocks, entities that appear meanwhile |
| `DuplicateGrouping` | `services/fact_value_duplicate_grouping.py`, `consistency_check.py`, agents | source, groups, candidates, plan, packing, answers, citations (operators) |
| `ConsistencyChecks` | `services/consistency_pipeline.py`, `consistency_check_execution.py`, `_persistence.py` | callers that write three ledgers once and assess batches through `InferenceLedger` |
| `EffectiveValues` | `services/consistency_projection.py`, `effective_fact_value.py` | decision chains, review projection, effective values and their authentication (operators) |
| `DecisionRows` | `services/consistency_review.py` | the rows that a log of decisions about a check is stored in (operators) |
| `RevisionDifferences` | `services/document_revision_diff.py`, `_fact_diff.py`, `_update_impact.py`, `_update_workflow.py` | differences of blocks and facts, what an update asks to review (operators) |
| `RowSequences` | filters and sorts of the services above | rows picked and put in order (operators) |
| `KnowledgeView` | `services/dynamic_schema*.py`, snapshots of `project_version.py` | versions of a schema, projections, reviewed projection, view (operators) |
| `FactPlanner` | `agents/fact_extraction_planner.py`, `services/llm.py` | source blocks, batches with overlap and headings, attempts of a request (operators) |
| `ReviewQueries` | `services/review_query.py`, the context check of `frontend_api.py` | list, detail and version record (operators, on those of `KnowledgeView`) |
| `Derivations` | | takes one input of a part without state and states what must hold of it |

**Pages.**  `get_revision_detail_for_user` loads the revision, its report and its latest
job into the session of the request, and the services that follow lock rows without
refreshing these objects (`expire_on_commit=False`, no `populate_existing`).  A request
of `RevisionLifecycle` therefore carries a `Page`, and guards of the services read the
page where the code reads attributes loaded before, and the rows where the code reads
columns newly.  `ProcessingJobs` contains a branch that repairs a job whose run is
stored but not recorded (`UnlinkedRun`); `RunsMatchCompletions` shows that no reachable
state needs it.  The partial unique index for active jobs is left out, and
`OneActiveAttempt` shows that the locks suffice.  Time is two counters that a `Tick`
moves: the remaining lease of a job and the age of a revision.

**Uploads.**  File store and database are two systems, so each await is a place where
the request fails, is interrupted (cancellation is no `Exception`, so no handler cleans
up) or, at the commit, succeeds without being told.  Two exits lie outside every handler:
the comparison of the clock after the preflight, which leaves the temporary file, and a
rollback that raises, which skips the deletion of the promoted file (the row lock goes
with the connection).  The operations on files run in threads, and a cancellation does
not stop one that has begun (`Underway`).  The history variable `mishaps` keeps what went
wrong for each request, so that `LeftoversAreExplained` can ask for the right cause.
`.md` is treated as `.txt`, as the code inspects both alike.  Only revisions of an existing document wait for its row.

**Fact extraction.**  A worker of `FactOrchestration` is one call of
`execute_fact_extraction_orchestration`.  All orchestrations of the model have the same
request hash, hence the same plan and parameters; calls may share a worker token, as
those of the demo seed do.  A batch row refers to a run by its position, and an
application is a flag of its run, since there is one for each.  Failure codes are kept
as far as retrying and reconciling tell them apart.  Two branches are left out because
no state reaches them: a pending batch that has used all its attempts, and the repeated
completion of a run with the same answer.  The partial unique indexes for active runs
and orchestrations are left out too; `ImplementsRequestLog` and `EndedAgrees` show that
the locks suffice.

**Facts.**  A call of `FactLedger` is a transaction that locks one row per statement,
sees the committed rows overlaid with its own, and publishes at its commit.  Decisions
lock a value and then its fact, human values the fact and then the current value, and
batches the subjects in the order of their proposals, so transactions may wait for each
other; the database then aborts one (`BreakDeadlock`).  A subject key identifies a fact
here.  Aliases are made with their entity; a conflict of subjects cannot arise because
the canonical key determines the entity.

**Checks.**  The three ledgers (grouping, candidates, check) are written alike: look,
insert under a unique key that waits for an uncommitted row of another caller, commit,
or read again after the conflict.  Runs are those of `InferenceLedger`, taken as an
instance.  Any step of a call can fail or be cancelled, and any commit can succeed without
its caller knowing.  A caller records the failure of a run only if it has noted that it
claimed it, which it does after the commit of the claim (`ClaimUnseen`).  The history
variable `orphans` holds the runs that nobody is left to end; it is set by that step,
by `Dies` and by `FailureUnrecorded`, and no guard reads it.

**Parts without state.**  They are operators, extended by `Derivations`, whose
behaviours take one input of `MCDerivations` and check what is promised of it.  A
manifest stands for its hash: comparing hashes is comparing what is hashed.  Readers
read in several statements, and what they promise is that a torn read is refused and
never a mixture of two moments; SQLAlchemy's identity map keeps the rows it read
first.  Writers of schema versions hold the row of their schema and are sequential, so
a history is a sequence of drafts and activations; nothing in the code archives a schema.

**Reviews and versions.**  A submission reads the review projection (decisions and
selections by two statements), authorizes, locks assessment, user and membership,
decides and commits, then reads again for its answer.  The unique constraints on
decision numbers are left out on purpose: `OneChain` shows that the locks suffice.  A
creation of a version locks the project and later needs, by foreign key, a share lock on
its creator's row; a decision of the same user holds that row and needs, by foreign key,
the project.  PostgreSQL aborts one of the two; `AbortCreation` and `LoseAnswer` are
that outcome.

## 4. Runs

| Run | Instance | Shows |
|---|---|---|
| `requests` | 1 worker, 2 operators, 2 attempts, preflight passing, warning or rejecting | attempts never overlap (`OneActiveAttempt`), the status follows the runs, extraction only under admission |
| `workers` | 2 workers, 1 operator, 2 attempts, leases of 2 ticks | zombies: the whole invariant `Inv`, completion only under a live lease, the ledger implemented; a running job ends or its lease does |
| `review` | 2 users, 2 assessments, 2 submissions, 2 decisions | `DecisionsChain` (types and `OneChain`), repeated and stale submissions, `DecisionLog` implemented |
| `versions` | 2 creations, 2 version ids, 1 submission, 2 decisions | `VersionsMoveForward`: a version shows what is current when it is inserted, the newest is current |
| `upload` | 3 requests, 1 document, a text file and a file that is no PDF | `HistoryStaysLinear`, `FilesFollowAnswers`, `LeftoversAreExplained`; every upload ends |
| `fact_safety` | 2 calls, 2 tokens, 1 batch, 1 attempt, 2 orchestrations | requests sent once, `OutcomeIsBacked` (types, ended orchestrations, stored facts), ended orchestrations final, `RequestLog` implemented |
| `fact_returns` | 2 calls with one token, 1 batch, 2 attempts | requests within the attempts, answers kept, every call returns |
| `facts` | 2 sessions, 3 calls, 2 batches, 2 entities with one alias | `ValuesAreOrdered`, `AppliedIsWhole`, `NothingIsUndone`; every call ends |
| `checks` | 2 callers, 2 batches, 1 failure, cancellation or lost answer, 1 death or unrecorded failure | `ToldIsBacked`, `AnsweredOnce`, `OnlyFaultsAbandon`; the check gets stored unless a run was abandoned |
| `derive` | about 52,000 inputs of fourteen kinds | the promises of the parts without state, grouped by part |

**Why the bounds are enough.**  Two of each kind of actor are what the races need: every
lock and lease is held by one and wanted by another.  Two attempts give every pair of
an old and a new one; leases of one tick are live or expired, and `workers` uses two so
that a renewal differs from an unchanged lease.  Two decisions suffice for a decision
taken over by another and for a repetition that finds its own decision passed over; the
proofs cover any number.  Three uploads are one that creates the document and two that
revise it at once.  For fact extraction, `fact_safety` has the retry by another
orchestration and `fact_returns` the retry within one; a single batch is enough for what
concerns a batch, since batches of a plan meet only in the order of a call and in the
outcome.  The outcome "partial", which needs two batches, is beyond these bounds; the
proofs of section 6 include it.  In `facts`, three calls are two that meet and one that
follows.  In `checks`, one failure and one loss reach every branch of a batch, and the
second batch is assessed after the first failed and was asked for again.  The inputs of
`derive` go to two or three values, facts, blocks, fields and decisions: each promise
relates at most two of them to a third.

Deadlock is not checked where the system may stop: when the bounded calls or uploads are
made, when every input is checked, and because a completed orchestration or a stored
check is only read again.

Properties with a conjunction of named parts state one question each: `Inv` (with
`StoreInv`), `DecisionsChain`, `HistoryStaysLinear`, `FilesFollowAnswers`,
`OutcomeIsBacked`, `ValuesAreOrdered`, `NothingIsUndone`, `ToldIsBacked`,
`VersionsMoveForward`, and those of `Derivations`, such as `RequestsAreRight` (planning,
packing and the client's retries), `UpdatesAreReviewed` and `ViewsTellTheTruth`.

**Runs that end in a violation** record where the code does not do what it says:

| Run | What happens |
|---|---|
| `decision_overwritten` | two operators decide differently from pages loaded before; the later one wins although the code refuses to overwrite |
| `replay_works` | a batch is stored while its subject is unknown; the entity is created and a later proposal binds the fact to it; the application of the batch can no longer be replayed or authenticated |

Further disagreements are stated by definitions without a run of their own.  Each is
violated when it is added to the configuration of its module's run:

- `ResultIsNotReopened` (`RevisionLifecycle`): recovery from an old page sends an
  extracted revision back to accepted.
- `WaitingIsForSomething`: admission fails after the commit of the upload; nothing can
  continue the revision, although page and notice promise it.
- `OfferedRecoveryWorks`: the page offers to recover a revision whose job is still
  queued, and the service refuses.
- `RetryIsAnswered` (`ConsistencyReview`): a decision whose answer was lost is refused
  when it is sent again, because its target needs no review any more.
- `IntactLedgerIsReadable`: a decision that commits between two statements of a reader is
  reported as drift of the source.
- `AppliedCanBeFinished` (`FactOrchestration`): after a partial orchestration the unique
  application id keeps a batch that was done before from being completed again, and the
  call fails for good.  It needs the two batches of a partial outcome.
- `ReconcilesOwnBatch`: a call whose batch was taken over rewrites it after the new owner
  has failed it.
- `ResponsesCanBeStored` (`FactLedger`): a response that states one value of one subject
  twice with different evidence is accepted by the schema and can never be persisted.
- `CheckSurvives` (`ConsistencyChecks`): a caller that dies, cannot record its failure,
  or never learns that it has claimed its run, leaves the run running; unlike in fact extraction nothing gives it up as stale, and the
  check is refused for good.

Hazards seen and left out of the list, because no text promises otherwise or because
another entry has the same cause: a caller of an orchestration that dies before it
finalizes (`fact_extraction_orchestration.py:2343`; a later call finalizes); one failed
renewal that ends a call (`:1532`); errors of the database classified as invalid
responses (`fact_extraction_execution.py:438`); a repeated creation of a version that is
refused because the decisions moved on, the wait of creation and decision for each
other, and creations that exhaust the connection pool (`project_version.py:1342`,
`:1285`, `:1352`); a request that the endpoint refuses with
another 4xx status, which the client does not repeat but the orchestration does, because
`llm_transport_error` is among its retryable codes (`fact_extraction_orchestration.py:82`);
and the list of review items, which is authenticated without the limit on their number.

## 5. Fairness

- `RevisionLifecycle`: weak fairness of `WorkerStep(w)` (the event loop runs every
  coroutine that can run, and each step of an extraction is bounded work) and of `Tick`
  (the clock advances).  Nothing is assumed of operators, restarts or heartbeats; a
  heartbeat keeps a lease alive only as long as its worker runs, which is why
  `LeaseEventuallyEnds` holds.
- `DocumentUpload`: weak fairness of what a handler does when all goes well (`Handle`),
  the rollback and the deletion after a failure included; nothing is assumed to fail.  Strong fairness of `LockDocument`, because PostgreSQL
  queues the transactions that wait for a row and grants it in turn.
- `FactOrchestration`: weak fairness of `Step(w)`; the client of the provider has
  timeouts, so a request to it ends in one way or another.  Nothing is assumed of
  heartbeats, leases, cancellations or new calls.
- `FactLedger`: strong fairness of `Step(c)`, again because of the queues of row locks,
  and weak fairness of `BreakDeadlock(c)`, the deadlock detection of PostgreSQL.
- `ConsistencyChecks`: weak fairness of what a caller does and of `Start(c)`: a check that
  failed is asked for again, as
  `test_execute_consistency_check_plan_recovers_after_midway_failure` does.  Failures are
  bounded, so a provider that never answers is not what the property is about.

## 6. Proofs

TLC checks the instances of section 4; TLAPS proves what follows for every value of the
constants.  A proof module extends the modules it is about and holds for each of them one
inductive invariant, a lemma for each kind of step and short theorems that follow from it.
Every invariant of the runs is the statement of a theorem, except those of the two runs
that find a disagreement.

**`RevisionProofs`** is first about `RevisionLifecycle`.  `TypeCorrect` proves `TypeOK`.
`Invariance` proves `Inv`, the conjunction of `TypeOK`, `StoreInv`, `WorkersHaveClaimed`
and `OneWorkerPerAttempt`; `Safety` takes `OneActiveAttempt` and its companions from it.
What makes it inductive is `AttemptsAreDense`, without which a new attempt could take a
number in use, and `WorkersHaveClaimed`, without which a worker could complete an attempt
that is still queued or whose run exists.  Steps are grouped by the kind of transaction
(`OperatorStep`, `AdmissionStep`, `JobStep`, `CompleteStep`, `QuietStep`), each with what
it may change, so that an action of a request, a worker or the clock only has to be
recognised as one of them.  `LeaseProtectsCompletion` proves `CompletedUnderLease`, and
`Implements` that the specification implements `ExtractionLedger`.  `StatusTheorem` and
`AdmissionTheorem` take `StatusTellsLastRun` and `ExtractionIsAdmitted` from the parts of
`Inv`.

For `DocumentUpload`, how a revision comes to be, `UploadInv` adds to the properties:
`TargetsFit` (a request that creates a document is alone with it until the commit),
`LocksFit` (the open transactions on an existing document hold its row, and nobody else
does but a failed one that is still to be rolled back),
`RowsFit` (a row is the work of a request that committed, whether or not it was told),
`ChoiceFits` (what is about to be committed continues the newest row) and `FilesFit`
(where the files of a request can be in each stage, and after which mishap, and that it
never has both a temporary and a stored file).  `ChoiceFits` is what
`HistoryIsLinear` needs at a commit, and the locks are what keeps it true meanwhile;
`RowsFit` and `FilesFit` tie a row to its file. `HistoryTheorem`, `FilesTheorem` and
`FailureTheorem` prove the three invariants of the run `upload`.  `VerdictTheorem` is
about the preflight alone: for every file, what is admitted is readable and of its kind,
and what is stopped has a blocking flag.

**`ConsistencyProofs`** is first about `ConsistencyReview`.  `ReviewInv` is `TypeOK` with
`SubmissionsFit`, `LocksFit` and `ChainsFit`; the last says for an arbitrary sequence of
decisions that numbers of an assessment are dense and unique and that each decision
supersedes the one before, which makes the newest decision a function of the sequence.
An append by the holder of the assessment's lock keeps it, and chains of other
assessments do not change. `ChainTheorem` proves `DecisionsChain`, `RepetitionTheorem`
`CommittedIsNotStale`, `SeenTheorem` `SupersedesWhatWasSeen`, and `Implements` the
refinement of `DecisionLog`.

For `ProjectVersions`, which extends that module, `VersionsInv` is `ReviewInv` with
`VersionsTypeOK`, `OneCreation` (the lock of the project), `CreationsFit` (a creation
that has read how many decisions there are, or has prepared its view, still has the
present before it) and `NewestIsCurrent`.  `CreationsFit` rests on a lock
that nobody takes for this purpose: a decision refers to its project by a foreign key,
so it waits at its commit for a creation that holds the project, and the view that was
prepared cannot grow old.  `ForwardTheorem` proves `VersionsMoveForward`; `LaterTheorem`
adds that no version shows an older state of an assessment than the one before it, which
no run states.

For `ConsistencyChecks`, `ChecksInv` joins the runs and what they said (`LedgerInv`: only
the newest run of a batch is not failed), what each caller remembers (`CallsFit`: the
answers it has collected are those of completed runs of the plan), the rows (`RowsInv`,
`CommitHeld`: who is about to commit a ledger has inserted it), `StoredFits` and
`RunningIsOwned`: a running run has a caller that has noted it and will end it, or it is
among the `orphans`.  Runs only grow (`Grown`), so the memory of the others
stays right whatever one caller does.  `BackedTheorem`, `AnsweredTheorem` and
`AbandonTheorem` prove the three invariants of the run `checks`; `WrittenOnceTheorem`,
that no step changes a written ledger or the answer of a completed run.

**`FactOrchestrationProofs`.**  `FactInv` consists of the invariant of the runs (types,
and of the runs of a batch only the newest is not failed), that of the orchestrations
(types, `EndedAgrees`, `CompletedIsApplied`), `WorkersFit` (what a call remembers from
earlier transactions still fits runs and rows) and `OneCallPerRun`.  The proof follows
the structure of the program: an operation on a run keeps the invariant of the runs, is
a step of `RequestLog`, and only lets runs grow; a change of a batch row, a new
orchestration and a finalization keep that of the rows; since runs only grow, the memory
of the other calls stays right, and each action of a call is one such operation with a
new memory of its own.  `OneCall`, `Backed`, `EndTheorem`, `AnswerTheorem` and
`Implements` follow, among them the outcome "partial" that the runs do not reach.
`AttemptsTheorem` proves `CallsWithinAttempts`, which counts over all orchestrations.  Its
invariant `PaidInv` does not count: it asks for an injection of the runs that were sent
into the attempts that were granted, which leaves out every attempt still to be spent
(`Charged`).  A launch extends the injection by the attempt of its call, and a takeover,
a cancellation or a reconciliation can only spend what no run was charged to.

**`FactLedgerProofs`.**  `LedgerInv` is about what a transaction sees of a name: the
committed rows overlaid with those it has written.  `SeesFits` says that this is in order
(one fact, dense numbers, only the current value accepted), no older than what is
committed, keeps the entity of the fact, and holds of each run exactly the values its
application lists.  It holds for the rows themselves, seen by a call that has written
nothing, and for every open transaction (`TxFits`, with what it has locked at each stage
and that it writes only to facts it has locked).  A commit publishes what its transaction
saw; for the others it changes only names whose fact they have not locked, and of these
they have written nothing.  `OrderTheorem`, `WholeTheorem` and `UndoneTheorem` prove
`ValuesAreOrdered`, `AppliedIsWhole` and `NothingIsUndone` for any number of calls.

**`DerivationsProofs`** is about parts without state, for every input of their form.
`PreflightTheorem`: receiving is a fold over the pieces into which all chunks are cut;
after each piece the state tells how many bytes came before (`Counted`), and cutting and
joining chunks keeps their total, so the verdict does not depend on the chunks.
`GroupingTheorem`: source, groups and candidates, with counts turned into the existence of
two different members.  `SchemaTheorem`: the schemas of any history are each well-formed
(`SchemaFits`) and each `Later` than those before, which is transitive and settles what a
reader can find in three queries at different moments.  `BlocksTheorem`,
`UpdatesTheorem` and `EffectiveTheorem` prove `BlocksAreMatched`, `UpdatesAreReviewed` and
`EffectiveIsCurrent` from the lemmas of `OperatorProofs`, on which `RequestProofs` and
`ViewProofs` rest too.

`AlterationsTheorem` proves `AlterationsAreRefused`.  What is stored of a candidate, a
check, a log or the rows of a source is what it was derived from, so it is accepted when
it is read; a selection that was lost, a member altered or a row removed changes a count
or a set that the reader compares with what it derives again, whichever row it was.  For
a torn read the two parts of the ledger are those of two lengths of one log: a selection
in between is a stranger to the first or missing from the second.

`RequestsTheorem` proves `RequestsAreRight` from the lemmas of **`RequestProofs`**, an
induction over each fold the requests come from.  *Packing* (`PackedTight`): after each
candidate, all but the last batch are full and their concatenation is what was packed.
*Sources* (`SourceChecked`): the sorted blocks are the only sequence that has each block
at its order, so the order of arrival is lost and any missing block noticed.  *Plans*
(`PlanIsGood`): after every round, `GoodPlan` says that the blocks before the cursor are
covered once and in turn, that each request `Stands`, and that the last one shows the
heading of its first block if it repeats any (`HeadingShown`).  The last part is what
makes the invariant inductive: the next request takes the end of the last one as its
overlap (`Upper`), and its heading is current because either the overlap holds it or it
is the heading before.  `EndIs` proves that the end of a request is nearest to the
target: characters grow with every block (`LongerHasMore`), so the first message that
reaches the target and the one before it are the only candidates.  `NextIs` proves that
what is given up of the overlap would not have fitted, since attempts are made from the
longest to the shortest (`BestIs`) and the shorter fit where the longer do (`LessFits`).

`ViewsTheorem` proves `ViewsTellTheTruth` from the lemmas of **`ViewProofs`**.  The raw
projection, the reviewed one and the view are described place by place: what is at the
`i`-th subject and the `j`-th field is a function of the facts that belong there and of
the decisions about them (`RawShape`, `ReviewedShape`, `ViewShape`; `RawProjectionIs`,
`ReviewedProjectionIs` and `ViewIs` prove them).  The sections of a record are its fields
rearranged, so nothing is lost or repeated (`FieldsSeenAre`), and the totals which a
reader compares with what he counts are sums over the same places: hence what was built
is accepted (`RawIsAuthentic`, `ReviewedIsAuthentic`, `ViewAuthentic`,
`VersionAuthentic`). `ReviewBinds` says that each effective item about a fact that is
shown binds to that fact; where it fails the code raises and there is no view to speak
of.  A fact has at most one effective item, so what one field says of it every field
says, and a field with an undecided fact needs a review and shows none of its values
(`UndecidedField`).  The lists are sets of items in the order of `Ahead`, a total order
of the places of different facts (`AheadOrders`): a list whose limit is not reached is
the whole set, one whose limit is reached is the beginning of it (`ListedTells`), open
items come first, and `OpenIs` and `OpenAreShown` compare what is open with what
`MayDecide` admits and with the fields of the view that need a review.

**`OperatorProofs`** is about the operators of `RevisionDifferences`, for any two
sequences of blocks and any finite sets of rows, of `EffectiveValues` and `DecisionRows`,
for any log of decisions, and of `DuplicateGrouping`.  A block has at most one match of
at most one kind (`MatchesAreFit`), so the items of a difference show exactly what the
matches tell, each once (`DiffShowsMatches`).  Counts agree because matched positions of
both sides are in bijection (`PairsAreCounted`) and the five kinds partition the items
(`KindsMakeTheWhole`). Exchanging the sides exchanges the two blocks of each match, kind
by kind (`MatchesMirror`), hence those of each item (`DiffMirrors`).  A difference of
facts lists each fact of either side once (`FactDiffTells`), because the number of
members below gives each its place (`RanksDiffer`, `RankedIs`); an impact built of it and
of contexts that fit is accepted (`ImpactIsAuthentic`), and what passes without review
kept its meanings and was settled (`PassesOnlyIf`).  The rows of a decision stand
together in what a log stores (`Blocks`, by induction over the log), so a reader gets
what was selected (`SelectedIs`); the last row picked is the latest about its assessment
(`LastPicked`), on which alone an item depends (`Tells`): hence logs that end alike
resolve alike (`EndsAlike`), and each item passes its checks and is counted once by its
status (`ItemHolds`, `ItemsAreCounted`).  These, like the proofs of `DerivationsProofs`,
need induction over a sequence.  The induction principles of the library take an
operator, which the provers cannot instantiate, so the module starts with principles over
sets: a nonempty set of numbers has a least element (`LeastNumber`), hence `Induction`,
hence the states a fold goes through exist (`FoldExists`).  For the same reason filters
and sorts are defined by places and ranks (`Picked` and `Sorted` of `RowSequences`): the
provers know nothing of `SelectSeq` and `SortSeq`.

**Assumptions.**  The constants: `StoreAssumption` for revision processing,
`UploadAssumption` and `PreflightAssumption` for uploads, `KindsAreDecisionKinds` and
`ReviewAssumption` for decisions, `TokensAssumption`, `AttemptsAssumption` and
`BatchCountAssumption` for fact extraction, `LedgerAssumption` and `NoneAssumption` for
facts, `ChecksAssumption` and `PlanAssumption` for checks, `InputsAssumption` for the
parts without state.  They say that limits are natural numbers, that the value which
stands for "none" is no user, token, run or request, that kinds of decisions and outcomes
are those of the code, that uploads are files and responses sequences of proposals, that
the plan of a check is a sequence of batches of candidates that fit, and that inputs have
the form the database gives them: finite sets of values with ids of their own, one row
for each batch of an orchestration, candidates of values of one fact each, blocks of one
of the six types the column allows, blocks of a source that are not empty, limits that
are numbers, at least one reply, rows of facts with ids, effective values that were
authenticated, decisions that were accepted when they were stored, and for a view known
facts with ids of their own and at most one effective item for each.  TLC evaluates each
of them on the instances of section 4.

**Only model-checked.**  Liveness under fairness, which is out of the prover's reach, as
`ENABLED` is: `LeaseEventuallyEnds`, and that every upload, call and check ends.  The two
runs that expect a violation show a disagreement on an instance and have nothing to prove.

## 7. Not modelled

- Parsers of documents (DOCX, PDF, text): functions of a file.  A worker's extraction
  succeeds or fails.
- Of the agents: parsing of JSON, the registry of prompts, validation of requests, the
  mock client.  Rendered messages are modelled by their length.
- Identity: signing in, sessions, invitations.  The membership role on which a decision
  depends is part of `ConsistencyReview`.
- Demo data, pages, configuration, health checks: input and output without a protocol.
  Rendering, forms, CSRF tokens and logging.
- Migrations.  Constraints are part of a module where a step depends on one.
- Hashes.  Rows and manifests are compared instead, so two different ones never collide.
- Aliases that are added or retired after their entity was made.
- The start of the consistency pipeline by an orchestration that has ended:
  `ConsistencyChecks` starts callers at any time.
- `create_inference_run` and `start_inference_run`, which the extraction and the checks
  do not use.
- `_reject_recovery_for_terminal_revision_status`, which nothing calls.
