---------------------------- MODULE RevisionStore ----------------------------
(***************************************************************************)
(* The PostgreSQL rows that one document revision owns, and what a         *)
(* SQLAlchemy session does to them.                                        *)
(*                                                                         *)
(* A transaction of the application takes the row lock of the revision (or *)
(* of the job) with SELECT ... FOR UPDATE, computes, and commits or rolls  *)
(* back as a whole, so a transaction is one atomic step.  What it computes *)
(* WITH is another matter: sessions are created with expire_on_commit off  *)
(* and no query asks for populate_existing, so a row a session has already *)
(* loaded keeps the attributes of that first load even after the locking   *)
(* SELECT.  Operators that run in such a session take the copy as `seen'.  *)
(*                                                                         *)
(* Time is counted down: a lease is the number of ticks it still has, the  *)
(* age of a row the number of ticks since updated_at.                      *)
(***************************************************************************)
EXTENDS Naturals, Sequences

CONSTANTS
    Workers,            \* background tasks that may run at the same time
    NoWorker,           \* the null lease_token
    MaxAttempts,        \* BOUND: processing jobs one revision may get
    LeaseTicks,         \* length of a lease (900 s in the code)
    StaleTicks,         \* settings.processing_stale_minutes
    PreflightOutcomes,  \* report outcomes an upload may produce
    ExtractionOutcomes  \* outcomes a document extraction may produce

ReportOutcomes == {"pass", "warning", "reject", "quarantine"}
RunOutcomes    == {"success", "partial", "needs_ocr", "failed"}

ASSUME StoreAssumption ==
    /\ NoWorker \notin Workers
    /\ MaxAttempts \in Nat
    /\ LeaseTicks \in Nat \ {0}
    /\ StaleTicks \in Nat \ {0}
    /\ PreflightOutcomes \subseteq ReportOutcomes
    /\ ExtractionOutcomes \subseteq RunOutcomes

VARIABLES
    revision,   \* the document_revisions row
    report,     \* its ingestion_validation_reports row
    attempts,   \* the number of processing_jobs rows
    job,        \* those rows by attempt_no
    runs        \* outcomes of its extraction_runs rows, by attempt_no

storeVars == <<revision, report, attempts, job, runs>>

Attempts == 1..MaxAttempts

\* "uploaded" and "completed" are legal values no operation ever writes.
RevisionStatus ==
    {"preflight_checking", "rejected", "needs_confirmation", "quarantined",
     "accepted", "parsing", "extracting", "awaiting_review", "failed"}
Decisions   == {"continue_formal", "continue_reference", "cancel"}
Authorities == {"pending", "formal", "reference"}

Revision == [status : RevisionStatus, authority : Authorities, age : 0..StaleTicks]
Report   == [outcome : ReportOutcomes, decision : Decisions \cup {"none"}]

\* An absent row, and the shapes the CHECK constraints of the table allow: only
\* a running job has a token and a lease, only a completed one has a result.
NoJob == [status |-> "absent", token |-> NoWorker, lease |-> 0, run |-> 0]
QueuedJob == [status |-> "queued", token |-> NoWorker, lease |-> 0, run |-> 0]
FailedJob == [status |-> "failed", token |-> NoWorker, lease |-> 0, run |-> 0]
Job == {NoJob, QueuedJob, FailedJob}
       \cup [status : {"running"}, token : Workers, lease : 0..LeaseTicks, run : {0}]
       \cup [status : {"completed"}, token : {NoWorker}, lease : {0}, run : Nat \ {0}]

ActiveStatus   == {"queued", "running"}
TerminalStatus == {"completed", "failed"}
ActiveAttempts == {a \in Attempts : job[a].status \in ActiveStatus}

StoreTypeOK ==
    /\ revision \in Revision
    /\ report \in Report
    /\ attempts \in 0..MaxAttempts
    /\ job \in [Attempts -> Job]
    /\ runs \in Seq(RunOutcomes)

\* upload_document_for_project: technical preflight decides the first status.
UploadedStatus(outcome) ==
    CASE outcome = "reject"     -> "rejected"
      [] outcome = "quarantine" -> "quarantined"
      [] OTHER                  -> "preflight_checking"

StoreInit ==
    /\ \E outcome \in PreflightOutcomes :
         /\ report   = [outcome |-> outcome, decision |-> "none"]
         /\ revision = [status |-> UploadedStatus(outcome),
                        authority |-> "pending", age |-> 0]
    /\ attempts = 0
    /\ job = [a \in Attempts |-> NoJob]
    /\ runs = << >>

\* The unit of work writes the attributes that differ from the loaded copy and
\* no others; when it writes any, onupdate renews updated_at.
Flush(row, seen, status, authority) ==
    [status    |-> IF status # seen.status THEN status ELSE row.status,
     authority |-> IF authority # seen.authority THEN authority ELSE row.authority,
     age       |-> IF status # seen.status \/ authority # seen.authority
                   THEN 0 ELSE row.age]

Older(age)    == IF age < StaleTicks THEN age + 1 ELSE age
Shorter(left) == IF left > 0 THEN left - 1 ELSE left

\* One tick of the wall clock for every stored timestamp.
AgeStore ==
    /\ revision' = [revision EXCEPT !.age = Older(revision.age)]
    /\ job' = [a \in Attempts |-> [job[a] EXCEPT !.lease = Shorter(job[a].lease)]]
    /\ UNCHANGED <<report, attempts, runs>>
==============================================================================
