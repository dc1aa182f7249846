--------------------------- MODULE ConsistencyChecks ---------------------------
(***************************************************************************)
(* The pipeline that follows an extraction (app/services/                  *)
(* consistency_pipeline.py): each caller makes sure that the duplicates    *)
(* are grouped and the candidates recorded, has the model assess them      *)
(* batch by batch and stores the result.  Callers of the same extraction   *)
(* run at the same time, fail, die and are called again.                   *)
(***************************************************************************)
EXTENDS DuplicateGrouping

CONSTANTS
    Callers,
    Nil,           \* no caller, no text
    Extracted,     \* values the completed batches of the extraction may have
    Config,        \* the limits of a batch of the check
    MaxBatches,    \* bound on the batches of the check
    Texts,         \* assessments the model may return
    MaxFailures,   \* bound on errors, cancellations and lost answers
    MaxLosses      \* bound on callers that die and on failures not recorded

\* Whoever builds it, the plan of the same values is the same.
PlanOf(values) == CheckBatches(Bundles(ConsistencyCandidates(values)), Config)

ASSUME ChecksAssumption ==
    /\ Nil \notin Callers
    /\ MaxBatches \in Nat \ {0} /\ MaxFailures \in Nat /\ MaxLosses \in Nat
    /\ \A values \in Extracted :
         /\ Plannable(Bundles(ConsistencyCandidates(values)), Config)
         /\ Len(PlanOf(values)) <= MaxBatches

\* What a plan is: batches, each a sequence of candidates.
ASSUME PlanAssumption ==
    \A values \in Extracted : PlanOf(values) \in Seq(Seq(SUBSET values))

Ledgers == {"grouping", "candidates", "check"}

VARIABLES
    extraction,   \* the status the extraction ended with
    plan,         \* the batches of candidates to assess
    writer,       \* who wrote each ledger, or Nil
    inserting,    \* who holds an uncommitted row of the ledger, or Nil
    runs,         \* inference runs of each batch
    said,         \* the text each completed run answered
    stored,       \* the runs and texts the stored check is made of
    call,         \* what each caller does and remembers
    failures, losses,
    orphans       \* history: the runs whose caller died, never learnt that it had claimed
                  \* them, or could not record that they failed

checkVars == <<extraction, plan, writer, inserting, runs, said, stored, call,
               failures, losses, orphans>>
rows == <<extraction, plan, writer, inserting, stored>>
counts == <<failures, losses, orphans>>

INSTANCE InferenceLedger WITH BatchCount <- MaxBatches

\* at: the ledger it writes; told: the ledgers it was given; batch: the batch it works on; run: the run it
\* was given for it, 0 without; claimed: it may complete that run; runs and
\* texts: what it has collected.
Idle == [stage |-> "idle", at |-> "grouping", told |-> [l \in Ledgers |-> Nil], batch |-> 1,
         run |-> 0, claimed |-> FALSE, runs |-> << >>, texts |-> << >>]

CheckStages == {"idle", "write", "insert", "commit", "reread",
                "execute", "claim", "call", "complete", "fail"}

Call == [stage : CheckStages, at : Ledgers, told : [Ledgers -> Callers \cup {Nil}],
         batch : 1..MaxBatches + 1, run : Nat, claimed : BOOLEAN,
         runs : Seq(Nat), texts : Seq(Texts \cup {Nil})]

CheckInit ==
    /\ extraction \in {"completed", "partial", "failed"}
    /\ \E values \in Extracted : plan = PlanOf(values)
    /\ writer = [l \in Ledgers |-> Nil]
    /\ inserting = [l \in Ledgers |-> Nil]
    /\ LedgerInit
    /\ said = [b \in Batches |-> << >>]
    /\ stored = [runs |-> << >>, texts |-> << >>]
    /\ call = [c \in Callers |-> Idle]
    /\ failures = 0 /\ losses = 0 /\ orphans = {}

Goes(c, t) == call' = [call EXCEPT ![c] = t]
Enters(c, stage) == Goes(c, [call[c] EXCEPT !.stage = stage])
Ends(c) == Goes(c, Idle)
AtLedger(c, stage, l) == call[c].stage = stage /\ call[c].at = l

-----------------------------------------------------------------------------
(* The three ledgers are written alike. *)

\* Nothing follows a failed extraction.
Start(c) ==
    /\ call[c].stage = "idle" /\ extraction # "failed"
    /\ Enters(c, "write")
    /\ UNCHANGED <<rows, runs, said, counts>>

\* The ledger is given to the caller, who goes on with the next stage; with the
\* check the call is over.
Given(c, l, id) ==
    IF l = "check" THEN Idle
    ELSE [call[c] EXCEPT !.stage = IF l = "grouping" THEN "write" ELSE "execute",
                         !.at = "candidates", !.told[l] = id]

\* What a caller has collected is what the stored runs say.
Authentic(c) ==
    \A b \in DOMAIN plan : plan[b] # << >> =>
        /\ Status(b, call[c].runs[b]) = "completed"
        /\ said[b][call[c].runs[b]] = call[c].texts[b]

\* The stored ledger is the one this caller would write.
Agrees(c, l) ==
    l = "check" => stored = [runs |-> call[c].runs, texts |-> call[c].texts]

Lookup(c, l) ==
    /\ AtLedger(c, "write", l)
    /\ Goes(c, IF (l = "check" /\ ~Authentic(c)) \/ (writer[l] # Nil /\ ~Agrees(c, l))
               THEN Idle
               ELSE IF writer[l] # Nil THEN Given(c, l, writer[l])
               ELSE [call[c] EXCEPT !.stage = "insert"])
    /\ UNCHANGED <<rows, runs, said, counts>>

\* The unique key: an insert waits for the one that is not committed yet, and
\* fails when there is one.
Insert(c, l) ==
    /\ AtLedger(c, "insert", l)
    /\ inserting[l] = Nil
    /\ IF writer[l] = Nil
       THEN /\ inserting' = [inserting EXCEPT ![l] = c]
            /\ Enters(c, "commit")
       ELSE /\ Enters(c, "reread")
            /\ UNCHANGED inserting
    /\ UNCHANGED <<extraction, plan, writer, stored, runs, said, counts>>

Written(c, l) ==
    /\ writer' = [writer EXCEPT ![l] = c]
    /\ inserting' = [inserting EXCEPT ![l] = Nil]
    /\ stored' = IF l = "check"
                 THEN [runs |-> call[c].runs, texts |-> call[c].texts] ELSE stored
    /\ UNCHANGED <<extraction, plan, runs, said>>

CommitLedger(c, l) ==
    /\ AtLedger(c, "commit", l)
    /\ Written(c, l)
    /\ Goes(c, Given(c, l, c))
    /\ UNCHANGED counts

\* The commit succeeds, its caller sees an error.
CommitUnseen(c, l) ==
    /\ AtLedger(c, "commit", l)
    /\ failures < MaxFailures /\ failures' = failures + 1
    /\ Written(c, l)
    /\ Ends(c)
    /\ UNCHANGED <<losses, orphans>>

\* (Mutant of Reread: the caller keeps the id it had made up.)
RereadOwn(c, l) ==
    /\ AtLedger(c, "reread", l)
    /\ Goes(c, Given(c, l, c))
    /\ UNCHANGED <<rows, runs, said, counts>>

\* After the conflict the committed ledger is read in a new session.
Reread(c, l) ==
    /\ AtLedger(c, "reread", l)
    /\ Goes(c, IF writer[l] = Nil \/ ~Agrees(c, l) THEN Idle
               ELSE Given(c, l, writer[l]))
    /\ UNCHANGED <<rows, runs, said, counts>>

-----------------------------------------------------------------------------
(* The batches of the check. *)

\* The batch is assessed: the caller goes on with the next one.
Collect(c, r, text) ==
    Goes(c, [call[c] EXCEPT !.stage = "execute", !.batch = @ + 1, !.run = 0,
                            !.claimed = FALSE, !.runs = Append(@, r),
                            !.texts = Append(@, text)])

AllAssessed(c) ==
    /\ call[c].stage = "execute" /\ call[c].batch > Len(plan)
    /\ Goes(c, [call[c] EXCEPT !.stage = "write", !.at = "check"])
    /\ UNCHANGED <<rows, runs, said, counts>>

SkipEmpty(c) ==
    /\ call[c].stage = "execute" /\ call[c].batch \in DOMAIN plan
    /\ plan[call[c].batch] = << >>
    /\ Collect(c, 0, Nil)
    /\ UNCHANGED <<rows, runs, said, counts>>

PrepareBatch(c) ==
    LET b == call[c].batch  r == PreparedRun(b) IN
    /\ call[c].stage = "execute" /\ b \in DOMAIN plan /\ plan[b] # << >>
    /\ PrepareRun(b)
    /\ said' = IF Reusable(b) THEN said ELSE [said EXCEPT ![b] = Append(@, Nil)]
    /\ IF Reusable(b) /\ Status(b, r) = "completed"
       THEN Collect(c, r, said[b][r])
       ELSE Goes(c, [call[c] EXCEPT !.stage = "claim", !.run = r])
    /\ UNCHANGED <<rows, counts>>

ClaimPending(c) ==
    /\ call[c].stage = "claim"
    /\ LaunchRun(call[c].batch, call[c].run)
    /\ Goes(c, [call[c] EXCEPT !.stage = "call", !.claimed = TRUE])
    /\ UNCHANGED <<rows, said, counts>>

\* The claim takes effect, but its caller sees an error or is cancelled before it has
\* noted the run: its handlers have nothing to record.
ClaimUnseen(c) ==
    LET b == call[c].batch  r == call[c].run IN
    /\ call[c].stage = "claim"
    /\ failures < MaxFailures /\ failures' = failures + 1
    /\ LaunchRun(b, r)
    /\ orphans' = orphans \cup {<<b, r>>}
    /\ Ends(c)
    /\ UNCHANGED <<rows, said, losses>>

\* Another caller was faster: its answer is used, its work is not repeated, and a
\* run that it has failed meanwhile is refused.
ClaimOther(c) ==
    LET b == call[c].batch  r == call[c].run IN
    /\ call[c].stage = "claim" /\ Status(b, r) # "pending"
    /\ \/ Status(b, r) = "completed" /\ Collect(c, r, said[b][r])
       \/ Status(b, r) \in {"running", "failed"} /\ Ends(c)
    /\ UNCHANGED <<rows, runs, said, counts>>

Answered(c) ==
    /\ call[c].stage = "call"
    /\ Enters(c, "complete")
    /\ UNCHANGED <<rows, runs, said, counts>>

\* What follows an error while a run is executed.
Abort(c) == IF call[c].claimed THEN Enters(c, "fail") ELSE Ends(c)

\* The provider fails, the answer is not acceptable, the call is cancelled or the
\* completion is rolled back.
NotAnswered(c) ==
    /\ call[c].stage \in {"call", "complete"}
    /\ failures < MaxFailures /\ failures' = failures + 1
    /\ Abort(c)
    /\ UNCHANGED <<rows, runs, said, losses, orphans>>

\* Whoever has a row of a ledger in an open transaction loses it with the connection.
RolledBack(c) ==
    /\ inserting' = [l \in Ledgers |-> IF inserting[l] = c THEN Nil ELSE inserting[l]]
    /\ UNCHANGED <<extraction, plan, writer, stored, runs, said>>

\* Any other step fails or is cancelled: nothing was claimed, the call is over.
Breaks(c) ==
    /\ call[c].stage \in CheckStages \ {"idle", "call", "complete", "fail"}
    /\ failures < MaxFailures /\ failures' = failures + 1
    /\ RolledBack(c)
    /\ Ends(c)
    /\ UNCHANGED <<losses, orphans>>

Complete(c) ==
    LET b == call[c].batch  r == call[c].run IN
    /\ call[c].stage = "complete"
    /\ IF MayComplete(b, r)
       THEN \E text \in Texts :
              /\ CompleteRun(b, r)
              /\ said' = [said EXCEPT ![b][r] = text]
              /\ Collect(c, r, text)
       ELSE Abort(c) /\ UNCHANGED <<runs, said>>
    /\ UNCHANGED <<rows, counts>>

\* The answer is stored, its caller sees an error.
CompleteUnseen(c) ==
    LET b == call[c].batch  r == call[c].run IN
    /\ call[c].stage = "complete"
    /\ failures < MaxFailures /\ failures' = failures + 1
    /\ \E text \in Texts :
         /\ CompleteRun(b, r)
         /\ said' = [said EXCEPT ![b][r] = text]
    /\ Abort(c)
    /\ UNCHANGED <<rows, losses, orphans>>

\* (Mutant of RecordFailure: an error is only raised.)
RaiseOnly(c) ==
    /\ call[c].stage = "fail"
    /\ Ends(c)
    /\ UNCHANGED <<rows, runs, said, counts>>

\* (Mutant of RecordFailure: what became of the run meanwhile is not looked at.)
FailAnyway(c) ==
    LET b == call[c].batch  r == call[c].run IN
    /\ call[c].stage = "fail"
    /\ runs' = [runs EXCEPT ![b][r] = Ended(@, "failed", "transport")]
    /\ Ends(c)
    /\ UNCHANGED <<rows, said, counts>>

\* _safe_record_failed_run; a run that is not running any more is left alone.
RecordFailure(c) ==
    LET b == call[c].batch  r == call[c].run IN
    /\ call[c].stage = "fail"
    /\ IF Status(b, r) = "running" THEN FailRun(b, r, "transport") ELSE UNCHANGED runs
    /\ Ends(c)
    /\ UNCHANGED <<rows, said, counts>>

\* Nobody is left to end the run that the caller has claimed.
LosesRun(c) ==
    /\ losses < MaxLosses /\ losses' = losses + 1
    /\ orphans' = IF call[c].claimed THEN orphans \cup {<<call[c].batch, call[c].run>>}
                  ELSE orphans
    /\ UNCHANGED failures

\* The record of a failure fails or is cancelled itself, which is logged and swallowed.
FailureUnrecorded(c) ==
    /\ call[c].stage = "fail"
    /\ LosesRun(c)
    /\ Ends(c)
    /\ UNCHANGED <<rows, runs, said>>

\* The process of a caller stops; the database rolls its transaction back.
Dies(c) ==
    /\ call[c].stage # "idle"
    /\ LosesRun(c)
    /\ RolledBack(c)
    /\ Ends(c)

-----------------------------------------------------------------------------
Write(c) == \E l \in Ledgers : Lookup(c, l) \/ Insert(c, l) \/ CommitLedger(c, l) \/ Reread(c, l)
Work(c) == AllAssessed(c) \/ SkipEmpty(c) \/ PrepareBatch(c) \/ ClaimPending(c)
           \/ ClaimOther(c) \/ Answered(c) \/ Complete(c) \/ RecordFailure(c)
Faults(c) == (\E l \in Ledgers : CommitUnseen(c, l)) \/ ClaimUnseen(c) \/ NotAnswered(c)
             \/ Breaks(c) \/ CompleteUnseen(c) \/ FailureUnrecorded(c) \/ Dies(c)

CheckNext == \E c \in Callers : Start(c) \/ Write(c) \/ Work(c) \/ Faults(c)

CheckSpec == CheckInit /\ [][CheckNext]_checkVars

\* A call that is made goes on, and a check that failed is asked for again.
FairCheckSpec ==
    CheckSpec /\ \A c \in Callers : WF_checkVars(Write(c) \/ Work(c)) /\ WF_checkVars(Start(c))

-----------------------------------------------------------------------------
(* Properties. *)

(* Types, and how what a caller remembers fits its stage and the rows. *)
ChecksTypeOK ==
    /\ extraction \in {"completed", "partial", "failed"}
    /\ plan \in {PlanOf(values) : values \in Extracted}
    /\ writer \in [Ledgers -> Callers \cup {Nil}]
    /\ inserting \in [Ledgers -> Callers \cup {Nil}]
    /\ LedgerTypeOK
    /\ orphans \subseteq Batches \X Nat
    /\ \A b \in Batches : Len(said[b]) = Len(runs[b])
    /\ call \in [Callers -> Call]
    /\ \A c \in Callers :
         /\ Len(call[c].runs) = Len(call[c].texts)
         /\ call[c].stage # "idle" => Len(call[c].runs) = call[c].batch - 1
         /\ call[c].claimed => call[c].run # 0

(* Whoever wrote a ledger, everybody is told the same one: an id a caller goes *)
(* on with is the id of the ledger that is stored.                             *)
ToldIsStored ==
    \A c \in Callers, l \in Ledgers : call[c].told[l] # Nil => call[c].told[l] = writer[l]

(* The stored check cites for every batch a run that is completed and still    *)
(* says what was stored, although it was collected over several calls.         *)
CheckIsBacked ==
    writer["check"] # Nil =>
        \A b \in DOMAIN plan : plan[b] # << >> =>
            /\ Status(b, stored.runs[b]) = "completed"
            /\ said[b][stored.runs[b]] = stored.texts[b]

(* What callers are told is stored, and what is stored can be shown.           *)
ToldIsBacked == ChecksTypeOK /\ ToldIsStored /\ CheckIsBacked

(* No batch is ever answered twice, so no caller can hold a result that        *)
(* differs from the stored one and be refused as an immutable mismatch.        *)
AnsweredOnce ==
    /\ \A b \in Batches :
         Cardinality({r \in DOMAIN runs[b] : Status(b, r) = "completed"}) <= 1
    /\ \A c \in Callers :
         AtLedger(c, "write", "check") /\ writer["check"] # Nil => Agrees(c, "check")

(* A run that is running belongs to a caller that goes on to end it, whatever  *)
(* else fails, is cancelled or comes too late, but for three cases, told apart *)
(* run by run: its caller died, its caller could not record that it failed, or *)
(* the answer to its claim was lost, so that no caller ever took it as its own.*)
OwnedBy(c, b, r) == call[c].claimed /\ call[c].batch = b /\ call[c].run = r
Unowned(b, r) == Status(b, r) = "running" /\ ~\E c \in Callers : OwnedBy(c, b, r)
OnlyFaultsAbandon ==
    \A b \in Batches : \A r \in DOMAIN runs[b] : Unowned(b, r) => <<b, r>> \in orphans
Abandoned(b) == \E r \in DOMAIN runs[b] : Unowned(b, r)

(* If callers keep asking, the check of an extraction that did not fail gets   *)
(* stored, unless a run was abandoned: nothing takes over a run of the check.  *)
CheckGetsStored ==
    extraction # "failed" ~> (writer["check"] # Nil \/ \E b \in Batches : Abandoned(b))

(* Stronger than what holds: a check survives the death of a caller.           *)
CheckSurvives == extraction # "failed" ~> writer["check"] # Nil
==============================================================================
