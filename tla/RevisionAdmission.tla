-------------------------- MODULE RevisionAdmission --------------------------
(***************************************************************************)
(* Admission of an uploaded revision (app/services/revision_admission.py): *)
(* the automatic resolution that follows the upload, the decision of an    *)
(* owner or editor on a warning report, and the consistency of revision    *)
(* and report that extraction demands before it starts.                    *)
(* Uploads never carry a recommended_authority, so a pass report keeps the *)
(* pending authority of the revision.                                      *)
(***************************************************************************)
EXTENDS RevisionStore

\* _map_report_outcome_to_revision_status
AdmissionStatus ==
    [pass |-> "accepted", warning |-> "needs_confirmation",
     reject |-> "rejected", quarantine |-> "quarantined"]

\* The rest of the handler answers replays of a resolution, which no route of
\* the application makes: only the upload request calls it, and once.
ResolveAdmission ==
    /\ revision.status = "preflight_checking"
    /\ revision' = Flush(revision, revision, AdmissionStatus[report.outcome],
                         revision.authority)
    /\ UNCHANGED <<report, attempts, job, runs>>

DecidedStatus(decision) == IF decision = "cancel" THEN "rejected" ELSE "accepted"

DecidedAuthority(decision, authority) ==
    CASE decision = "continue_formal"    -> "formal"
      [] decision = "continue_reference" -> "reference"
      [] OTHER                           -> authority

\* Revision and report agree on a recorded decision.
DecisionConsistent(rev, rep) ==
    /\ rep.decision # "none"
    /\ rev.status = DecidedStatus(rep.decision)
    /\ rev.authority = DecidedAuthority(rep.decision, rev.authority)

\* What the handler leaves in the session's copies when it records a decision.
DecidedRevision(rev, decision) ==
    [status |-> DecidedStatus(decision),
     authority |-> DecidedAuthority(decision, rev.authority), age |-> 0]

\* A first decision.  Every condition is read from the loaded copies.
Decide(seen, decision) ==
    /\ seen.report.outcome = "warning"
    /\ seen.report.decision = "none"
    /\ seen.revision.status = "needs_confirmation"
    /\ report' = [report EXCEPT !.decision = decision]
    /\ revision' = Flush(revision, seen.revision, DecidedStatus(decision),
                         DecidedAuthority(decision, seen.revision.authority))
    /\ UNCHANGED <<attempts, job, runs>>

\* The same decision again: the handler answers from the copies and writes
\* nothing.  (A different one is refused.)
RepeatDecision(seen, decision) ==
    /\ seen.report.decision = decision
    /\ DecisionConsistent(seen.revision, seen.report)
    /\ UNCHANGED storeVars

\* _validate_admission_consistency_for_extraction, for the reports that exist.
Admitted(rev, rep) ==
    \/ rep.outcome = "pass" /\ rep.decision = "none" /\ rev.authority = "pending"
    \/ /\ rep.outcome = "warning"
       /\ \/ rep.decision = "continue_formal" /\ rev.authority = "formal"
          \/ rep.decision = "continue_reference" /\ rev.authority = "reference"
==============================================================================
