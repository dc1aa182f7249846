--------------------------- MODULE ProjectVersions ----------------------------
(***************************************************************************)
(* Freezing versions of a project (create_project_version in               *)
(* app/services/project_version.py) while people decide.  The creation     *)
(* locks the project row, derives the reviewed knowledge view in sessions  *)
(* of its own, and inserts the version with that view as a snapshot.       *)
(*                                                                         *)
(* Foreign keys tie the two together: inserting a decision takes a share   *)
(* lock on the project and inserting a version one on its creator, and     *)
(* both conflict with the FOR UPDATE locks of the other transaction.       *)
(***************************************************************************)
EXTENDS ConsistencyReview

CONSTANTS
    VersionIds,   \* ids that clients choose for the versions they ask for
    Creations     \* creations that may be in progress at the same time

VARIABLES
    versions,     \* project_versions, in the order of their insertion
    current,      \* projects.current_version_id
    creation      \* the creations in progress

versionVars == <<versions, current, creation>>
vars == <<reviewVars, versionVars>>

\* Of the knowledge view, the model keeps what can change: the decision that is
\* current for each assessment.
View    == [Assessments -> 0..MaxDecisions]
Version == [id : VersionIds, no : Nat \ {0}, creator : Users,
            view : View]

PresentView == [a \in Assessments |-> Current(a)]
EmptyView   == [a \in Assessments |-> 0]

NoCreation == [stage |-> "idle", id |-> None, creator |-> None, seen |-> 0,
               view |-> EmptyView]
Creation   == [stage : {"idle", "locked", "reading", "prepared"},
               id : VersionIds \cup {None}, creator : Users \cup {None},
               seen : 0..MaxDecisions, view : View]

VersionsTypeOK ==
    /\ TypeOK
    /\ versions \in Seq(Version)
    /\ current \in VersionIds \cup {None}
    /\ creation \in [Creations -> Creation]

VersionsInit ==
    /\ Init
    /\ versions = << >>
    /\ current = None
    /\ creation = [c \in Creations |-> NoCreation]

------------------------------------------------------------------------------

Stored == {versions[i] : i \in 1..Len(versions)}

\* get_max_project_version_no and one more
NextVersionNo ==
    IF Stored = {} THEN 1
    ELSE (CHOOSE v \in Stored : \A w \in Stored : w.no <= v.no).no + 1

ProjectHeld == \E c \in Creations : creation[c].stage # "idle"

\* get_project_for_update
LockProject(c, id, user) ==
    /\ ~ProjectHeld
    /\ creation' = [creation EXCEPT
         ![c] = [NoCreation EXCEPT !.stage = "locked", !.id = id, !.creator = user]]
    /\ UNCHANGED <<reviewVars, versions, current>>

\* _prepare_project_version_source builds the reviewed projection, which reads
\* decisions and selections like every other reader; a torn read is an error and
\* the creation is rolled back.
StartPreparing(c) ==
    /\ creation[c].stage = "locked"
    /\ creation' = [creation EXCEPT ![c].stage = "reading", ![c].seen = Len(ledger)]
    /\ UNCHANGED <<reviewVars, versions, current>>

ViewAt(n) == [a \in Assessments |-> Leaf(a, n)]

FinishPreparing(c) ==
    /\ creation[c].stage = "reading"
    /\ creation' = [creation EXCEPT
         ![c] = IF Torn(creation[c].seen) THEN NoCreation
                ELSE [@ EXCEPT !.stage = "prepared",
                               !.view = ViewAt(creation[c].seen)]]
    /\ UNCHANGED <<reviewVars, versions, current>>

\* The foreign key to the creator waits for a write transaction that has locked
\* that user.
CreatorFree(c) ==
    \A s \in Submissions :
      submission[s].stage = "locked" => submission[s].user # creation[c].creator

\* The version is new: it is inserted with the next number and becomes current.
InsertVersion(c) ==
    /\ creation[c].stage = "prepared"
    /\ \A v \in Stored : v.id # creation[c].id
    /\ CreatorFree(c)
    /\ versions' = Append(versions,
         [id |-> creation[c].id, no |-> NextVersionNo,
          creator |-> creation[c].creator, view |-> creation[c].view])
    /\ current' = creation[c].id
    /\ creation' = [creation EXCEPT ![c] = NoCreation]
    /\ UNCHANGED reviewVars

\* (Mutant of AnswerExisting: the version asked for becomes the current one.)
AnswerExistingAsCurrent(c) ==
    /\ creation[c].stage = "prepared"
    /\ \E v \in Stored : v.id = creation[c].id
    /\ current' = creation[c].id
    /\ creation' = [creation EXCEPT ![c] = NoCreation]
    /\ UNCHANGED <<reviewVars, versions>>

\* The id is a version already: it is returned if creator and snapshot are the
\* same, refused otherwise (also when only the decisions have moved on).
AnswerExisting(c) ==
    /\ creation[c].stage = "prepared"
    /\ \E v \in Stored : v.id = creation[c].id
    /\ creation' = [creation EXCEPT ![c] = NoCreation]
    /\ UNCHANGED <<reviewVars, versions, current>>

\* An error, a restart, or the database resolves a deadlock (see README).
AbortCreation(c) ==
    /\ creation[c].stage # "idle"
    /\ creation' = [creation EXCEPT ![c] = NoCreation]
    /\ UNCHANGED <<reviewVars, versions, current>>

\* (Mutant of DecisionMayCommit: decisions have no foreign key to the project.)
DecisionMayCommitAnytime(s) == submission[s].stage = "locked"

\* The foreign key of a decision to its project.
DecisionMayCommit(s) == ~ProjectHeld

Decide(s) ==
    /\ \/ Prepare(s) \/ BeginWrite(s) \/ Finish(s)
       \/ DecisionMayCommit(s) /\ Commit(s)
    /\ UNCHANGED versionVars

Create(c) ==
    \/ \E id \in VersionIds, user \in Users : LockProject(c, id, user)
    \/ StartPreparing(c) \/ FinishPreparing(c)
    \/ InsertVersion(c) \/ AnswerExisting(c) \/ AbortCreation(c)

VersionsNext ==
    \/ \E s \in Submissions : Decide(s)
    \/ ChangeReviewers /\ UNCHANGED versionVars
    \/ \E c \in Creations : Create(c)

VersionsSpec == VersionsInit /\ [][VersionsNext]_vars

------------------------------------------------------------------------------

\* A version is frozen with the decisions that are current at the moment of its
\* insertion, although its view was derived by other sessions: none commits in
\* between, and so a later version never shows an older state of the review.
VersionShowsPresent ==
    versions' # versions =>
        /\ Len(versions') = Len(versions) + 1
        /\ versions'[Len(versions')].view = PresentView

\* The current version of the project is the one with the highest number, whatever
\* is asked for again, and numbers are given once.
NewestIsCurrent ==
    /\ \A v \in Stored : \A w \in Stored : v.no = w.no => v = w
    /\ Stored # {} =>
         \E v \in Stored : v.id = current /\ \A w \in Stored : w.no <= v.no

\* Versions only move forward: a new one shows the review as it was when it was
\* inserted, and after every step the newest one is current.
VersionsMoveForward ==
    [][VersionShowsPresent /\ VersionsTypeOK' /\ NewestIsCurrent']_vars
==============================================================================
