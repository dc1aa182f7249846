-------------------------- MODULE ConsistencyReview ---------------------------
(***************************************************************************)
(* Decisions of people about the assessments of one consistency check      *)
(* application: POST .../review-items/{fact_id}/decisions, that is         *)
(* write_review_decision (app/services/frontend_api.py) around             *)
(* append_consistency_review_decision (app/services/consistency_review.py).*)
(*                                                                         *)
(* The write transaction locks the assessment, then the user and the       *)
(* membership, and keeps them to its commit; all other reads happen in     *)
(* sessions of their own.  The review projection reads decisions and       *)
(* selections in two statements (READ COMMITTED), so a commit may come in  *)
(* between.  Decision rows are only ever added, hence what a statement     *)
(* returned is named by the number of rows there were.                     *)
(***************************************************************************)
EXTENDS Naturals, Sequences, FiniteSets

CONSTANTS
    Users,         \* members of the project, whatever their role
    Assessments,   \* of the application; each belongs to one fact
    Values,        \* the fact values that compete in an assessment
    Kinds,         \* the kinds of decisions people make
    Submissions,   \* submissions that may be open at the same time
    None,          \* the user and the assessment of a submission nobody makes
    MaxDecisions   \* bound on the rows of the ledger

DecisionKinds == {"select_one", "keep_multiple", "confirm_compatible", "defer"}

ASSUME KindsAreDecisionKinds == Kinds \subseteq DecisionKinds
ASSUME ReviewAssumption ==
    MaxDecisions \in Nat /\ None \notin Users /\ None \notin Assessments

VARIABLES
    reviewers,   \* active users whose role is owner or editor
    ledger,      \* consistency_review_decisions with their selections; the
                 \* position of a row stands for its id
    submission   \* the submissions people are making

reviewVars == <<reviewers, ledger, submission>>

\* _validate_selection_shape.  The order of a selection and the comment are part
\* of the payload as well; they behave like the kind and are left out.
SelectionFits(content) ==
    \/ content.kind = "select_one" /\ Cardinality(content.selected) = 1
    \/ content.kind = "keep_multiple" /\ Cardinality(content.selected) \in 2..200
    \/ content.kind \in {"confirm_compatible", "defer"} /\ content.selected = {}

Contents  == {c \in [kind : Kinds, selected : SUBSET Values] : SelectionFits(c)}
NoContent == [kind |-> "none", selected |-> {}]

Rows == 1..MaxDecisions
Row  == [assessment : Assessments, no : Rows, supersedes : 0..MaxDecisions,
         actor : Users, content : Contents]

\* checking: the target is looked up in the review projection; authorizing,
\* writing: before the write transaction; locked: inside of it; written: after
\* it; reading: the state to answer with is looked up; answered: see `answer'.
Stages  == {"idle", "page", "checking", "authorizing", "writing", "locked",
            "written", "reading", "answered"}
Answers == {"none", "ok", "stale", "denied", "target_invalid", "source_invalid",
            "lost"}

Submission == [stage : Stages, user : Users \cup {None},
               assessment : Assessments \cup {None},
               expected : 0..MaxDecisions, content : Contents \cup {NoContent},
               seen : 0..MaxDecisions, row : 0..MaxDecisions, answer : Answers]

NoSubmission == [stage |-> "idle", user |-> None, assessment |-> None,
                 expected |-> 0, content |-> NoContent, seen |-> 0, row |-> 0,
                 answer |-> "none"]

TypeOK ==
    /\ reviewers \subseteq Users
    /\ ledger \in Seq(Row) /\ Len(ledger) <= MaxDecisions
    /\ submission \in [Submissions -> Submission]

------------------------------------------------------------------------------
(* Chains.  n rows of the ledger are visible. *)

ChainOf(a, n) == {i \in 1..n : ledger[i].assessment = a}

\* The current decision is the last one of the chain; 0 stands for none.
Leaf(a, n) ==
    IF ChainOf(a, n) = {} THEN 0
    ELSE CHOOSE i \in ChainOf(a, n) :
           \A j \in ChainOf(a, n) : ledger[j].no <= ledger[i].no

Current(a) == Leaf(a, Len(ledger))

\* (Mutant of NextDecisionNo: numbered over the whole application.)
NextDecisionNoOfApplication(a) == Len(ledger) + 1

\* decision_no of _build_write_plan
NextDecisionNo(a) == IF Current(a) = 0 THEN 1 ELSE ledger[Current(a)].no + 1

\* A decision resolves its fact unless it defers it (_build_reviewed_fact).
RequiresReview(a, n) ==
    Leaf(a, n) = 0 \/ ledger[Leaf(a, n)].content.kind = "defer"

\* The second statement returned selections of decisions that the first did not:
\* authenticate_consistency_review_decision_chain rejects the pair.
Torn(n) == \E i \in (n + 1)..Len(ledger) : ledger[i].content.selected # {}

------------------------------------------------------------------------------
(* A submission. *)

Stage(s, stage) == submission' = [submission EXCEPT ![s].stage = stage]
Answer(s, answer) ==
    submission' = [submission EXCEPT ![s].stage = "answered", ![s].answer = answer,
                                     ![s].seen = 0]

\* Somebody opens the detail of a review item.  A torn read fails and shows none.
OpenPage(s, user, a) ==
    /\ submission[s].stage = "idle"
    /\ submission' = [submission EXCEPT
         ![s] = [NoSubmission EXCEPT !.stage = "page", !.user = user,
                                     !.assessment = a, !.expected = Current(a)]]
    /\ UNCHANGED <<reviewers, ledger>>

\* _get_review_fact_context begins: the decisions are read.
StartChecking(s, content) ==
    submission' = [submission EXCEPT ![s].stage = "checking", ![s].content = content,
                                     ![s].seen = Len(ledger), ![s].answer = "none"]

\* append_review_decision of the router, its payload valid.
Submit(s, content) ==
    /\ submission[s].stage = "page"
    /\ StartChecking(s, content)
    /\ UNCHANGED <<reviewers, ledger>>

\* The client got no answer, or one that does not blame it, and sends the same again.
Resubmit(s) ==
    /\ submission[s].stage = "answered"
    /\ submission[s].answer \in {"lost", "source_invalid"}
    /\ StartChecking(s, submission[s].content)
    /\ UNCHANGED <<reviewers, ledger>>

\* The selections are read: the target must still require a review.
CheckTarget(s) ==
    /\ submission[s].stage = "checking"
    /\ IF Torn(submission[s].seen) THEN Answer(s, "source_invalid")
       ELSE IF RequiresReview(submission[s].assessment, submission[s].seen)
       THEN submission' = [submission EXCEPT ![s].stage = "authorizing", ![s].seen = 0]
       ELSE Answer(s, "target_invalid")
    /\ UNCHANGED <<reviewers, ledger>>

\* _authorize_actor, in a session that is rolled back before the writing begins.
Authorize(s) ==
    /\ submission[s].stage = "authorizing"
    /\ IF submission[s].user \in reviewers
       THEN Stage(s, "writing") ELSE Answer(s, "denied")
    /\ UNCHANGED <<reviewers, ledger>>

\* No other write transaction holds the assessment or the user of this one.
LocksFree(s) ==
    \A t \in Submissions :
      submission[t].stage = "locked" =>
        /\ submission[t].assessment # submission[s].assessment
        /\ submission[t].user # submission[s].user

\* (Mutant of Reauthorized: the right found by _authorize_actor is trusted.)
ReauthorizedEarlier(s) == submission[s].stage = "writing"

\* _reauthorize_actor_in_transaction
Reauthorized(s) == submission[s].user \in reviewers

\* (Mutant of Matching: decisions made already are not looked for.)
MatchingNone(s) == {}

\* _find_existing_matching_decision: the same actor superseded the same decision
\* with the same content.
Matching(s) ==
    {i \in ChainOf(submission[s].assessment, Len(ledger)) :
       /\ ledger[i].actor = submission[s].user
       /\ ledger[i].content = submission[s].content
       /\ ledger[i].supersedes = submission[s].expected}

\* (Mutant of Expected: the decision is appended to whatever there is.)
ExpectedAnything(s) == TRUE

\* The optimistic check of _build_write_plan.
Expected(s) == submission[s].expected = Current(submission[s].assessment)

\* _load_validated_chain_in_session takes the locks and reads the chain; a
\* matching decision is the result, otherwise the plan to write one is made.
BeginWrite(s) ==
    /\ submission[s].stage = "writing"
    /\ LocksFree(s)
    /\ IF ~Reauthorized(s) THEN Answer(s, "denied")
       ELSE IF Matching(s) # {}
       THEN \E i \in Matching(s) :
              submission' = [submission EXCEPT ![s].stage = "written", ![s].row = i]
       ELSE IF Expected(s) THEN Stage(s, "locked") ELSE Answer(s, "stale")
    /\ UNCHANGED <<reviewers, ledger>>

PlannedRow(s) ==
    [assessment |-> submission[s].assessment,
     no |-> NextDecisionNo(submission[s].assessment),
     supersedes |-> Current(submission[s].assessment),
     actor |-> submission[s].user,
     content |-> submission[s].content]

\* Decision and selections are inserted and committed.  The unique constraints of
\* the table (and the recovery from their violation) have no part here: OneChain
\* shows that the locks alone keep every writer clear of them.
Commit(s) ==
    /\ submission[s].stage = "locked"
    /\ Len(ledger) < MaxDecisions
    /\ ledger' = Append(ledger, PlannedRow(s))
    /\ submission' = [submission EXCEPT ![s].stage = "written",
                                        ![s].row = Len(ledger) + 1]
    /\ UNCHANGED reviewers

\* get_review_item_detail for the answer: decisions ...
ReadBack(s) ==
    /\ submission[s].stage = "written"
    /\ submission' = [submission EXCEPT ![s].stage = "reading",
                                        ![s].seen = Len(ledger)]
    /\ UNCHANGED <<reviewers, ledger>>

\* ... and selections.
Respond(s) ==
    /\ submission[s].stage = "reading"
    /\ Answer(s, IF Torn(submission[s].seen) THEN "source_invalid" ELSE "ok")
    /\ UNCHANGED <<reviewers, ledger>>

\* A transaction is aborted, the process restarts, or the response is lost:
\* uncommitted work is undone, and the client cannot tell.
LoseAnswer(s) ==
    /\ submission[s].stage \notin {"idle", "page", "answered"}
    /\ Answer(s, "lost")
    /\ UNCHANGED <<reviewers, ledger>>

ClosePage(s) ==
    /\ submission[s].stage \in {"page", "answered"}
    /\ submission' = [submission EXCEPT ![s] = NoSubmission]
    /\ UNCHANGED <<reviewers, ledger>>

\* An administrator changes rights; the rows that a write transaction has locked
\* cannot change before it ends.
ChangeReviewers ==
    /\ \E user \in Users :
         /\ \A s \in Submissions :
              submission[s].stage = "locked" => submission[s].user # user
         /\ reviewers' \in {reviewers \cup {user}, reviewers \ {user}}
    /\ reviewers' # reviewers
    /\ UNCHANGED <<ledger, submission>>

------------------------------------------------------------------------------

Init ==
    /\ reviewers = Users
    /\ ledger = << >>
    /\ submission = [s \in Submissions |-> NoSubmission]

Prepare(s) ==
    \/ \E user \in Users, a \in Assessments : OpenPage(s, user, a)
    \/ \E content \in Contents : Submit(s, content)
    \/ Resubmit(s)
    \/ CheckTarget(s)
    \/ Authorize(s)

Finish(s) == ReadBack(s) \/ Respond(s) \/ LoseAnswer(s) \/ ClosePage(s)

Next ==
    \/ \E s \in Submissions : Prepare(s) \/ BeginWrite(s) \/ Commit(s) \/ Finish(s)
    \/ ChangeReviewers

Spec == Init /\ [][Next]_reviewVars

------------------------------------------------------------------------------
(* Safety. *)

\* The decisions about an assessment form one chain without forks or gaps: they
\* are numbered 1, 2, ... and each supersedes the one before it, whoever writes
\* at the same time (what authenticate_consistency_review_decision_chain demands
\* of every later reader).
OneChain ==
    \A a \in Assessments :
      LET chain == ChainOf(a, Len(ledger)) IN
      /\ {ledger[i].no : i \in chain} = 1..Cardinality(chain)
      /\ \A i \in chain :
           IF ledger[i].no = 1 THEN ledger[i].supersedes = 0
           ELSE /\ ledger[i].supersedes \in chain
                /\ ledger[ledger[i].supersedes].no = ledger[i].no - 1

\* Rows and submissions are well-formed, and the decisions are such chains.
DecisionsChain == TypeOK /\ OneChain

\* Nobody decides blindly: a decision supersedes exactly the one that was current
\* on the page its author had open, also when the submission is sent again much
\* later, so no decision of another reviewer is passed over unseen.
SupersedesWhatWasSeen ==
    [][\A s \in Submissions :
         submission'[s].stage = "written" /\ submission[s].stage # "written" =>
           ledger'[submission'[s].row].supersedes = submission[s].expected]_reviewVars

\* A submission whose decision is in the ledger is never told that it came too
\* late: sent again, it finds its own decision even if others followed.
CommittedIsNotStale ==
    \A s \in Submissions :
      submission[s].row # 0 => submission[s].answer # "stale"

\* The ledger as the log it stands for: the chain in the order of its numbers.
EntryNo(a, no) == CHOOSE i \in ChainOf(a, Len(ledger)) : ledger[i].no = no
LogOf(a) == [no \in 1..Cardinality(ChainOf(a, Len(ledger))) |->
    [actor |-> ledger[EntryNo(a, no)].actor, content |-> ledger[EntryNo(a, no)].content]]
Log == INSTANCE DecisionLog WITH
    log <- [a \in Assessments |-> LogOf(a)], allowed <- reviewers

\* Submissions, repetitions, lost answers and changing rights implement the log:
\* it grows at its end, and only by those who are reviewers when it grows.
ImplementsLog == Log!Spec

------------------------------------------------------------------------------
(* Claims of the repository that the request around the append breaks. *)

\* "test_frontend_decision_write_supports_idempotent_retry": sending a decision
\* again that was made is answered like the first time, not refused.
RetryIsAnswered ==
    \A s \in Submissions :
      submission[s].row # 0 => submission[s].answer # "target_invalid"

\* "frontend_api_source_invalid" means drift of the authenticated source or wrong
\* arguments: an intact ledger is never refused.
IntactLedgerIsReadable ==
    OneChain => \A s \in Submissions : submission[s].answer # "source_invalid"
==============================================================================
