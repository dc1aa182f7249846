----------------------------- MODULE ConsistencyProofs -----------------------------
(* Proofs about consistency: ConsistencyReview and ProjectVersions, which extends it, *)
(* where people decide about what was assessed, and ConsistencyChecks, which has it   *)
(* assessed.  The two have no state in common.  All for every value of their          *)
(* constants.                                                                         *)
EXTENDS ProjectVersions, ConsistencyChecks, FiniteSetTheorems, SequenceTheorems, TLAPS

------------------------------------------------------------------------------
(* The chains of any ledger L. *)

Chain(L, a) == {i \in 1..Len(L) : L[i].assessment = a}

Newest(L, a) ==
    IF Chain(L, a) = {} THEN 0
    ELSE CHOOSE i \in Chain(L, a) : \A j \in Chain(L, a) : L[j].no <= L[i].no

\* Besides OneChain: no two decisions have the same number.
ChainFits(L, a) ==
    /\ {L[i].no : i \in Chain(L, a)} = 1..Cardinality(Chain(L, a))
    /\ \A i, j \in Chain(L, a) : L[i].no = L[j].no => i = j
    /\ \A i \in Chain(L, a) :
         IF L[i].no = 1 THEN L[i].supersedes = 0
         ELSE /\ L[i].supersedes \in Chain(L, a)
              /\ L[L[i].supersedes].no = L[i].no - 1

\* The operators of the module are these, of the ledger as it is.
LEMMA Present ==
    \A a : ChainOf(a, Len(ledger)) = Chain(ledger, a) /\ Current(a) = Newest(ledger, a)
BY DEF ChainOf, Chain, Current, Leaf, Newest

LEMMA ExpectedIs ==
    \A s : /\ Expected(s) <=>
               submission[s].expected = Newest(ledger, submission[s].assessment)
           /\ Expected(s)' <=>
               submission'[s].expected = Newest(ledger', submission'[s].assessment)
BY DEF Expected, ChainOf, Chain, Current, Leaf, Newest

\* Chains are finite, and no longer than the ledger.
LEMMA ChainSize ==
    ASSUME NEW L \in Seq(Row), NEW a
    PROVE  /\ IsFiniteSet(Chain(L, a))
           /\ Cardinality(Chain(L, a)) \in Nat
           /\ Cardinality(Chain(L, a)) <= Len(L)
           /\ Chain(L, a) = {} <=> Cardinality(Chain(L, a)) = 0
<1>1. IsFiniteSet(1..Len(L)) /\ Cardinality(1..Len(L)) = Len(L)
  <2>1. Len(L) \in Nat
    OBVIOUS
  <2>2. /\ IsFiniteSet(1..Len(L))
        /\ Cardinality(1..Len(L)) = IF 1 > Len(L) THEN 0 ELSE Len(L) - 1 + 1
    BY <2>1, FS_Interval
  <2>. QED BY <2>1, <2>2
<1>2. Chain(L, a) \subseteq 1..Len(L)
  BY DEF Chain
<1>3. IsFiniteSet(Chain(L, a)) /\ Cardinality(Chain(L, a)) <= Len(L)
  BY <1>1, <1>2, FS_Subset
<1>4. Cardinality(Chain(L, a)) \in Nat
  BY <1>3, FS_CardinalityType
<1>5. Chain(L, a) = {} <=> Cardinality(Chain(L, a)) = 0
  BY <1>3, FS_EmptySet
<1>. QED BY <1>3, <1>4, <1>5

\* The newest decision is the one whose number is the length of the chain.
LEMMA NewestIs ==
    ASSUME NEW L \in Seq(Row), NEW a, ChainFits(L, a)
    PROVE  /\ Newest(L, a) = 0 <=> Chain(L, a) = {}
           /\ Newest(L, a) # 0 =>
                /\ Newest(L, a) \in Chain(L, a)
                /\ L[Newest(L, a)].no = Cardinality(Chain(L, a))
           /\ \A i \in Chain(L, a) :
                L[i].no = Cardinality(Chain(L, a)) => i = Newest(L, a)
<1> DEFINE C == Cardinality(Chain(L, a))
<1>1. C \in Nat /\ (Chain(L, a) = {} <=> C = 0)
  BY ChainSize
<1>2. \A i \in Chain(L, a) : i \in Nat \ {0} /\ L[i].no \in 1..C
  BY SMTT(60) DEF Chain, ChainFits
<1>3. CASE Chain(L, a) = {}
  BY <1>3 DEF Newest
<1>4. CASE Chain(L, a) # {}
  <2>1. PICK i \in Chain(L, a) : L[i].no = C
    <3>1. C \in 1..C
      BY <1>1, <1>4
    <3>. QED BY <3>1 DEF ChainFits
  <2>2. \A j \in Chain(L, a) : L[j].no <= L[i].no
    BY <1>2, <2>1
  <2>3. /\ Newest(L, a) \in Chain(L, a)
        /\ \A j \in Chain(L, a) : L[j].no <= L[Newest(L, a)].no
    BY <1>4, <2>1, <2>2 DEF Newest
  <2>4. L[Newest(L, a)].no = C
    BY <1>1, <1>2, <2>1, <2>3
  <2>. QED BY <1>2, <1>4, <2>3, <2>4 DEF ChainFits
<1>. QED BY <1>3, <1>4

\* Appending a row extends the chain of its assessment, and no other.
LEMMA Appended ==
    ASSUME NEW L \in Seq(Row), NEW row \in Row
    PROVE  LET M == Append(L, row) IN
           /\ M \in Seq(Row) /\ Len(M) = Len(L) + 1
           /\ \A i \in 1..Len(L) : M[i] = L[i]
           /\ M[Len(L) + 1] = row
           /\ \A a : Chain(M, a) = IF a = row.assessment
                                  THEN Chain(L, a) \cup {Len(L) + 1} ELSE Chain(L, a)
           /\ \A a : Len(L) + 1 \notin Chain(L, a)
<1> DEFINE M == Append(L, row)
<1>1. /\ M \in Seq(Row) /\ Len(M) = Len(L) + 1
      /\ \A i \in 1..Len(L) : M[i] = L[i]
      /\ M[Len(L) + 1] = row
  OBVIOUS
<1>2. 1..Len(M) = 1..Len(L) \cup {Len(L) + 1} /\ Len(L) + 1 \notin 1..Len(L)
  BY <1>1
<1>. HIDE DEF M
<1>. QED BY <1>1, <1>2 DEF Chain, M

\* A row that continues the chain of its assessment keeps every chain.
LEMMA ChainsExtended ==
    ASSUME NEW L \in Seq(Row), NEW a, NEW row \in Row,
           ChainFits(L, a),
           row.assessment = a => /\ row.no = Cardinality(Chain(L, a)) + 1
                                 /\ row.supersedes = Newest(L, a)
    PROVE  ChainFits(Append(L, row), a)
<1> DEFINE M == Append(L, row)
           C == Cardinality(Chain(L, a))
<1>1. /\ \A i \in Chain(L, a) : M[i] = L[i]
      /\ M[Len(L) + 1] = row /\ Len(L) + 1 \notin Chain(L, a)
      /\ Chain(M, a) = IF a = row.assessment
                       THEN Chain(L, a) \cup {Len(L) + 1} ELSE Chain(L, a)
  BY Appended DEF Chain
<1>2. C \in Nat /\ IsFiniteSet(Chain(L, a))
  BY ChainSize
<1>3. \A i \in Chain(L, a) : L[i].no \in 1..C
  BY DEF ChainFits
<1>. HIDE DEF M
<1>4. CASE a # row.assessment
  <2>1. Chain(M, a) = Chain(L, a)
    BY <1>1, <1>4
  <2>2. {M[i].no : i \in Chain(M, a)} = {L[i].no : i \in Chain(L, a)}
    BY <1>1, <2>1
  <2>3. \A i \in Chain(M, a) : M[i] = L[i]
    BY <1>1, <2>1
  <2>4. ChainFits(M, a)
    BY <2>1, <2>2, <2>3 DEF ChainFits
  <2>. QED BY <2>4 DEF M
<1>5. CASE a = row.assessment
  <2>1. Chain(M, a) = Chain(L, a) \cup {Len(L) + 1}
    BY <1>1, <1>5
  <2>2. Cardinality(Chain(M, a)) = C + 1
    BY <1>1, <1>2, <2>1, FS_AddElement
  <2>3. row.no = C + 1 /\ row.supersedes = Newest(L, a)
    BY <1>5
  <2>4. {M[i].no : i \in Chain(M, a)} = 1..(C + 1)
    <3>1. {M[i].no : i \in Chain(M, a)} = {L[i].no : i \in Chain(L, a)} \cup {C + 1}
      BY <1>1, <2>1, <2>3
    <3>2. {L[i].no : i \in Chain(L, a)} = 1..C
      BY DEF ChainFits
    <3>3. (1..C) \cup {C + 1} = 1..(C + 1)
      BY <1>2
    <3>. QED BY <3>1, <3>2, <3>3
  <2>5. \A i, j \in Chain(M, a) : M[i].no = M[j].no => i = j
    BY <1>1, <1>2, <1>3, <2>1, <2>3 DEF ChainFits
  <2>6. ASSUME NEW i \in Chain(M, a)
        PROVE  IF M[i].no = 1 THEN M[i].supersedes = 0
               ELSE /\ M[i].supersedes \in Chain(M, a)
                    /\ M[M[i].supersedes].no = M[i].no - 1
    <3>1. CASE i \in Chain(L, a)
      BY <1>1, <2>1, <3>1 DEF ChainFits
    <3>2. CASE i = Len(L) + 1
      <4>1. M[i].no = C + 1 /\ M[i].supersedes = Newest(L, a)
        BY <1>1, <2>3, <3>2
      <4>2. CASE C = 0
        BY <4>1, <4>2, ChainSize, NewestIs
      <4>3. CASE C # 0
        <5>1. Newest(L, a) \in Chain(L, a) /\ L[Newest(L, a)].no = C
          BY <4>3, ChainSize, NewestIs
        <5>. QED BY <1>1, <1>2, <2>1, <4>1, <4>3, <5>1
      <4>. QED BY <4>2, <4>3
    <3>. QED BY <2>1, <3>1, <3>2
  <2>7. ChainFits(M, a)
    BY <2>2, <2>4, <2>5, <2>6 DEF ChainFits
  <2>. QED BY <2>7 DEF M
<1>. QED BY <1>4, <1>5

------------------------------------------------------------------------------
(* The invariant. *)

\* A submission that was made has its author, assessment and content, and what it
\* found or wrote is a decision of its own.
SubmissionsFit ==
    \A s \in Submissions :
      /\ submission[s].stage # "idle" =>
           submission[s].user \in Users /\ submission[s].assessment \in Assessments
      /\ submission[s].stage \notin {"idle", "page"} => submission[s].content \in Contents
      /\ submission[s].stage \in {"idle", "page"} => submission[s].row = 0
      /\ submission[s].stage # "answered" => submission[s].answer = "none"
      /\ submission[s].row # 0 =>
           submission[s].row \in Matching(s) /\ submission[s].answer # "stale"

\* Inside its transaction a writer keeps its rights, and the assessment for itself.
LocksFit ==
    \A s \in Submissions : submission[s].stage = "locked" =>
      /\ submission[s].user \in reviewers
      /\ Expected(s)
      /\ \A t \in Submissions : t # s /\ submission[t].stage = "locked" =>
           submission[t].assessment # submission[s].assessment

ChainsFit == \A a \in Assessments : ChainFits(ledger, a)

ReviewInv == TypeOK /\ SubmissionsFit /\ LocksFit /\ ChainsFit

LEMMA CurrentRange ==
    ASSUME ReviewInv, NEW a \in Assessments
    PROVE  Current(a) \in 0..Len(ledger) /\ Current(a) \in 0..MaxDecisions
<1>1. Newest(ledger, a) = 0 \/ Newest(ledger, a) \in Chain(ledger, a)
  BY NewestIs DEF ReviewInv, TypeOK, ChainsFit
<1>. QED BY <1>1, Present, ReviewAssumption DEF ReviewInv, TypeOK, Chain

LEMMA Nobody == NoSubmission \in Submission
<1>1. 0 \in 0..MaxDecisions
  BY ReviewAssumption
<1>. QED BY <1>1 DEF NoSubmission, Submission, Stages, Answers

LEMMA InitReview == Init => ReviewInv
<1>. SUFFICES ASSUME Init PROVE ReviewInv
  OBVIOUS
<1>1. NoSubmission \in Submission
  BY Nobody
<1>2. TypeOK
  BY <1>1, ReviewAssumption DEF Init, TypeOK
<1>3. SubmissionsFit /\ LocksFit
  BY DEF Init, SubmissionsFit, LocksFit, NoSubmission
<1>4. ChainsFit
  <2>. SUFFICES ASSUME NEW a \in Assessments PROVE ChainFits(<< >>, a)
    BY DEF Init, ChainsFit
  <2>1. Chain(<< >>, a) = {}
    BY DEF Chain
  <2>2. {<< >>[i].no : i \in {}} = {} /\ 1..0 = {}
    OBVIOUS
  <2>. QED BY <2>1, <2>2, FS_EmptySet DEF ChainFits
<1>. QED BY <1>2, <1>3, <1>4 DEF ReviewInv

------------------------------------------------------------------------------
(* The steps of a submission that leave ledger and rights alone. *)

Moves(s) == Prepare(s) \/ BeginWrite(s) \/ Finish(s)

\* What the record of a submission may be, given the ledger.
Fits(s, record) ==
    /\ record \in Submission
    /\ record.stage # "idle" => record.user \in Users /\ record.assessment \in Assessments
    /\ record.stage \notin {"idle", "page"} => record.content \in Contents
    /\ record.stage \in {"idle", "page"} => record.row = 0
    /\ record.stage # "answered" => record.answer = "none"
    /\ record.row # 0 =>
         /\ record.row \in ChainOf(record.assessment, Len(ledger))
         /\ ledger[record.row].actor = record.user
         /\ ledger[record.row].content = record.content
         /\ ledger[record.row].supersedes = record.expected
         /\ record.answer # "stale"

LEMMA FitsNow ==
    ASSUME ReviewInv, NEW s \in Submissions
    PROVE  Fits(s, submission[s])
BY DEF ReviewInv, TypeOK, SubmissionsFit, Fits, Matching

\* Every such step changes one record, into a fitting one, and one that enters the
\* transaction has its rights, its locks and the decision it expects.
LEMMA MoveEffect ==
    ASSUME ReviewInv, NEW s \in Submissions, Moves(s)
    PROVE  /\ UNCHANGED <<reviewers, ledger>>
           /\ submission' = [submission EXCEPT ![s] = submission'[s]]
           /\ Fits(s, submission'[s])
           /\ submission'[s].stage = "locked" =>
                /\ submission'[s].user = submission[s].user
                /\ submission'[s].assessment = submission[s].assessment
                /\ submission'[s].expected = submission[s].expected
                /\ LocksFree(s) /\ Reauthorized(s) /\ Expected(s)
           /\ submission'[s].stage = "written" => submission'[s].row \in Matching(s)
<1> DEFINE Old == submission[s]
           New == submission'[s]
           Becomes(record) == /\ UNCHANGED <<reviewers, ledger>>
                              /\ submission' = [submission EXCEPT ![s] = record]
           Effect(stage) == Becomes(New) /\ Fits(s, New) /\ New.stage = stage
<1>1. Fits(s, Old) /\ Old \in Submission /\ submission \in [Submissions -> Submission]
  BY FitsNow DEF ReviewInv, TypeOK
<1>0. 0 \in 0..MaxDecisions
  BY ReviewAssumption
<1>2. ASSUME NEW user \in Users, NEW a \in Assessments, OpenPage(s, user, a)
      PROVE  Effect("page")
  <2> DEFINE record == [NoSubmission EXCEPT !.stage = "page", !.user = user,
                                            !.assessment = a, !.expected = Current(a)]
  <2>1. /\ record \in Submission /\ record.row = 0 /\ record.stage = "page"
        /\ record.user = user /\ record.assessment = a /\ record.answer = "none"
    <3>1. NoSubmission \in Submission /\ NoSubmission.row = 0 /\ NoSubmission.answer = "none"
      BY Nobody DEF NoSubmission
    <3>2. Current(a) \in 0..MaxDecisions
      BY CurrentRange
    <3>. QED BY <3>1, <3>2 DEF Submission, Stages
  <2>2. Becomes(record) /\ New = record
    BY <1>1, <1>2 DEF OpenPage
  <2>. HIDE DEF record
  <2>3. Fits(s, record)
    BY <2>1 DEF Fits
  <2>. QED BY <2>1, <2>2, <2>3
<1>3. ASSUME NEW content \in Contents, StartChecking(s, content),
             UNCHANGED <<reviewers, ledger>>,
             Old.stage # "idle", Old.row # 0 => content = Old.content
      PROVE  Effect("checking")
  <2> DEFINE record == [Old EXCEPT !.stage = "checking", !.content = content,
                                   !.seen = Len(ledger), !.answer = "none"]
  <2>1. Len(ledger) \in 0..MaxDecisions
    BY DEF ReviewInv, TypeOK
  <2>2. /\ record \in Submission
        /\ record.stage = "checking" /\ record.content = content
        /\ record.user = Old.user /\ record.assessment = Old.assessment
        /\ record.row = Old.row /\ record.expected = Old.expected
        /\ record.answer = "none"
    BY <1>1, <2>1 DEF Submission, Stages, Answers
  <2>3. Becomes(record) /\ New = record
    BY <1>1, <1>3 DEF StartChecking
  <2>. HIDE DEF record
  <2>4. Fits(s, record)
    BY <1>1, <1>3, <2>2 DEF Fits
  <2>. QED BY <2>2, <2>3, <2>4
<1>4. ASSUME NEW answer \in Answers, Answer(s, answer), UNCHANGED <<reviewers, ledger>>,
             Old.stage \notin {"idle", "page"}, answer = "stale" => Old.row = 0
      PROVE  Effect("answered")
  <2> DEFINE record == [Old EXCEPT !.stage = "answered", !.answer = answer, !.seen = 0]
  <2>1. /\ record \in Submission
        /\ record.stage = "answered" /\ record.content = Old.content
        /\ record.user = Old.user /\ record.assessment = Old.assessment
        /\ record.row = Old.row /\ record.expected = Old.expected
        /\ record.answer = answer
    BY <1>0, <1>1, <1>4 DEF Submission, Stages
  <2>2. Becomes(record) /\ New = record
    BY <1>1, <1>4 DEF Answer
  <2>. HIDE DEF record
  <2>3. Fits(s, record)
    BY <1>1, <1>4, <2>1 DEF Fits
  <2>. QED BY <2>1, <2>2, <2>3
<1>5. ASSUME NEW stage \in Stages \ {"idle", "page", "answered"},
             Old.stage \notin {"idle", "page", "answered"},
             NEW seen \in 0..MaxDecisions, NEW row \in 0..MaxDecisions,
             row = Old.row \/ row \in Matching(s),
             Becomes([Old EXCEPT !.stage = stage, !.seen = seen, !.row = row])
      PROVE  /\ Effect(stage) /\ New.row = row /\ New.user = Old.user
             /\ New.assessment = Old.assessment /\ New.expected = Old.expected
  <2> DEFINE record == [Old EXCEPT !.stage = stage, !.seen = seen, !.row = row]
  <2>1. /\ record \in Submission
        /\ record.stage = stage /\ record.content = Old.content
        /\ record.user = Old.user /\ record.assessment = Old.assessment
        /\ record.row = row /\ record.expected = Old.expected
        /\ record.answer = Old.answer
    BY <1>1 DEF Submission
  <2>2. Becomes(record) /\ New = record
    BY <1>1, <1>5
  <2>. HIDE DEF record
  <2>3. Fits(s, record)
    BY <1>1, <1>5, <2>1 DEF Fits, Matching
  <2>. QED BY <2>1, <2>2, <2>3
<1>. HIDE DEF New
<1>6. Old.seen \in 0..MaxDecisions /\ Old.row \in 0..MaxDecisions
      /\ Len(ledger) \in 0..MaxDecisions
  BY <1>1 DEF Submission, ReviewInv, TypeOK
<1>7. ASSUME NEW content \in Contents, Submit(s, content) PROVE Effect("checking")
  <2>1. Old.row = 0
    BY <1>1, <1>7 DEF Submit, Fits
  <2>. QED BY <1>3, <1>7, <2>1 DEF Submit
<1>8. ASSUME Resubmit(s) PROVE Effect("checking")
  BY <1>1, <1>3, <1>8 DEF Resubmit, Fits
<1>9. ASSUME CheckTarget(s) PROVE Effect("answered") \/ Effect("authorizing")
  <2>1. Old.stage = "checking" /\ UNCHANGED <<reviewers, ledger>>
    BY <1>9 DEF CheckTarget
  <2>2. CASE Answer(s, "source_invalid") \/ Answer(s, "target_invalid")
    <3>1. "source_invalid" \in Answers /\ "target_invalid" \in Answers
      BY DEF Answers
    <3>. QED BY <1>4, <2>1, <2>2, <3>1
  <2>3. CASE submission' = [submission EXCEPT ![s].stage = "authorizing", ![s].seen = 0]
    <3>1. Becomes([Old EXCEPT !.stage = "authorizing", !.seen = 0, !.row = Old.row])
      <4>1. [Old EXCEPT !.stage = "authorizing", !.seen = 0]
              = [Old EXCEPT !.stage = "authorizing", !.seen = 0, !.row = Old.row]
        BY <1>1 DEF Submission
      <4>. QED BY <2>1, <2>3, <4>1
    <3>2. "authorizing" \in Stages \ {"idle", "page", "answered"}
      BY DEF Stages
    <3>. QED BY <1>0, <1>5, <1>6, <2>1, <3>1, <3>2
  <2>. QED BY <1>9, <2>2, <2>3 DEF CheckTarget
<1>10. ASSUME Stage(s, "writing") \/ Stage(s, "locked"), UNCHANGED <<reviewers, ledger>>,
              Old.stage \notin {"idle", "page", "answered"}
       PROVE  /\ Stage(s, "writing") => Effect("writing")
              /\ Stage(s, "locked") => Effect("locked")
              /\ New.user = Old.user /\ New.assessment = Old.assessment
              /\ New.expected = Old.expected
  <2>1. ASSUME NEW stage \in {"writing", "locked"}, Stage(s, stage)
        PROVE  Becomes([Old EXCEPT !.stage = stage, !.seen = Old.seen, !.row = Old.row])
    <3>1. [Old EXCEPT !.stage = stage]
              = [Old EXCEPT !.stage = stage, !.seen = Old.seen, !.row = Old.row]
        BY <1>1 DEF Submission
    <3>2. submission' = [submission EXCEPT ![s] = [Old EXCEPT !.stage = stage]]
      BY <2>1 DEF Stage
    <3>. QED BY <1>10, <3>1, <3>2
  <2>2. {"writing", "locked"} \subseteq Stages \ {"idle", "page", "answered"}
    BY DEF Stages
  <2>. QED BY <1>5, <1>6, <1>10, <2>1, <2>2
<1>11. ASSUME Authorize(s) PROVE Effect("writing") \/ Effect("answered")
  <2>1. "denied" \in Answers
    BY DEF Answers
  <2>. QED BY <1>4, <1>10, <1>11, <2>1 DEF Authorize
<1>12. ASSUME NEW stage \in {"written", "reading"}, NEW seen \in 0..MaxDecisions,
              NEW row \in 0..MaxDecisions, row = Old.row \/ row \in Matching(s),
              Old.stage \notin {"idle", "page", "answered"}, UNCHANGED <<reviewers, ledger>>,
              submission' = [submission EXCEPT
                               ![s] = [Old EXCEPT !.stage = stage, !.seen = seen, !.row = row]]
       PROVE  Effect(stage) /\ New.row = row
  <2>1. stage \in Stages \ {"idle", "page", "answered"}
    BY DEF Stages
  <2>. QED BY <1>5, <1>12, <2>1
<1>13. ASSUME BeginWrite(s)
       PROVE  \/ Effect("answered")
              \/ Effect("written") /\ New.row \in Matching(s)
              \/ /\ Effect("locked") /\ New.user = Old.user
                 /\ New.assessment = Old.assessment /\ New.expected = Old.expected
                 /\ LocksFree(s) /\ Reauthorized(s) /\ Expected(s)
  <2>1. /\ Old.stage = "writing" /\ UNCHANGED <<reviewers, ledger>> /\ LocksFree(s)
        /\ \/ Answer(s, "denied")
           \/ /\ Reauthorized(s) /\ Matching(s) # {}
              /\ \E i \in Matching(s) :
                   submission' = [submission EXCEPT ![s].stage = "written", ![s].row = i]
           \/ Reauthorized(s) /\ Matching(s) = {} /\ Expected(s) /\ Stage(s, "locked")
           \/ Matching(s) = {} /\ Answer(s, "stale")
    BY <1>13 DEF BeginWrite
  <2>2. "denied" \in Answers /\ "stale" \in Answers
    BY DEF Answers
  <2>3. CASE Answer(s, "denied")
    BY <1>4, <2>1, <2>2, <2>3
  <2>4. CASE Matching(s) = {} /\ Answer(s, "stale")
    <3>1. Old.row = 0
      BY <1>1, <2>4 DEF Fits, Matching
    <3>. QED BY <1>4, <2>1, <2>2, <2>4, <3>1
  <2>5. CASE Reauthorized(s) /\ Expected(s) /\ Stage(s, "locked")
    BY <1>10, <2>1, <2>5
  <2>6. ASSUME NEW i \in Matching(s),
               submission' = [submission EXCEPT ![s].stage = "written", ![s].row = i]
        PROVE  Effect("written") /\ New.row = i
    <3>1. i \in 0..MaxDecisions
      <4>1. i \in 1..Len(ledger)
        BY DEF Matching, ChainOf
      <4>. QED BY <1>6, <4>1, ReviewAssumption
    <3>2. [Old EXCEPT !.stage = "written", !.row = i]
            = [Old EXCEPT !.stage = "written", !.seen = Old.seen, !.row = i]
      BY <1>1 DEF Submission
    <3>3. submission' = [submission EXCEPT
             ![s] = [Old EXCEPT !.stage = "written", !.seen = Old.seen, !.row = i]]
      BY <2>6, <3>2
    <3>. QED BY <1>6, <1>12, <2>1, <3>1, <3>3
  <2>. QED BY <2>1, <2>3, <2>4, <2>5, <2>6
<1>14. ASSUME ReadBack(s) PROVE Effect("reading")
  <2>1. [Old EXCEPT !.stage = "reading", !.seen = Len(ledger)]
          = [Old EXCEPT !.stage = "reading", !.seen = Len(ledger), !.row = Old.row]
    BY <1>1 DEF Submission
  <2>2. submission' = [submission EXCEPT
           ![s] = [Old EXCEPT !.stage = "reading", !.seen = Len(ledger), !.row = Old.row]]
    BY <1>14, <2>1 DEF ReadBack
  <2>. QED BY <1>6, <1>12, <1>14, <2>2 DEF ReadBack
<1>15. ASSUME Respond(s) \/ LoseAnswer(s) PROVE Effect("answered")
  <2>1. {"source_invalid", "ok", "lost"} \subseteq Answers
    BY DEF Answers
  <2>2. CASE Respond(s)
    BY <1>4, <2>1, <2>2 DEF Respond
  <2>3. CASE LoseAnswer(s)
    BY <1>4, <2>1, <2>3 DEF LoseAnswer
  <2>. QED BY <1>15, <2>2, <2>3
<1>16. ASSUME ClosePage(s) PROVE Effect("idle")
  <2>1. Becomes(NoSubmission) /\ New = NoSubmission
    BY <1>1, <1>16 DEF ClosePage, New
  <2>2. Fits(s, NoSubmission)
    BY Nobody DEF Fits, NoSubmission
  <2>. QED BY <2>1, <2>2 DEF NoSubmission
<1>17. CASE Prepare(s)
  BY <1>2, <1>7, <1>8, <1>9, <1>11, <1>17 DEF Prepare, New
<1>18. CASE Finish(s)
  BY <1>14, <1>15, <1>16, <1>18 DEF Finish, New
<1>. QED BY <1>13, <1>17, <1>18 DEF Moves, New

------------------------------------------------------------------------------
(* The invariant is preserved. *)

LEMMA MoveStep ==
    ASSUME ReviewInv, NEW s \in Submissions, Moves(s)
    PROVE  ReviewInv'
<1>1. /\ UNCHANGED <<reviewers, ledger>>
      /\ submission' = [submission EXCEPT ![s] = submission'[s]]
      /\ Fits(s, submission'[s])
  BY MoveEffect
<1>2. submission'[s].stage = "locked" =>
        /\ submission'[s].user = submission[s].user
        /\ submission'[s].assessment = submission[s].assessment
        /\ submission'[s].expected = submission[s].expected
        /\ LocksFree(s) /\ Reauthorized(s) /\ Expected(s)
  BY MoveEffect
<1>3. submission \in [Submissions -> Submission]
  BY DEF ReviewInv, TypeOK
<1>4. \A t \in Submissions : t # s => submission'[t] = submission[t]
  BY <1>1, <1>3
<1>5. TypeOK'
  BY <1>1, <1>3 DEF ReviewInv, TypeOK, Fits
<1>6. SubmissionsFit'
  <2>. SUFFICES ASSUME NEW t \in Submissions
       PROVE  /\ submission'[t].stage # "idle" =>
                   submission'[t].user \in Users /\ submission'[t].assessment \in Assessments
              /\ submission'[t].stage \notin {"idle", "page"} =>
                   submission'[t].content \in Contents
              /\ submission'[t].stage \in {"idle", "page"} => submission'[t].row = 0
              /\ submission'[t].stage # "answered" => submission'[t].answer = "none"
              /\ submission'[t].row # 0 =>
                   submission'[t].row \in Matching(t)' /\ submission'[t].answer # "stale"
    BY DEF SubmissionsFit
  <2>1. Fits(t, submission'[t])
    BY <1>1, <1>4, FitsNow
  <2>. QED BY <1>1, <2>1 DEF Fits, Matching, ChainOf
<1>7. LocksFit'
  <2>. SUFFICES ASSUME NEW t \in Submissions, submission'[t].stage = "locked"
       PROVE  /\ submission'[t].user \in reviewers'
              /\ submission'[t].expected = Newest(ledger', submission'[t].assessment)
              /\ \A u \in Submissions : u # t /\ submission'[u].stage = "locked" =>
                   submission'[u].assessment # submission'[t].assessment
    BY ExpectedIs DEF LocksFit
  <2>1. submission'[t].user \in reviewers
    BY <1>2, <1>4 DEF ReviewInv, LocksFit, Reauthorized
  <2>2. submission'[t].expected = Newest(ledger, submission'[t].assessment)
    BY <1>2, <1>4, ExpectedIs DEF ReviewInv, LocksFit
  <2>3. ASSUME NEW u \in Submissions, u # t, submission'[u].stage = "locked"
        PROVE  submission'[u].assessment # submission'[t].assessment
    <3>1. CASE u = s
      BY <1>2, <1>4, <2>3, <3>1 DEF LocksFree
    <3>2. CASE t = s
      BY <1>2, <1>4, <2>3, <3>2 DEF LocksFree
    <3>3. CASE u # s /\ t # s
      BY <1>4, <2>3, <3>3 DEF ReviewInv, LocksFit
    <3>. QED BY <3>1, <3>2, <3>3
  <2>. QED BY <1>1, <2>1, <2>2, <2>3
<1>8. ChainsFit'
  BY <1>1 DEF ReviewInv, ChainsFit
<1>. QED BY <1>5, <1>6, <1>7, <1>8 DEF ReviewInv

\* A decision that is committed continues the chain of its assessment.
LEMMA PlannedContinues ==
    ASSUME ReviewInv, NEW s \in Submissions, submission[s].stage = "locked",
           Len(ledger) < MaxDecisions
    PROVE  LET a == submission[s].assessment
               row == PlannedRow(s) IN
           /\ a \in Assessments /\ row \in Row
           /\ row.assessment = a /\ row.actor = submission[s].user
           /\ row.content = submission[s].content
           /\ row.supersedes = submission[s].expected
           /\ row.no = Cardinality(Chain(ledger, a)) + 1
           /\ row.supersedes = Newest(ledger, a)
           /\ row.actor \in reviewers
<1> DEFINE a == submission[s].assessment
           C == Cardinality(Chain(ledger, a))
<1>1. /\ a \in Assessments /\ submission[s].user \in Users
      /\ submission[s].content \in Contents
      /\ submission[s].expected = Current(a) /\ submission[s].user \in reviewers
  BY DEF ReviewInv, SubmissionsFit, LocksFit, Expected
<1>2. ledger \in Seq(Row) /\ ChainFits(ledger, a)
  BY <1>1 DEF ReviewInv, TypeOK, ChainsFit
<1>3. C \in Nat /\ C <= Len(ledger) /\ (Chain(ledger, a) = {} <=> C = 0)
  BY <1>2, ChainSize
<1>4. NextDecisionNo(a) = C + 1
  BY <1>2, <1>3, Present, NewestIs DEF NextDecisionNo
<1>5. C + 1 \in Rows
  BY <1>2, <1>3, ReviewAssumption DEF Rows
<1>6. Current(a) \in 0..MaxDecisions /\ Current(a) = Newest(ledger, a)
  BY <1>1, CurrentRange, Present
<1>. QED BY <1>1, <1>4, <1>5, <1>6 DEF PlannedRow, Row

LEMMA CommitStep ==
    ASSUME ReviewInv, NEW s \in Submissions, Commit(s)
    PROVE  ReviewInv'
<1> DEFINE a == submission[s].assessment
           row == PlannedRow(s)
           n == Len(ledger) + 1
           Old == submission[s]
           New == [Old EXCEPT !.stage = "written", !.row = n]
<1>1. /\ submission[s].stage = "locked" /\ Len(ledger) < MaxDecisions
      /\ ledger' = Append(ledger, row) /\ reviewers' = reviewers
      /\ submission' = [submission EXCEPT ![s] = New]
  BY DEF Commit
<1>2. /\ a \in Assessments /\ row \in Row
      /\ row.assessment = a /\ row.actor = Old.user /\ row.content = Old.content
      /\ row.supersedes = Old.expected
      /\ row.no = Cardinality(Chain(ledger, a)) + 1
      /\ row.supersedes = Newest(ledger, a)
  BY <1>1, PlannedContinues
<1>3. /\ ledger \in Seq(Row) /\ Len(ledger) \in Nat /\ Len(ledger) <= MaxDecisions
      /\ submission \in [Submissions -> Submission] /\ Fits(s, Old) /\ Old \in Submission
  BY FitsNow DEF ReviewInv, TypeOK
<1>. HIDE DEF row
<1>4. /\ ledger' \in Seq(Row) /\ Len(ledger') = n
      /\ \A i \in 1..Len(ledger) : ledger'[i] = ledger[i]
      /\ ledger'[n] = row
      /\ \A b : Chain(ledger', b) = IF b = a THEN Chain(ledger, b) \cup {n} ELSE Chain(ledger, b)
  BY <1>1, <1>2, <1>3, Appended
<1>5. n \in 0..MaxDecisions /\ n \in 1..n /\ n # 0 /\ 1..Len(ledger) \subseteq 1..n
  BY <1>1, <1>3, ReviewAssumption
<1>6. /\ New \in Submission /\ New.stage = "written" /\ New.row = n
      /\ New.user = Old.user /\ New.assessment = a /\ New.content = Old.content
      /\ New.expected = Old.expected /\ New.answer = Old.answer
  BY <1>3, <1>5 DEF Submission, Stages
<1>. HIDE DEF New, n
<1>7. submission'[s] = New /\ \A t \in Submissions : t # s => submission'[t] = submission[t]
  BY <1>1, <1>3
<1>8. TypeOK'
  BY <1>1, <1>3, <1>4, <1>5, <1>6 DEF ReviewInv, TypeOK
<1>9. ChainsFit'
  <2>. SUFFICES ASSUME NEW b \in Assessments PROVE ChainFits(ledger', b)
    BY DEF ChainsFit
  <2>1. ChainFits(ledger, b)
    BY DEF ReviewInv, ChainsFit
  <2>2. ChainFits(Append(ledger, row), b)
    BY <1>2, <1>3, <2>1, ChainsExtended
  <2>. QED BY <1>1, <2>2
<1>10. SubmissionsFit'
  <2>. SUFFICES ASSUME NEW t \in Submissions
       PROVE  /\ submission'[t].stage # "idle" =>
                   submission'[t].user \in Users /\ submission'[t].assessment \in Assessments
              /\ submission'[t].stage \notin {"idle", "page"} =>
                   submission'[t].content \in Contents
              /\ submission'[t].stage \in {"idle", "page"} => submission'[t].row = 0
              /\ submission'[t].stage # "answered" => submission'[t].answer = "none"
              /\ submission'[t].row # 0 =>
                   submission'[t].row \in Matching(t)' /\ submission'[t].answer # "stale"
    BY DEF SubmissionsFit
  <2>1. CASE t = s
    <3>1. n \in Chain(ledger', a) /\ ledger'[n] = row
      BY <1>4
    <3>2. \A b : ChainOf(b, Len(ledger))' = Chain(ledger', b)
      BY DEF ChainOf, Chain
    <3>. QED BY ZenonT(60), <1>1, <1>2, <1>3, <1>6, <1>7, <2>1, <3>1, <3>2 DEF Fits, Matching
  <2>2. CASE t # s
    <3>1. submission'[t] = submission[t] /\ Fits(t, submission[t])
      BY <1>7, <2>2, FitsNow
    <3>2. \A i \in Matching(t) : i \in Matching(t)'
      BY <1>4, <1>5, <3>1 DEF Matching, ChainOf
    <3>3. submission[t].row # 0 => submission[t].row \in Matching(t)
      BY <3>1 DEF Fits, Matching
    <3>. QED BY <3>1, <3>2, <3>3 DEF Fits
  <2>. QED BY <2>1, <2>2
<1>11. LocksFit'
  <2>. SUFFICES ASSUME NEW t \in Submissions, submission'[t].stage = "locked"
       PROVE  /\ submission'[t].user \in reviewers'
              /\ submission'[t].expected = Newest(ledger', submission'[t].assessment)
              /\ \A u \in Submissions : u # t /\ submission'[u].stage = "locked" =>
                   submission'[u].assessment # submission'[t].assessment
    BY ExpectedIs DEF LocksFit
  <2>1. t # s /\ submission'[t] = submission[t]
    BY <1>6, <1>7
  <2>2. /\ submission[t].user \in reviewers
        /\ submission[t].expected = Newest(ledger, submission[t].assessment)
        /\ submission[t].assessment # a
        /\ submission[t].assessment \in Assessments
    BY <1>1, <2>1, ExpectedIs DEF ReviewInv, LocksFit, SubmissionsFit
  <2>3. ASSUME NEW b \in Assessments, b # a PROVE Newest(ledger', b) = Newest(ledger, b)
    <3>1. Chain(ledger', b) = Chain(ledger, b)
      BY <1>4, <2>3
    <3>2. \A i \in Chain(ledger, b) : ledger'[i] = ledger[i]
      BY <1>4 DEF Chain
    <3>3. ChainFits(ledger, b) /\ ChainFits(ledger', b)
      BY <1>9 DEF ReviewInv, ChainsFit
    <3>. QED BY <1>3, <1>4, <3>1, <3>2, <3>3, NewestIs
  <2>5. \A u \in Submissions : u # t /\ submission'[u].stage = "locked" =>
          submission'[u].assessment # submission'[t].assessment
    BY <1>6, <1>7, <2>1 DEF ReviewInv, LocksFit
  <2>. QED BY <1>1, <2>1, <2>2, <2>3, <2>5
<1>. QED BY <1>8, <1>9, <1>10, <1>11 DEF ReviewInv

LEMMA RightsStep ==
    ASSUME ReviewInv, ChangeReviewers
    PROVE  ReviewInv'
<1>1. /\ UNCHANGED <<ledger, submission>> /\ reviewers' \subseteq Users
      /\ \A s \in Submissions : submission[s].stage = "locked" =>
           (submission[s].user \in reviewers <=> submission[s].user \in reviewers')
  BY DEF ChangeReviewers, ReviewInv, TypeOK
<1>2. TypeOK' /\ ChainsFit'
  BY <1>1 DEF ReviewInv, TypeOK, ChainsFit
<1>3. SubmissionsFit'
  BY <1>1 DEF ReviewInv, SubmissionsFit, Matching, ChainOf
<1>4. LocksFit'
  BY <1>1, ExpectedIs DEF ReviewInv, LocksFit
<1>. QED BY <1>2, <1>3, <1>4 DEF ReviewInv

(* Submissions fit the ledger and the locks they hold, and the decisions of each   *)
(* assessment are a chain: the inductive invariant.                                *)
THEOREM Invariance == Spec => []ReviewInv
<1>1. ReviewInv /\ [Next]_reviewVars => ReviewInv'
  <2>. SUFFICES ASSUME ReviewInv, [Next]_reviewVars PROVE ReviewInv'
    OBVIOUS
  <2>1. CASE \E s \in Submissions : Prepare(s) \/ BeginWrite(s) \/ Finish(s)
    BY <2>1, MoveStep DEF Moves
  <2>2. CASE \E s \in Submissions : Commit(s)
    BY <2>2, CommitStep
  <2>3. CASE ChangeReviewers
    BY <2>3, RightsStep
  <2>4. CASE UNCHANGED reviewVars
    <3>1. UNCHANGED <<reviewers, ledger, submission>>
      BY <2>4 DEF reviewVars
    <3>2. TypeOK' /\ ChainsFit'
      BY <3>1 DEF ReviewInv, TypeOK, ChainsFit
    <3>3. SubmissionsFit' /\ LocksFit'
      BY <3>1, ExpectedIs DEF ReviewInv, SubmissionsFit, LocksFit, Matching, ChainOf
    <3>. QED BY <3>2, <3>3 DEF ReviewInv
  <2>. QED BY <2>1, <2>2, <2>3, <2>4 DEF Next
<1>. QED BY <1>1, InitReview, PTL DEF Spec

\* The decisions about every assessment form one chain without forks or gaps, for any
\* number of reviewers, submissions and decisions: the locks of the write transaction
\* suffice, the unique constraints of the table are never needed.
THEOREM ChainTheorem == Spec => []DecisionsChain
<1>1. ReviewInv => DecisionsChain
  <2>. SUFFICES ASSUME ReviewInv, NEW a \in Assessments
       PROVE  LET chain == Chain(ledger, a) IN
              /\ {ledger[i].no : i \in chain} = 1..Cardinality(chain)
              /\ \A i \in chain :
                   IF ledger[i].no = 1 THEN ledger[i].supersedes = 0
                   ELSE /\ ledger[i].supersedes \in chain
                        /\ ledger[ledger[i].supersedes].no = ledger[i].no - 1
    BY Present DEF ReviewInv, DecisionsChain, OneChain
  <2>. QED BY DEF ReviewInv, ChainsFit, ChainFits
<1>. QED BY <1>1, Invariance, PTL

\* A submission whose decision is in the ledger is never told that it came too late.
THEOREM RepetitionTheorem == Spec => []CommittedIsNotStale
<1>1. ReviewInv => CommittedIsNotStale
  BY DEF ReviewInv, SubmissionsFit, CommittedIsNotStale
<1>. QED BY <1>1, Invariance, PTL

\* Nobody decides blindly: what a decision supersedes is what its author had seen.
THEOREM SeenTheorem == Spec => SupersedesWhatWasSeen
<1>1. ReviewInv /\ [Next]_reviewVars =>
        [\A s \in Submissions :
           submission'[s].stage = "written" /\ submission[s].stage # "written" =>
             ledger'[submission'[s].row].supersedes = submission[s].expected]_reviewVars
  <2>. SUFFICES ASSUME ReviewInv, Next, NEW s \in Submissions,
                       submission'[s].stage = "written", submission[s].stage # "written"
       PROVE  ledger'[submission'[s].row].supersedes = submission[s].expected
    OBVIOUS
  <2>1. submission \in [Submissions -> Submission] /\ ledger \in Seq(Row)
    BY DEF ReviewInv, TypeOK
  <2>2. ASSUME NEW t \in Submissions, Moves(t)
        PROVE  ledger'[submission'[s].row].supersedes = submission[s].expected
    <3>1. /\ ledger' = ledger /\ submission' = [submission EXCEPT ![t] = submission'[t]]
          /\ submission'[t].stage = "written" => submission'[t].row \in Matching(t)
      BY <2>2, MoveEffect
    <3>2. t = s
      BY <2>1, <3>1
    <3>. QED BY <3>1, <3>2 DEF Matching
  <2>4. ASSUME NEW t \in Submissions, Commit(t)
        PROVE  ledger'[submission'[s].row].supersedes = submission[s].expected
    <3>1. /\ t = s /\ submission'[s].row = Len(ledger) + 1
          /\ ledger' = Append(ledger, PlannedRow(s))
      BY <2>1, <2>4 DEF Commit, Submission
    <3>2. PlannedRow(s) \in Row /\ PlannedRow(s).supersedes = submission[s].expected
      BY <2>4, <3>1, PlannedContinues DEF Commit
    <3>. QED BY <2>1, <3>1, <3>2, Appended
  <2>5. CASE ChangeReviewers
    BY <2>5 DEF ChangeReviewers
  <2>. QED BY <2>2, <2>4, <2>5 DEF Next, Moves
<1>. QED BY <1>1, Invariance, PTL DEF Spec, SupersedesWhatWasSeen

------------------------------------------------------------------------------
(* The ledger implements the log. *)

Entry(L, a, no) == CHOOSE i \in Chain(L, a) : L[i].no = no
LogIn(L, a) ==
    [no \in 1..Cardinality(Chain(L, a)) |->
       [actor |-> L[Entry(L, a, no)].actor, content |-> L[Entry(L, a, no)].content]]

LEMMA LogIs ==
    \A a : LogOf(a) = LogIn(ledger, a) /\ LogOf(a)' = LogIn(ledger', a)
BY DEF LogOf, LogIn, EntryNo, Entry, ChainOf, Chain

\* Every number has one entry.
LEMMA EntryIs ==
    ASSUME NEW L, NEW a, ChainFits(L, a), NEW no \in 1..Cardinality(Chain(L, a))
    PROVE  /\ Entry(L, a, no) \in Chain(L, a) /\ L[Entry(L, a, no)].no = no
           /\ \A i \in Chain(L, a) : L[i].no = no => i = Entry(L, a, no)
<1>1. \E i \in Chain(L, a) : L[i].no = no
  BY DEF ChainFits
<1>2. Entry(L, a, no) \in Chain(L, a) /\ L[Entry(L, a, no)].no = no
  BY <1>1 DEF Entry
<1>. QED BY <1>2 DEF ChainFits

\* A decision that continues its chain is the next entry of its log, and of no other.
LEMMA LogGrows ==
    ASSUME NEW L \in Seq(Row), NEW a, NEW row \in Row,
           ChainFits(L, a), ChainFits(Append(L, row), a),
           row.assessment = a => row.no = Cardinality(Chain(L, a)) + 1
    PROVE  LogIn(Append(L, row), a) =
             IF row.assessment = a
             THEN Append(LogIn(L, a), [actor |-> row.actor, content |-> row.content])
             ELSE LogIn(L, a)
<1> DEFINE M == Append(L, row)
           C == Cardinality(Chain(L, a))
           entry == [actor |-> row.actor, content |-> row.content]
<1>1. /\ \A i \in Chain(L, a) : M[i] = L[i]
      /\ M[Len(L) + 1] = row /\ Len(L) + 1 \notin Chain(L, a)
      /\ Chain(M, a) = IF a = row.assessment
                       THEN Chain(L, a) \cup {Len(L) + 1} ELSE Chain(L, a)
  BY Appended DEF Chain
<1>2. C \in Nat /\ IsFiniteSet(Chain(L, a)) /\ ChainFits(M, a)
  BY ChainSize
<1>. HIDE DEF M
<1>3. \A no \in 1..C : no \in 1..Cardinality(Chain(M, a)) => Entry(M, a, no) = Entry(L, a, no)
  <2>. SUFFICES ASSUME NEW no \in 1..C, no \in 1..Cardinality(Chain(M, a))
       PROVE  Entry(M, a, no) = Entry(L, a, no)
    OBVIOUS
  <2>1. Entry(L, a, no) \in Chain(L, a) /\ L[Entry(L, a, no)].no = no
    BY EntryIs
  <2>2. Entry(L, a, no) \in Chain(M, a) /\ M[Entry(L, a, no)].no = no
    BY <1>1, <2>1
  <2>. QED BY <1>2, <2>2, EntryIs
<1>4. CASE a # row.assessment
  <2>1. Chain(M, a) = Chain(L, a)
    BY <1>1, <1>4
  <2>2. \A no \in 1..C : M[Entry(M, a, no)] = L[Entry(L, a, no)]
    BY <1>1, <1>3, <2>1, EntryIs
  <2>3. LogIn(M, a) = LogIn(L, a)
    BY <2>1, <2>2 DEF LogIn
  <2>. QED BY <1>4, <2>3 DEF M
<1>5. CASE a = row.assessment
  <2>1. Cardinality(Chain(M, a)) = C + 1
    <3>1. Chain(M, a) = Chain(L, a) \cup {Len(L) + 1}
      BY <1>1, <1>5
    <3>. QED BY <1>1, <1>2, <3>1, FS_AddElement
  <2>2. \A no \in 1..C : M[Entry(M, a, no)] = L[Entry(L, a, no)]
    BY <1>1, <1>2, <1>3, <2>1, EntryIs
  <2>3. M[Entry(M, a, C + 1)] = row
    <3>1. Len(L) + 1 \in Chain(M, a) /\ M[Len(L) + 1].no = C + 1 /\ C + 1 \in 1..(C + 1)
      BY <1>1, <1>2, <1>5
    <3>2. Len(L) + 1 = Entry(M, a, C + 1)
      BY <1>2, <2>1, <3>1, EntryIs
    <3>. QED BY <1>1, <3>2
  <2>4. LogIn(M, a) = [no \in 1..(C + 1) |-> IF no = C + 1 THEN entry ELSE LogIn(L, a)[no]]
    BY <1>2, <2>1, <2>2, <2>3 DEF LogIn
  <2>5. /\ LogIn(L, a) \in Seq({LogIn(L, a)[no] : no \in 1..C}) /\ Len(LogIn(L, a)) = C
    BY SMTT(60), <1>2 DEF LogIn
  <2>6. Append(LogIn(L, a), entry)
          = [no \in 1..(C + 1) |-> IF no = C + 1 THEN entry ELSE LogIn(L, a)[no]]
    BY <1>2, <2>5
  <2>. QED BY <1>5, <2>4, <2>6 DEF M
<1>. QED BY <1>4, <1>5

LogNow == [a \in Assessments |-> LogOf(a)]

LEMMA LogInit == Init => Log!Init
<1>. SUFFICES ASSUME Init PROVE Log!Init
  OBVIOUS
<1>1. \A a : LogOf(a) = << >>
  <2>1. \A a : Chain(<< >>, a) = {}
    BY DEF Chain
  <2>2. \A a : LogIn(<< >>, a) = << >>
    BY <2>1, FS_EmptySet DEF LogIn
  <2>. QED BY <2>2, LogIs DEF Init
<1>. QED BY <1>1 DEF Init, Log!Init

LEMMA LogQuiet ==
    ASSUME ledger' = ledger
    PROVE  LogNow' = LogNow
BY LogIs DEF LogNow

LEMMA LogStep ==
    ASSUME ReviewInv, ReviewInv', [Next]_reviewVars
    PROVE  [Log!Next]_(Log!logVars)
<1>1. CASE \E s \in Submissions : Commit(s)
  <2>1. PICK s \in Submissions : Commit(s)
    BY <1>1
  <2> DEFINE a == submission[s].assessment
             row == PlannedRow(s)
             entry == [actor |-> row.actor, content |-> row.content]
  <2>2. /\ ledger' = Append(ledger, row) /\ reviewers' = reviewers
        /\ submission[s].stage = "locked" /\ Len(ledger) < MaxDecisions
    BY <2>1 DEF Commit
  <2>3. /\ a \in Assessments /\ row \in Row
        /\ row.assessment = a /\ row.actor \in reviewers
        /\ row.no = Cardinality(Chain(ledger, a)) + 1
    BY <2>2, PlannedContinues
  <2>4. row.actor \in Users /\ row.content \in Contents
    BY <2>3 DEF Row
  <2>. HIDE DEF row, a
  <2>5. \A b \in Assessments : LogOf(b)' = IF b = a THEN Append(LogOf(b), entry) ELSE LogOf(b)
    <3>. TAKE b \in Assessments
    <3>1. /\ ledger \in Seq(Row) /\ ChainFits(ledger, b) /\ ChainFits(Append(ledger, row), b)
      BY <2>2 DEF ReviewInv, TypeOK, ChainsFit
    <3>2. LogIn(ledger', b) = IF row.assessment = b THEN Append(LogIn(ledger, b), entry)
                              ELSE LogIn(ledger, b)
      BY <2>2, <2>3, <3>1, LogGrows
    <3>. QED BY <2>3, <3>2, LogIs
  <2>6. LogNow' = [LogNow EXCEPT ![a] = Append(LogNow[a], entry)]
    BY <2>3, <2>5 DEF LogNow
  <2>7. Log!Decide(a, row.actor, row.content)
    BY <2>2, <2>3, <2>6 DEF Log!Decide, LogNow
  <2>. QED BY <2>3, <2>4, <2>7 DEF Log!Next
<1>2. CASE ChangeReviewers
  <2>1. LogNow' = LogNow /\ reviewers' \in SUBSET Users
    BY <1>2, LogQuiet DEF ChangeReviewers, ReviewInv, TypeOK
  <2>. QED BY <2>1 DEF Log!Next, Log!Reappoint, LogNow
<1>3. CASE \E s \in Submissions : Prepare(s) \/ BeginWrite(s) \/ Finish(s)
  <2>1. UNCHANGED <<reviewers, ledger>>
    BY <1>3, MoveEffect DEF Moves
  <2>2. LogNow' = LogNow
    BY <2>1, LogQuiet
  <2>. QED BY <2>1, <2>2 DEF Log!logVars, LogNow
<1>4. CASE UNCHANGED reviewVars
  <2>1. UNCHANGED <<reviewers, ledger>>
    BY <1>4 DEF reviewVars
  <2>2. LogNow' = LogNow
    BY <2>1, LogQuiet
  <2>. QED BY <2>1, <2>2 DEF Log!logVars, LogNow
<1>. QED BY <1>1, <1>2, <1>3, <1>4 DEF Next

\* Submissions, repetitions, lost answers and changing rights implement the log of
\* each assessment, which only grows at its end and by present reviewers.
THEOREM Implements == Spec => ImplementsLog
BY LogInit, LogStep, Invariance, PTL DEF Spec, ImplementsLog, Log!Spec

------------------------------------------------------------------------------
(* Project versions: the invariant. *)

\* Only one creation holds the project.
OneCreation ==
    \A c, d \in Creations :
      creation[c].stage # "idle" /\ creation[d].stage # "idle" => c = d

\* A creation in progress has an id and a creator, and what it read of the review
\* is the present.
CreationsFit ==
    \A c \in Creations :
      /\ creation[c].stage # "idle" =>
           creation[c].id \in VersionIds /\ creation[c].creator \in Users
      /\ creation[c].stage = "reading" => creation[c].seen = Len(ledger)
      /\ creation[c].stage = "prepared" => creation[c].view = PresentView

VersionsInv ==
    /\ ReviewInv /\ VersionsTypeOK
    /\ OneCreation /\ CreationsFit /\ NewestIsCurrent

\* What versions show of an assessment only moves forward, up to the present.
ViewsMoveForward ==
    \A i \in 1..Len(versions) : \A a \in Assessments :
      /\ versions[i].view[a] <= Current(a)
      /\ \A j \in 1..Len(versions) : i <= j => versions[i].view[a] <= versions[j].view[a]

------------------------------------------------------------------------------
(* The creations. *)

LEMMA PresentIsView ==
    ASSUME ReviewInv
    PROVE  PresentView \in View /\ ViewAt(Len(ledger)) = PresentView
           /\ Len(ledger) \in 0..MaxDecisions
<1>1. \A a \in Assessments : Current(a) \in 0..MaxDecisions
  BY CurrentRange
<1>2. Len(ledger) \in 0..MaxDecisions
  BY ReviewAssumption DEF ReviewInv, TypeOK
<1>. QED BY <1>1, <1>2 DEF PresentView, View, ViewAt, Current

LEMMA NoneCreated ==
    /\ NoCreation \in Creation /\ NoCreation.stage = "idle"
    /\ NoCreation.id = None /\ NoCreation.creator = None
<1>1. 0 \in 0..MaxDecisions
  BY ReviewAssumption
<1>2. EmptyView \in View
  BY <1>1 DEF EmptyView, View
<1>. QED BY <1>1, <1>2 DEF NoCreation, Creation

LEMMA ViewKept ==
    ASSUME ledger' = ledger
    PROVE  PresentView' = PresentView /\ \A a : Current(a)' = Current(a)
BY DEF PresentView, Current, Leaf, ChainOf

\* What the record of a creation may be.
CreationFits(record) ==
    /\ record \in Creation
    /\ record.stage # "idle" => record.id \in VersionIds /\ record.creator \in Users
    /\ record.stage = "reading" => record.seen = Len(ledger)
    /\ record.stage = "prepared" => record.view = PresentView

LEMMA CreationFitsNow ==
    ASSUME VersionsInv, NEW c \in Creations
    PROVE  CreationFits(creation[c])
BY DEF VersionsInv, VersionsTypeOK, CreationsFit, CreationFits

\* A creation that held the project, or took it while nobody did, goes on.
LEMMA CreationStep ==
    ASSUME VersionsInv, UNCHANGED reviewVars, NEW c \in Creations, NEW record,
           creation' = [creation EXCEPT ![c] = record], CreationFits(record),
           record.stage # "idle" => creation[c].stage # "idle" \/ ~ProjectHeld
    PROVE  ReviewInv' /\ TypeOK' /\ creation' \in [Creations -> Creation]
           /\ OneCreation' /\ CreationsFit'
<1>1. UNCHANGED <<reviewers, ledger, submission>>
  BY DEF reviewVars
<1>2. ReviewInv' /\ TypeOK'
  <2>1. TypeOK' /\ ChainsFit'
    BY <1>1 DEF VersionsInv, ReviewInv, TypeOK, ChainsFit
  <2>2. SubmissionsFit' /\ LocksFit'
    BY <1>1, ExpectedIs DEF VersionsInv, ReviewInv, SubmissionsFit, LocksFit, Matching, ChainOf
  <2>. QED BY <2>1, <2>2 DEF ReviewInv
<1>3. /\ creation \in [Creations -> Creation] /\ creation'[c] = record
      /\ \A d \in Creations : d # c => creation'[d] = creation[d]
  BY DEF VersionsInv, VersionsTypeOK
<1>4. creation' \in [Creations -> Creation]
  BY <1>3 DEF CreationFits
<1>5. OneCreation'
  BY <1>3 DEF VersionsInv, OneCreation, ProjectHeld
<1>6. CreationsFit'
  <2>1. PresentView' = PresentView
    BY <1>1, ViewKept
  <2>. SUFFICES ASSUME NEW d \in Creations
       PROVE  /\ creation'[d].stage # "idle" =>
                   creation'[d].id \in VersionIds /\ creation'[d].creator \in Users
              /\ creation'[d].stage = "reading" => creation'[d].seen = Len(ledger)
              /\ creation'[d].stage = "prepared" => creation'[d].view = PresentView
    BY <1>1, <2>1 DEF CreationsFit
  <2>2. CreationFits(creation'[d])
    BY <1>3, CreationFitsNow
  <2>. QED BY <2>2 DEF CreationFits
<1>. QED BY <1>2, <1>4, <1>5, <1>6

\* Versions stay as they are.
LEMMA NoVersionStep ==
    ASSUME VersionsInv, UNCHANGED <<reviewVars, versions, current>>,
           NEW c \in Creations, NEW record,
           creation' = [creation EXCEPT ![c] = record], CreationFits(record),
           record.stage # "idle" => creation[c].stage # "idle" \/ ~ProjectHeld
    PROVE  VersionsInv'
<1>1. /\ ReviewInv' /\ TypeOK' /\ creation' \in [Creations -> Creation]
      /\ OneCreation' /\ CreationsFit'
  BY CreationStep
<1>2. NewestIsCurrent'
  BY DEF VersionsInv, NewestIsCurrent, Stored
<1>3. VersionsTypeOK'
  BY <1>1 DEF VersionsInv, VersionsTypeOK
<1>. QED BY <1>1, <1>2, <1>3 DEF VersionsInv

LEMMA LockProjectStep ==
    ASSUME VersionsInv, NEW c \in Creations, NEW id \in VersionIds, NEW user \in Users,
           LockProject(c, id, user)
    PROVE  VersionsInv'
<1>. DEFINE record == [NoCreation EXCEPT !.stage = "locked", !.id = id, !.creator = user]
<1>1. /\ record \in Creation /\ record.stage = "locked"
      /\ record.id = id /\ record.creator = user
  BY NoneCreated DEF Creation
<1>2. /\ UNCHANGED <<reviewVars, versions, current>> /\ ~ProjectHeld
      /\ creation' = [creation EXCEPT ![c] = record]
  BY DEF LockProject
<1>. HIDE DEF record
<1>3. CreationFits(record)
  BY <1>1 DEF CreationFits
<1>. QED BY <1>2, <1>3, NoVersionStep

LEMMA StartPreparingStep ==
    ASSUME VersionsInv, NEW c \in Creations, StartPreparing(c)
    PROVE  VersionsInv'
<1>. DEFINE record == [creation[c] EXCEPT !.stage = "reading", !.seen = Len(ledger)]
<1>1. /\ CreationFits(creation[c]) /\ creation[c].stage = "locked"
      /\ Len(ledger) \in 0..MaxDecisions
  BY CreationFitsNow, PresentIsView DEF StartPreparing, VersionsInv
<1>2. /\ record \in Creation /\ record.stage = "reading" /\ record.seen = Len(ledger)
      /\ record.id = creation[c].id /\ record.creator = creation[c].creator
  BY <1>1 DEF CreationFits, Creation
<1>3. creation' = [creation EXCEPT ![c] = record]
  <2>1. creation \in [Creations -> Creation]
    BY DEF VersionsInv, VersionsTypeOK
  <2>. QED BY <2>1 DEF StartPreparing, Creation
<1>4. UNCHANGED <<reviewVars, versions, current>>
  BY DEF StartPreparing
<1>. HIDE DEF record
<1>5. CreationFits(record)
  BY <1>1, <1>2 DEF CreationFits
<1>. QED BY <1>1, <1>3, <1>4, <1>5, NoVersionStep

\* Nothing was committed since the reading began, so it cannot be torn.
LEMMA FinishPreparingStep ==
    ASSUME VersionsInv, NEW c \in Creations, FinishPreparing(c)
    PROVE  VersionsInv'
<1>. DEFINE record == [creation[c] EXCEPT !.stage = "prepared",
                                          !.view = ViewAt(creation[c].seen)]
<1>1. /\ CreationFits(creation[c]) /\ creation[c].stage = "reading"
      /\ creation[c].seen = Len(ledger) /\ Len(ledger) \in Nat
      /\ ViewAt(Len(ledger)) = PresentView /\ PresentView \in View
  BY CreationFitsNow, PresentIsView DEF FinishPreparing, VersionsInv, CreationFits
<1>2. ~Torn(creation[c].seen)
  BY <1>1 DEF Torn
<1>3. creation' = [creation EXCEPT ![c] = record] /\ UNCHANGED <<reviewVars, versions, current>>
  BY <1>2 DEF FinishPreparing
<1>4. /\ record \in Creation /\ record.stage = "prepared" /\ record.view = PresentView
      /\ record.id = creation[c].id /\ record.creator = creation[c].creator
  BY <1>1 DEF CreationFits, Creation
<1>. HIDE DEF record
<1>5. CreationFits(record)
  BY <1>1, <1>4 DEF CreationFits
<1>. QED BY <1>1, <1>3, <1>5, NoVersionStep

LEMMA EndStep ==
    ASSUME VersionsInv, NEW c \in Creations, AnswerExisting(c) \/ AbortCreation(c)
    PROVE  VersionsInv'
<1>1. CreationFits(NoCreation) /\ NoCreation.stage = "idle"
  BY NoneCreated DEF CreationFits
<1>2. /\ creation' = [creation EXCEPT ![c] = NoCreation]
      /\ UNCHANGED <<reviewVars, versions, current>>
  BY DEF AnswerExisting, AbortCreation
<1>. QED BY <1>1, <1>2, NoVersionStep

------------------------------------------------------------------------------
(* The versions. *)

\* The next number is larger than all that were given.
LEMMA NextIsNew ==
    ASSUME VersionsInv
    PROVE  /\ NextVersionNo \in Nat \ {0}
           /\ \A w \in Stored : w \in Version /\ w.no < NextVersionNo
<1>1. \A w \in Stored : w \in Version /\ w.no \in Nat \ {0}
  <2>1. \A i \in 1..Len(versions) : versions[i] \in Version
    BY DEF VersionsInv, VersionsTypeOK
  <2>2. \A w \in Version : w.no \in Nat \ {0}
    BY DEF Version
  <2>. QED BY <2>1, <2>2 DEF Stored
<1>2. CASE Stored = {}
  BY <1>2 DEF NextVersionNo
<1>3. CASE Stored # {}
  <2>. DEFINE last == CHOOSE v \in Stored : \A w \in Stored : w.no <= v.no
  <2>1. \E v \in Stored : \A w \in Stored : w.no <= v.no
    BY <1>3 DEF VersionsInv, NewestIsCurrent
  <2>2. last \in Stored /\ \A w \in Stored : w.no <= last.no
    BY <2>1
  <2>3. NextVersionNo = last.no + 1
    BY <1>3 DEF NextVersionNo
  <2>. HIDE DEF last
  <2>. QED BY <1>1, <2>2, <2>3
<1>. QED BY <1>2, <1>3

LEMMA InsertVersionStep ==
    ASSUME VersionsInv, NEW c \in Creations, InsertVersion(c)
    PROVE  /\ VersionsInv'
           /\ Len(versions') = Len(versions) + 1 /\ Len(versions) \in Nat
           /\ versions'[Len(versions')].view = PresentView
           /\ \A i \in 1..Len(versions) : versions'[i] = versions[i]
<1>. DEFINE new == [id |-> creation[c].id, no |-> NextVersionNo,
                    creator |-> creation[c].creator, view |-> creation[c].view]
            n == Len(versions) + 1
<1>1. /\ creation[c].stage = "prepared" /\ CreationFits(creation[c])
      /\ versions' = Append(versions, new) /\ current' = new.id
      /\ creation' = [creation EXCEPT ![c] = NoCreation] /\ UNCHANGED reviewVars
  BY CreationFitsNow DEF InsertVersion
<1>2. /\ versions \in Seq(Version) /\ Len(versions) \in Nat
  BY DEF VersionsInv, VersionsTypeOK
<1>3. /\ new \in Version /\ new.no = NextVersionNo /\ new.id \in VersionIds
      /\ new.view = PresentView
  <2>1. /\ creation[c].id \in VersionIds /\ creation[c].creator \in Users
        /\ creation[c].view = PresentView
    BY <1>1 DEF CreationFits
  <2>2. PresentView \in View /\ NextVersionNo \in Nat \ {0}
    BY PresentIsView, NextIsNew DEF VersionsInv
  <2>. QED BY <2>1, <2>2 DEF Version
<1>. HIDE DEF new
<1>4. /\ versions' \in Seq(Version) /\ Len(versions') = n /\ versions'[n] = new
      /\ \A i \in 1..Len(versions) : versions'[i] = versions[i]
  BY <1>1, <1>2, <1>3
<1>5. Stored' = Stored \cup {new}
  <2>1. Stored' = {versions'[i] : i \in 1..n}
    BY <1>4 DEF Stored
  <2>2. 1..n = (1..Len(versions)) \cup {n}
    BY <1>2
  <2>. QED BY <1>4, <2>1, <2>2 DEF Stored
<1>6. /\ ReviewInv' /\ TypeOK' /\ creation' \in [Creations -> Creation]
      /\ OneCreation' /\ CreationsFit'
  <2>1. CreationFits(NoCreation) /\ NoCreation.stage = "idle"
    BY NoneCreated DEF CreationFits
  <2>. QED BY <1>1, <2>1, CreationStep
<1>7. \A w \in Stored : w.no < new.no /\ w.no \in Nat /\ new.no \in Nat
  BY <1>3, NextIsNew DEF Version
<1>8. NewestIsCurrent'
  <2>1. \A v, w \in Stored' : v.no = w.no => v = w
    <3>. SUFFICES ASSUME NEW v \in Stored \cup {new}, NEW w \in Stored \cup {new}, v.no = w.no
         PROVE  v = w
      BY <1>5
    <3>1. CASE v \in Stored /\ w \in Stored
      BY <3>1 DEF VersionsInv, NewestIsCurrent
    <3>2. CASE v = new \/ w = new
      BY <3>2, <1>7
    <3>. QED BY <3>1, <3>2
  <2>2. new \in Stored' /\ new.id = current' /\ \A w \in Stored' : w.no <= new.no
    BY <1>1, <1>5, <1>7, <1>3 DEF Version
  <2>. QED BY <2>1, <2>2 DEF NewestIsCurrent
<1>9. VersionsTypeOK'
  BY <1>1, <1>3, <1>4, <1>6 DEF VersionsTypeOK
<1>. QED BY <1>2, <1>3, <1>4, <1>6, <1>8, <1>9 DEF VersionsInv

------------------------------------------------------------------------------
(* The decisions. *)

\* While the project is held no decision is committed.
LEMMA DecideStep ==
    ASSUME VersionsInv, NEW s \in Submissions, Decide(s)
    PROVE  VersionsInv' /\ UNCHANGED versions
<1>1. versions' = versions /\ current' = current /\ creation' = creation
  BY DEF Decide, versionVars
<1>2. ReviewInv' /\ TypeOK'
  BY MoveStep, CommitStep DEF Decide, Moves, VersionsInv, ReviewInv
<1>3. ledger' = ledger \/ ~ProjectHeld
  BY MoveEffect DEF Decide, Moves, DecisionMayCommit, VersionsInv
<1>4. CreationsFit'
  <2>1. CASE ledger' = ledger
    BY <1>1, <2>1, ViewKept DEF VersionsInv, CreationsFit
  <2>2. CASE ~ProjectHeld
    BY <1>1, <2>2 DEF CreationsFit, ProjectHeld
  <2>. QED BY <1>3, <2>1, <2>2
<1>5. VersionsTypeOK' /\ OneCreation' /\ NewestIsCurrent'
  BY <1>1, <1>2 DEF VersionsInv, VersionsTypeOK, OneCreation, NewestIsCurrent, Stored
<1>. QED BY <1>1, <1>2, <1>4, <1>5 DEF VersionsInv

LEMMA ReviewersStep ==
    ASSUME VersionsInv, ChangeReviewers, UNCHANGED versionVars
    PROVE  VersionsInv' /\ UNCHANGED versions
<1>1. versions' = versions /\ current' = current /\ creation' = creation /\ ledger' = ledger
  BY DEF versionVars, ChangeReviewers
<1>2. ReviewInv' /\ TypeOK'
  BY RightsStep DEF VersionsInv, ReviewInv
<1>3. CreationsFit'
  BY <1>1, ViewKept DEF VersionsInv, CreationsFit
<1>4. VersionsTypeOK' /\ OneCreation' /\ NewestIsCurrent'
  BY <1>1, <1>2 DEF VersionsInv, VersionsTypeOK, OneCreation, NewestIsCurrent, Stored
<1>. QED BY <1>1, <1>2, <1>3, <1>4 DEF VersionsInv

LEMMA CreateStep ==
    ASSUME VersionsInv, NEW c \in Creations, Create(c)
    PROVE  VersionsInv' /\ VersionShowsPresent
<1>1. CASE InsertVersion(c)
  BY <1>1, InsertVersionStep DEF VersionShowsPresent
<1>2. CASE ~InsertVersion(c)
  <2>1. UNCHANGED versions
    BY <1>2 DEF Create, LockProject, StartPreparing, FinishPreparing, AnswerExisting,
       AbortCreation
  <2>2. VersionsInv'
    BY <1>2, LockProjectStep, StartPreparingStep, FinishPreparingStep, EndStep DEF Create
  <2>. QED BY <2>1, <2>2 DEF VersionShowsPresent
<1>. QED BY <1>1, <1>2

------------------------------------------------------------------------------
(* The theorems. *)

LEMMA InitVersions == VersionsInit => VersionsInv
<1>. SUFFICES ASSUME VersionsInit PROVE VersionsInv
  OBVIOUS
<1>1. ReviewInv /\ TypeOK
  BY InitReview DEF VersionsInit, ReviewInv
<1>2. VersionsTypeOK
  BY <1>1, NoneCreated DEF VersionsInit, VersionsTypeOK
<1>3. OneCreation /\ CreationsFit
  BY NoneCreated DEF VersionsInit, OneCreation, CreationsFit
<1>4. NewestIsCurrent
  BY DEF VersionsInit, NewestIsCurrent, Stored
<1>. QED BY <1>1, <1>2, <1>3, <1>4 DEF VersionsInv

LEMMA VersionsStep ==
    ASSUME VersionsInv, [VersionsNext]_vars
    PROVE  VersionsInv' /\ VersionShowsPresent
<1>1. ASSUME NEW s \in Submissions, Decide(s) PROVE VersionsInv' /\ VersionShowsPresent
  BY <1>1, DecideStep DEF VersionShowsPresent
<1>2. CASE ChangeReviewers /\ UNCHANGED versionVars
  BY <1>2, ReviewersStep DEF VersionShowsPresent
<1>3. ASSUME NEW c \in Creations, Create(c) PROVE VersionsInv' /\ VersionShowsPresent
  BY <1>3, CreateStep
<1>4. CASE UNCHANGED vars
  <2>1. /\ UNCHANGED <<reviewers, ledger, submission>>
        /\ versions' = versions /\ current' = current /\ creation' = creation
    BY <1>4 DEF vars, reviewVars, versionVars
  <2>2. ReviewInv' /\ TypeOK'
    <3>1. TypeOK' /\ ChainsFit'
      BY <2>1 DEF VersionsInv, ReviewInv, TypeOK, ChainsFit
    <3>2. SubmissionsFit' /\ LocksFit'
      BY <2>1, ExpectedIs DEF VersionsInv, ReviewInv, SubmissionsFit, LocksFit, Matching, ChainOf
    <3>. QED BY <3>1, <3>2 DEF ReviewInv
  <2>3. CreationsFit'
    BY <2>1, ViewKept DEF VersionsInv, CreationsFit
  <2>4. VersionsTypeOK' /\ OneCreation' /\ NewestIsCurrent'
    BY <2>1, <2>2 DEF VersionsInv, VersionsTypeOK, OneCreation, NewestIsCurrent, Stored
  <2>. QED BY <2>1, <2>2, <2>3, <2>4 DEF VersionsInv, VersionShowsPresent
<1>. QED BY <1>1, <1>2, <1>3, <1>4 DEF VersionsNext

(* One creation at a time, numbers and ids unique, the newest version current,  *)
(* and a prepared view still the present one: the inductive invariant.         *)
THEOREM VersionsInvariant == VersionsSpec => []VersionsInv
BY InitVersions, VersionsStep, PTL DEF VersionsSpec

(* A version is frozen with the decisions that are current when it is          *)
(* inserted, and the newest one is the current one of the project              *)
(* (create_project_version in project_version.py).                             *)
THEOREM ForwardTheorem == VersionsSpec => VersionsMoveForward
<1>1. VersionsInv /\ [VersionsNext]_vars =>
        [VersionShowsPresent /\ VersionsTypeOK' /\ NewestIsCurrent']_vars
  BY VersionsStep DEF VersionsInv
<1>. QED BY <1>1, VersionsInvariant, PTL DEF VersionsSpec, VersionsMoveForward

------------------------------------------------------------------------------
(* Later versions show later reviews. *)

\* A decision that is committed comes after the one that was current.
LEMMA CurrentGrows ==
    ASSUME ReviewInv, NEW s \in Submissions, Commit(s), NEW b \in Assessments
    PROVE  /\ Current(b) \in Nat /\ Current(b)' \in Nat
           /\ Current(b) <= Current(b)'
<1>. DEFINE a == submission[s].assessment
            row == PlannedRow(s)
            n == Len(ledger) + 1
<1>1. /\ submission[s].stage = "locked" /\ Len(ledger) < MaxDecisions
      /\ ledger' = Append(ledger, row)
  BY DEF Commit
<1>2. row \in Row /\ row.assessment = a
  BY <1>1, PlannedContinues
<1>3. ledger \in Seq(Row) /\ Len(ledger) \in Nat /\ ledger' \in Seq(Row)
  BY <1>1, <1>2 DEF ReviewInv, TypeOK
<1>4. ReviewInv'
  BY CommitStep
<1>5. /\ Current(b) = Newest(ledger, b) /\ Current(b)' = Newest(ledger', b)
  BY DEF Current, Leaf, ChainOf, Newest, Chain
<1>6. ChainFits(ledger, b) /\ ChainFits(ledger', b)
  BY <1>4 DEF ReviewInv, ChainsFit
<1>7. /\ Newest(ledger, b) = 0 \/ Newest(ledger, b) \in Chain(ledger, b)
      /\ Newest(ledger', b) = 0 \/ Newest(ledger', b) \in Chain(ledger', b)
      /\ Newest(ledger', b) = 0 <=> Chain(ledger', b) = {}
  BY <1>3, <1>6, NewestIs
<1>. HIDE DEF row
<1>8. /\ \A i \in 1..Len(ledger) : ledger'[i] = ledger[i]
      /\ Chain(ledger', b) = IF b = a THEN Chain(ledger, b) \cup {n} ELSE Chain(ledger, b)
  BY <1>1, <1>2, <1>3, Appended
<1>9. \A i \in Chain(ledger, b) : i \in Nat /\ i < n /\ ledger'[i] = ledger[i]
  BY <1>3, <1>8 DEF Chain
<1>10. Newest(ledger, b) \in Nat /\ Newest(ledger', b) \in Nat /\ Newest(ledger, b) < n
  <2>1. \A i \in Chain(ledger', b) : i \in Nat
    BY DEF Chain
  <2>. QED BY <1>3, <1>7, <1>9, <2>1
<1>11. CASE b # a
  <2>1. Chain(ledger', b) = Chain(ledger, b)
    BY <1>8, <1>11
  <2>2. Newest(ledger', b) = Newest(ledger, b)
    BY <1>3, <1>6, <1>9, <2>1, NewestIs
  <2>. QED BY <1>5, <1>10, <2>2
<1>12. CASE b = a
  <2>1. /\ ledger'[n].no = Cardinality(Chain(ledger, b)) + 1 /\ n \in Chain(ledger', b)
    <3>1. row.no = Cardinality(Chain(ledger, b)) + 1
      BY <1>1, <1>12, PlannedContinues DEF row
    <3>2. ledger'[n] = row
      BY <1>1, <1>3
    <3>. QED BY <1>8, <1>12, <3>1, <3>2
  <2>2. Cardinality(Chain(ledger', b)) = Cardinality(Chain(ledger, b)) + 1
    <3>1. IsFiniteSet(Chain(ledger, b)) /\ n \notin Chain(ledger, b)
      BY <1>3, <1>9, ChainSize
    <3>. QED BY <1>8, <1>12, <3>1, FS_AddElement
  <2>3. Newest(ledger', b) = n
    BY <1>3, <1>6, <2>1, <2>2, NewestIs
  <2>. QED BY <1>5, <1>10, <2>3
<1>. QED BY <1>11, <1>12

LEMMA ForwardStep ==
    ASSUME VersionsInv, ViewsMoveForward, [VersionsNext]_vars
    PROVE  ViewsMoveForward'
<1>1. /\ versions \in Seq(Version) /\ Len(versions) \in Nat
      /\ \A a \in Assessments : Current(a) \in Nat
      /\ \A i \in 1..Len(versions), a \in Assessments : versions[i].view[a] \in Nat
  <2>1. \A i \in 1..Len(versions) : versions[i].view \in View
    <3>1. \A i \in 1..Len(versions) : versions[i] \in Version
      BY DEF VersionsInv, VersionsTypeOK
    <3>2. \A v \in Version : v.view \in View
      BY DEF Version
    <3>. QED BY <3>1, <3>2
  <2>. QED BY <2>1, CurrentRange DEF VersionsInv, VersionsTypeOK, View
<1>2. ASSUME versions' = versions,
             \A a \in Assessments : Current(a)' \in Nat /\ Current(a) <= Current(a)'
      PROVE  ViewsMoveForward'
  BY <1>1, <1>2 DEF ViewsMoveForward
<1>3. ASSUME versions' = versions, ledger' = ledger
      PROVE  ViewsMoveForward'
  BY <1>1, <1>2, <1>3, ViewKept
<1>4. ASSUME NEW c \in Creations, InsertVersion(c)
      PROVE  ViewsMoveForward'
  <2>. DEFINE n == Len(versions) + 1
  <2>1. /\ Len(versions') = n /\ versions'[n].view = PresentView
        /\ \A i \in 1..Len(versions) : versions'[i] = versions[i]
    BY <1>4, InsertVersionStep
  <2>2. \A a \in Assessments : Current(a)' = Current(a)
    BY <1>4, ViewKept DEF InsertVersion, reviewVars
  <2>3. \A a \in Assessments : versions'[n].view[a] = Current(a)
    BY <2>1 DEF PresentView
  <2>. SUFFICES ASSUME NEW i \in 1..n, NEW a \in Assessments
       PROVE  /\ versions'[i].view[a] <= Current(a)
              /\ \A j \in 1..n : i <= j => versions'[i].view[a] <= versions'[j].view[a]
    BY <2>1, <2>2 DEF ViewsMoveForward
  <2>4. CASE i = n
    BY <1>1, <2>3, <2>4
  <2>5. CASE i # n
    <3>1. i \in 1..Len(versions) /\ versions[i].view[a] <= Current(a)
      BY <1>1, <2>5 DEF ViewsMoveForward
    <3>2. ASSUME NEW j \in 1..n, i <= j
          PROVE  versions'[i].view[a] <= versions'[j].view[a]
      <4>1. CASE j = n
        BY <2>1, <2>3, <3>1, <4>1
      <4>2. CASE j # n
        <5>1. j \in 1..Len(versions)
          BY <1>1, <4>2
        <5>. QED BY <2>1, <3>1, <3>2, <5>1 DEF ViewsMoveForward
      <4>. QED BY <4>1, <4>2
    <3>. QED BY <2>1, <3>1, <3>2
  <2>. QED BY <2>4, <2>5
<1>5. ASSUME NEW s \in Submissions, Decide(s)
      PROVE  ViewsMoveForward'
  <2>1. versions' = versions
    BY <1>5 DEF Decide, versionVars
  <2>2. CASE Commit(s)
    BY <1>2, <2>1, <2>2, CurrentGrows DEF VersionsInv
  <2>3. CASE ~Commit(s)
    <3>1. ledger' = ledger
      BY <1>5, <2>3, MoveEffect DEF Decide, Moves, VersionsInv
    <3>. QED BY <1>3, <2>1, <3>1
  <2>. QED BY <2>2, <2>3
<1>6. CASE ChangeReviewers /\ UNCHANGED versionVars
  BY <1>3, <1>6 DEF ChangeReviewers, versionVars
<1>7. ASSUME NEW c \in Creations, Create(c), ~InsertVersion(c)
      PROVE  ViewsMoveForward'
  <2>1. versions' = versions /\ ledger' = ledger
    BY <1>7 DEF Create, LockProject, StartPreparing, FinishPreparing, AnswerExisting,
       AbortCreation, reviewVars
  <2>. QED BY <1>3, <2>1
<1>8. CASE UNCHANGED vars
  BY <1>3, <1>8 DEF vars, reviewVars, versionVars
<1>. QED BY <1>4, <1>5, <1>6, <1>7, <1>8 DEF VersionsNext

(* What a later version shows of an assessment is never older than what an     *)
(* earlier one shows, and none is ahead of the review.                         *)
THEOREM LaterTheorem == VersionsSpec => []ViewsMoveForward
<1>1. VersionsInit => ViewsMoveForward
  BY DEF VersionsInit, ViewsMoveForward
<1>2. VersionsInv /\ ViewsMoveForward /\ [VersionsNext]_vars => ViewsMoveForward'
  BY ForwardStep
<1>. QED BY <1>1, <1>2, VersionsInvariant, PTL DEF VersionsSpec

------------------------------------------------------------------------------
(* Checks. *)

------------------------------------------------------------------------------
(* The invariant. *)

\* Of the runs of a batch only the newest can be anything but failed.
RunsInOrder ==
    \A b \in Batches : \A r \in 1..Len(runs[b]) :
      r < Len(runs[b]) => runs[b][r].status = "failed"

SaidFits ==
    /\ said \in [Batches -> Seq(Texts \cup {Nil})]
    /\ \A b \in Batches : Len(said[b]) = Len(runs[b])

LedgerInv == LedgerTypeOK /\ RunsInOrder /\ SaidFits

\* In the runs R with the answers S, the run id of the batch b of the plan P is
\* completed and says text; an empty batch has neither.
Backs(id, text, b, P, R, S) ==
    IF P[b] = << >> THEN id = 0 /\ text = Nil
    ELSE id \in 1..Len(R[b]) /\ R[b][id].status = "completed" /\ S[b][id] = text

\* What was collected for the first n batches.
Collected(ids, texts, n, P, R, S) ==
    /\ Len(ids) = n /\ Len(texts) = n
    /\ \A b \in 1..n : Backs(ids[b], texts[b], b, P, R, S)

\* What a caller remembers fits its stage, the plan and the runs.
AllFit(me, P, R, S) ==
    /\ me \in Call
    /\ me.stage = "idle" => me = Idle
    /\ me.stage # "idle" =>
         /\ me.batch \in 1..Len(P) + 1
         /\ Collected(me.runs, me.texts, me.batch - 1, P, R, S)
         /\ me.at = "check" => me.batch = Len(P) + 1
    /\ me.stage \in {"claim", "call", "complete", "fail"} =>
         me.batch \in 1..Len(P) /\ P[me.batch] # << >> /\ me.run \in 1..Len(R[me.batch])
    /\ me.claimed => me.stage \in {"call", "complete", "fail"}

CallsFit ==
    /\ call \in [Callers -> Call]
    /\ \A c \in Callers : AllFit(call[c], plan, runs, said)

\* The rows: a ledger is not written while a row of it is not committed, and who
\* is about to commit one has inserted it.
RowsInv ==
    /\ extraction \in {"completed", "partial", "failed"}
    /\ plan \in {PlanOf(values) : values \in Extracted}
    /\ writer \in [Ledgers -> Callers \cup {Nil}]
    /\ inserting \in [Ledgers -> Callers \cup {Nil}]
    /\ \A l \in Ledgers : inserting[l] # Nil => writer[l] = Nil
    /\ stored \in [runs : Seq(Nat), texts : Seq(Texts \cup {Nil})]

CommitHeld ==
    \A c \in Callers : call[c].stage = "commit" => inserting[call[c].at] = c

StoredFits ==
    writer["check"] # Nil =>
      Collected(stored.runs, stored.texts, Len(plan), plan, runs, said)

Owns(me, b, r) == me.claimed /\ me.batch = b /\ me.run = r

\* A run that is running has an owner, or it is known how it was orphaned.
RunningIsOwned ==
    \A b \in Batches : \A r \in 1..Len(runs[b]) :
      runs[b][r].status = "running" =>
        <<b, r>> \in orphans \/ \E c \in Callers : Owns(call[c], b, r)

Counted == failures \in Nat /\ losses \in Nat /\ orphans \subseteq Batches \X Nat

ChecksInv ==
    /\ LedgerInv /\ CallsFit /\ RowsInv /\ CommitHeld /\ StoredFits
    /\ ToldIsStored /\ RunningIsOwned /\ Counted

------------------------------------------------------------------------------
(* The plan and its batches. *)

LEMMA PlanFacts ==
    ASSUME RowsInv
    PROVE  /\ Len(plan) \in Nat /\ Len(plan) <= MaxBatches
           /\ DOMAIN plan = 1..Len(plan)
           /\ 1..Len(plan) \subseteq Batches
<1>1. PICK values \in Extracted : plan = PlanOf(values)
  BY DEF RowsInv
<1>2. plan \in Seq(Seq(SUBSET values)) /\ Len(plan) <= MaxBatches
  BY <1>1, PlanAssumption, ChecksAssumption
<1>. QED BY <1>2, ChecksAssumption DEF Batches

LEMMA IdleFits ==
    ASSUME NEW P, NEW R, NEW S
    PROVE  AllFit(Idle, P, R, S)
<1>1. Idle \in Call
  BY ChecksAssumption DEF Idle, Call, CheckStages, Ledgers
<1>. QED BY <1>1 DEF AllFit, Idle

------------------------------------------------------------------------------
(* The ledger of the runs. *)

\* Runs are only added, and one that is completed keeps its answer.
Grown(R, S, Q, T) ==
    \A b \in Batches :
      /\ Len(R[b]) \in Nat /\ Len(Q[b]) \in Nat /\ Len(R[b]) <= Len(Q[b])
      /\ \A r \in 1..Len(R[b]) :
           R[b][r].status = "completed" => Q[b][r].status = "completed" /\ T[b][r] = S[b][r]

LEMMA CollectedGrown ==
    ASSUME NEW R, NEW S, NEW Q, NEW T, Grown(R, S, Q, T),
           NEW P, NEW n \in Nat, 1..n \subseteq Batches,
           NEW ids, NEW texts, Collected(ids, texts, n, P, R, S)
    PROVE  Collected(ids, texts, n, P, Q, T)
<1>1. ASSUME NEW b \in 1..n, Backs(ids[b], texts[b], b, P, R, S)
      PROVE  Backs(ids[b], texts[b], b, P, Q, T)
  <2>1. b \in Batches
    OBVIOUS
  <2>2. /\ Len(R[b]) \in Nat /\ Len(Q[b]) \in Nat /\ Len(R[b]) <= Len(Q[b])
        /\ \A r \in 1..Len(R[b]) :
             R[b][r].status = "completed" => Q[b][r].status = "completed" /\ T[b][r] = S[b][r]
    BY <2>1 DEF Grown
  <2>3. CASE P[b] = << >>
    BY <1>1, <2>3 DEF Backs
  <2>4. CASE P[b] # << >>
    <3>1. ids[b] \in 1..Len(R[b]) /\ R[b][ids[b]].status = "completed" /\ S[b][ids[b]] = texts[b]
      BY <1>1, <2>4 DEF Backs
    <3>2. ids[b] \in 1..Len(Q[b])
      BY <2>2, <3>1
    <3>. QED BY <2>2, <2>4, <3>1, <3>2 DEF Backs
  <2>. QED BY <2>3, <2>4
<1>. QED BY <1>1 DEF Collected

LEMMA FitsGrown ==
    ASSUME NEW R, NEW S, NEW Q, NEW T, Grown(R, S, Q, T),
           NEW P, Len(P) \in Nat, 1..Len(P) \subseteq Batches,
           NEW me, AllFit(me, P, R, S)
    PROVE  AllFit(me, P, Q, T)
<1>1. CASE me.stage = "idle"
  BY <1>1 DEF AllFit
<1>2. CASE me.stage # "idle"
  <2>1. me.batch \in 1..Len(P) + 1 /\ Collected(me.runs, me.texts, me.batch - 1, P, R, S)
    BY <1>2 DEF AllFit
  <2>2. Collected(me.runs, me.texts, me.batch - 1, P, Q, T)
    <3>1. me.batch - 1 \in Nat /\ 1..me.batch - 1 \subseteq Batches
      BY <2>1
    <3>. QED BY <2>1, <3>1, CollectedGrown
  <2>3. me.stage \in {"claim", "call", "complete", "fail"} =>
          me.run \in 1..Len(R[me.batch]) /\ me.run \in 1..Len(Q[me.batch])
    BY DEF AllFit, Grown
  <2>. QED BY <1>2, <2>2, <2>3 DEF AllFit
<1>. QED BY <1>1, <1>2

LEMMA Unchanged ==
    ASSUME LedgerInv, UNCHANGED <<runs, said>>
    PROVE  LedgerInv' /\ Grown(runs, said, runs', said')
<1>1. \A b \in Batches : Len(runs[b]) \in Nat
  BY DEF LedgerInv, LedgerTypeOK
<1>. QED
  BY <1>1 DEF LedgerInv, LedgerTypeOK, RunsInOrder, SaidFits, Grown, RunShape

\* A run that has not ended becomes run and answers text.
Replaces(b, r, run, text) ==
    /\ runs' = [runs EXCEPT ![b][r] = run]
    /\ said' = [said EXCEPT ![b][r] = text]

\* What follows for the runs.
Changed(b, r, run) ==
    /\ Grown(runs, said, runs', said')
    /\ runs'[b][r] = run
    /\ \A c \in Batches : Len(runs'[c]) = Len(runs[c])
    /\ \A c \in Batches : \A s \in 1..Len(runs[c]) :
         c # b \/ s # r => runs'[c][s] = runs[c][s]

LEMMA ReplaceStep ==
    ASSUME LedgerInv, NEW b \in Batches, NEW r \in 1..Len(runs[b]),
           runs[b][r].status \notin {"completed", "failed"},
           NEW run \in Run, RunShape(run), NEW text \in Texts \cup {Nil},
           Replaces(b, r, run, text)
    PROVE  LedgerInv' /\ Changed(b, r, run) /\ said'[b][r] = text
<1>. DEFINE new == [runs[b] EXCEPT ![r] = run]
            now == [said[b] EXCEPT ![r] = text]
<1>1. /\ runs \in [Batches -> Seq(Run)] /\ runs[b] \in Seq(Run)
      /\ said \in [Batches -> Seq(Texts \cup {Nil})] /\ said[b] \in Seq(Texts \cup {Nil})
      /\ \A c \in Batches : Len(said[c]) = Len(runs[c]) /\ Len(runs[c]) \in Nat
  BY DEF LedgerInv, LedgerTypeOK, SaidFits
<1>2. /\ new \in Seq(Run) /\ Len(new) = Len(runs[b])
      /\ new[r] = run /\ \A s \in 1..Len(runs[b]) : s # r => new[s] = runs[b][s]
  BY <1>1
<1>3. /\ now \in Seq(Texts \cup {Nil}) /\ Len(now) = Len(runs[b])
      /\ now[r] = text /\ \A s \in 1..Len(runs[b]) : s # r => now[s] = said[b][s]
  BY <1>1
<1>4. runs' = [runs EXCEPT ![b] = new] /\ said' = [said EXCEPT ![b] = now]
  BY <1>1 DEF Replaces
<1>. HIDE DEF new, now
<1>5. /\ runs'[b] = new /\ \A c \in Batches : c # b => runs'[c] = runs[c]
      /\ said'[b] = now /\ \A c \in Batches : c # b => said'[c] = said[c]
  BY <1>1, <1>4
<1>6. runs' \in [Batches -> Seq(Run)] /\ said' \in [Batches -> Seq(Texts \cup {Nil})]
  BY <1>1, <1>2, <1>3, <1>4
<1>7. \A c \in Batches : Len(runs'[c]) = Len(runs[c]) /\ Len(said'[c]) = Len(runs[c])
  BY <1>1, <1>2, <1>3, <1>5
<1>8. \A c \in Batches : \A s \in 1..Len(runs[c]) :
        c # b \/ s # r => runs'[c][s] = runs[c][s] /\ said'[c][s] = said[c][s]
  BY <1>2, <1>3, <1>5
<1>9. runs'[b][r] = run /\ said'[b][r] = text
  BY <1>2, <1>3, <1>5
<1>10. LedgerTypeOK'
  <2>. SUFFICES ASSUME NEW c \in Batches, NEW s \in 1..Len(runs'[c])
       PROVE  RunShape(runs'[c][s])
    BY <1>6 DEF LedgerTypeOK
  <2>. QED BY <1>7, <1>8, <1>9 DEF LedgerInv, LedgerTypeOK
<1>11. RunsInOrder'
  <2>. SUFFICES ASSUME NEW c \in Batches, NEW s \in 1..Len(runs'[c]), s < Len(runs'[c])
       PROVE  runs'[c][s].status = "failed"
    BY DEF RunsInOrder
  <2>1. runs[c][s].status = "failed"
    BY <1>7 DEF LedgerInv, RunsInOrder
  <2>. QED BY <2>1, <1>7, <1>8
<1>12. SaidFits'
  BY <1>6, <1>7 DEF SaidFits
<1>13. Grown(runs, said, runs', said')
  BY <1>1, <1>7, <1>8 DEF Grown
<1>. QED BY <1>7, <1>8, <1>9, <1>10, <1>11, <1>12, <1>13 DEF LedgerInv, Changed

\* A run that has not ended changes, its answer does not.
LEMMA ChangeStep ==
    ASSUME LedgerInv, NEW b \in Batches, NEW r \in 1..Len(runs[b]),
           runs[b][r].status \notin {"completed", "failed"},
           NEW run \in Run, RunShape(run),
           runs' = [runs EXCEPT ![b][r] = run], said' = said
    PROVE  LedgerInv' /\ Changed(b, r, run)
<1>1. /\ said \in [Batches -> Seq(Texts \cup {Nil})] /\ said[b] \in Seq(Texts \cup {Nil})
      /\ r \in 1..Len(said[b])
  BY DEF LedgerInv, SaidFits
<1>2. said[b][r] \in Texts \cup {Nil}
  BY <1>1
<1>3. Replaces(b, r, run, said[b][r])
  <2>1. [said[b] EXCEPT ![r] = said[b][r]] = said[b]
    BY <1>1
  <2>2. said' = [said EXCEPT ![b] = [said[b] EXCEPT ![r] = said[b][r]]]
    BY <1>1, <2>1
  <2>. QED BY <2>2 DEF Replaces
<1>. QED BY <1>2, <1>3, ReplaceStep

LEMMA ExtendStep ==
    ASSUME LedgerInv, NEW b \in Batches, ~Reusable(b),
           runs' = [runs EXCEPT ![b] = Append(@, PendingRun)],
           said' = [said EXCEPT ![b] = Append(@, Nil)]
    PROVE  /\ LedgerInv' /\ Grown(runs, said, runs', said')
           /\ Len(runs'[b]) = Len(runs[b]) + 1
           /\ runs'[b][Len(runs[b]) + 1] = PendingRun
           /\ \A s \in 1..Len(runs[b]) : runs'[b][s] = runs[b][s]
           /\ \A c \in Batches : c # b => runs'[c] = runs[c]
<1>. DEFINE new == Append(runs[b], PendingRun)
            now == Append(said[b], Nil)
<1>1. /\ runs \in [Batches -> Seq(Run)] /\ runs[b] \in Seq(Run)
      /\ said \in [Batches -> Seq(Texts \cup {Nil})] /\ said[b] \in Seq(Texts \cup {Nil})
      /\ \A c \in Batches : Len(said[c]) = Len(runs[c]) /\ Len(runs[c]) \in Nat
  BY DEF LedgerInv, LedgerTypeOK, SaidFits
<1>2. PendingRun \in Run /\ RunShape(PendingRun)
  BY DEF PendingRun, Run, RunShape, RunCodes, RetryableCodes
<1>3. /\ new \in Seq(Run) /\ Len(new) = Len(runs[b]) + 1
      /\ new[Len(runs[b]) + 1] = PendingRun
      /\ \A s \in 1..Len(runs[b]) : new[s] = runs[b][s]
  BY <1>1, <1>2
<1>4. /\ now \in Seq(Texts \cup {Nil}) /\ Len(now) = Len(runs[b]) + 1
      /\ \A s \in 1..Len(runs[b]) : now[s] = said[b][s]
  BY <1>1
<1>5. runs' = [runs EXCEPT ![b] = new] /\ said' = [said EXCEPT ![b] = now]
  OBVIOUS
<1>. HIDE DEF new, now
<1>6. /\ runs'[b] = new /\ \A c \in Batches : c # b => runs'[c] = runs[c]
      /\ said'[b] = now /\ \A c \in Batches : c # b => said'[c] = said[c]
  BY <1>1, <1>5
<1>7. runs' \in [Batches -> Seq(Run)] /\ said' \in [Batches -> Seq(Texts \cup {Nil})]
  BY <1>1, <1>3, <1>4, <1>5
<1>8. \A s \in 1..Len(runs[b]) : runs[b][s].status = "failed"
  <2>1. CASE runs[b] = << >>
    BY <2>1
  <2>2. CASE runs[b] # << >>
    <3>1. Len(runs[b]) > 0 /\ runs[b][Len(runs[b])].status = "failed"
      BY <2>2, <1>1 DEF Reusable, Status, Latest
    <3>. QED BY <3>1, <1>1 DEF LedgerInv, RunsInOrder
  <2>. QED BY <2>1, <2>2
<1>9. LedgerTypeOK'
  <2>. SUFFICES ASSUME NEW c \in Batches, NEW s \in 1..Len(runs'[c])
       PROVE  RunShape(runs'[c][s])
    BY <1>7 DEF LedgerTypeOK
  <2>1. CASE c # b
    BY <2>1, <1>6 DEF LedgerInv, LedgerTypeOK
  <2>2. CASE c = b /\ s \in 1..Len(runs[b])
    BY <2>2, <1>3, <1>6 DEF LedgerInv, LedgerTypeOK
  <2>3. CASE c = b /\ s = Len(runs[b]) + 1
    BY <2>3, <1>2, <1>3, <1>6
  <2>. QED BY <2>1, <2>2, <2>3, <1>1, <1>3, <1>6
<1>10. RunsInOrder'
  <2>. SUFFICES ASSUME NEW c \in Batches, NEW s \in 1..Len(runs'[c]), s < Len(runs'[c])
       PROVE  runs'[c][s].status = "failed"
    BY DEF RunsInOrder
  <2>1. CASE c # b
    BY <2>1, <1>6 DEF LedgerInv, RunsInOrder
  <2>2. CASE c = b
    <3>1. s \in 1..Len(runs[b])
      BY <2>2, <1>1, <1>3, <1>6
    <3>. QED BY <3>1, <2>2, <1>3, <1>6, <1>8
  <2>. QED BY <2>1, <2>2
<1>11. SaidFits'
  BY <1>1, <1>3, <1>4, <1>6, <1>7 DEF SaidFits
<1>12. Grown(runs, said, runs', said')
  <2>. SUFFICES ASSUME NEW c \in Batches
       PROVE  /\ Len(runs[c]) \in Nat /\ Len(runs'[c]) \in Nat /\ Len(runs[c]) <= Len(runs'[c])
              /\ \A s \in 1..Len(runs[c]) : runs'[c][s] = runs[c][s] /\ said'[c][s] = said[c][s]
    BY DEF Grown
  <2>1. Len(runs[c]) \in Nat /\ Len(runs'[c]) \in Nat
    BY <1>1, <1>7
  <2>2. CASE c # b
    BY <2>1, <2>2, <1>6
  <2>3. CASE c = b
    BY <2>1, <2>3, <1>1, <1>3, <1>4, <1>6
  <2>. QED BY <2>2, <2>3
<1>. QED BY <1>3, <1>6, <1>9, <1>10, <1>11, <1>12 DEF LedgerInv

------------------------------------------------------------------------------
(* What one caller does leaves the others and the rows in order. *)

\* The caller goes on with t, which fits what the runs have become.
Continues(c, t) ==
    /\ Goes(c, t)
    /\ AllFit(t, plan, runs', said')
    /\ Grown(runs, said, runs', said')

LEMMA CallsStep ==
    ASSUME CallsFit, RowsInv, UNCHANGED plan, NEW c \in Callers, NEW t, Continues(c, t)
    PROVE  /\ CallsFit'
           /\ call'[c] = t /\ \A d \in Callers : d # c => call'[d] = call[d]
<1>1. call \in [Callers -> Call] /\ t \in Call /\ call' = [call EXCEPT ![c] = t]
  BY DEF CallsFit, Continues, AllFit, Goes
<1>2. call'[c] = t /\ \A d \in Callers : d # c => call'[d] = call[d]
  BY <1>1
<1>3. Len(plan) \in Nat /\ 1..Len(plan) \subseteq Batches
  BY PlanFacts
<1>4. ASSUME NEW d \in Callers
      PROVE  AllFit(call'[d], plan, runs', said')
  <2>1. CASE d = c
    BY <2>1, <1>2 DEF Continues
  <2>2. CASE d # c
    <3>1. AllFit(call[d], plan, runs, said) /\ Grown(runs, said, runs', said')
      BY DEF CallsFit, Continues
    <3>. QED BY <3>1, <2>2, <1>2, <1>3, FitsGrown
  <2>. QED BY <2>1, <2>2
<1>5. call' \in [Callers -> Call]
  BY <1>1
<1>. QED BY <1>2, <1>4, <1>5 DEF CallsFit

\* Every run that is running still has somebody to end it, or is an orphan.
OwnersKept(c, t) ==
    /\ orphans \subseteq orphans'
    /\ \A b \in Batches : \A r \in 1..Len(runs'[b]) :
         runs'[b][r].status = "running" =>
           \/ Owns(t, b, r) \/ <<b, r>> \in orphans'
           \/ /\ r \in 1..Len(runs[b]) /\ runs[b][r].status = "running"
              /\ ~Owns(call[c], b, r)

LEMMA OwnersStep ==
    ASSUME RunningIsOwned, NEW c \in Callers, NEW t, OwnersKept(c, t),
           call'[c] = t, \A d \in Callers : d # c => call'[d] = call[d]
    PROVE  RunningIsOwned'
<1>. SUFFICES ASSUME NEW b \in Batches, NEW r \in 1..Len(runs'[b]),
                     runs'[b][r].status = "running", <<b, r>> \notin orphans'
     PROVE  \E d \in Callers : Owns(call'[d], b, r)
  BY DEF RunningIsOwned
<1>1. CASE Owns(t, b, r)
  BY <1>1
<1>2. CASE ~Owns(t, b, r)
  <2>1. /\ r \in 1..Len(runs[b]) /\ runs[b][r].status = "running"
        /\ ~Owns(call[c], b, r) /\ <<b, r>> \notin orphans
    BY <1>2 DEF OwnersKept
  <2>2. PICK d \in Callers : Owns(call[d], b, r)
    BY <2>1 DEF RunningIsOwned
  <2>. QED BY <2>1, <2>2
<1>. QED BY <1>1, <1>2

LEMMA StoredStep ==
    ASSUME StoredFits, RowsInv, UNCHANGED rows, Grown(runs, said, runs', said')
    PROVE  StoredFits'
<1>1. Len(plan) \in Nat /\ 1..Len(plan) \subseteq Batches
  BY PlanFacts
<1>2. writer' = writer /\ stored' = stored /\ plan' = plan
  BY DEF rows
<1>. QED BY <1>1, <1>2, CollectedGrown DEF StoredFits

\* A caller is told what is stored.
ToldFits(t) == \A l \in Ledgers : t.told[l] # Nil => t.told[l] = writer[l]

LEMMA CallStep ==
    ASSUME ChecksInv, UNCHANGED rows, LedgerInv', Counted',
           NEW c \in Callers, NEW t, Continues(c, t), OwnersKept(c, t),
           t.stage # "commit", ToldFits(t)
    PROVE  ChecksInv'
<1>1. /\ extraction' = extraction /\ plan' = plan /\ writer' = writer
      /\ inserting' = inserting /\ stored' = stored
  BY DEF rows
<1>2. CallsFit' /\ call'[c] = t /\ \A d \in Callers : d # c => call'[d] = call[d]
  BY <1>1, CallsStep DEF ChecksInv
<1>3. RowsInv'
  BY <1>1 DEF ChecksInv, RowsInv
<1>4. CommitHeld'
  BY <1>1, <1>2 DEF ChecksInv, CommitHeld
<1>5. StoredFits'
  BY StoredStep DEF ChecksInv, Continues
<1>6. ToldIsStored'
  BY <1>1, <1>2 DEF ChecksInv, ToldIsStored, ToldFits
<1>7. RunningIsOwned'
  BY <1>2, OwnersStep DEF ChecksInv
<1>. QED BY <1>2, <1>3, <1>4, <1>5, <1>6, <1>7 DEF ChecksInv

\* The owner of a run goes on owning it, or makes an orphan of it.
Keeps(c, t) ==
    /\ orphans \subseteq orphans'
    /\ call[c].claimed => \/ t.claimed /\ t.batch = call[c].batch /\ t.run = call[c].run
                          \/ <<call[c].batch, call[c].run>> \in orphans'

LEMMA QuietStep ==
    ASSUME ChecksInv, UNCHANGED <<rows, runs, said>>, Counted',
           NEW c \in Callers, NEW t, Goes(c, t), AllFit(t, plan, runs, said), Keeps(c, t),
           t.stage # "commit", ToldFits(t)
    PROVE  ChecksInv'
<1>1. UNCHANGED rows /\ runs' = runs /\ said' = said
  OBVIOUS
<1>2. LedgerInv' /\ Grown(runs, said, runs', said')
  BY Unchanged DEF ChecksInv
<1>3. Continues(c, t)
  BY <1>1, <1>2 DEF Continues
<1>4. OwnersKept(c, t)
  BY <1>1 DEF OwnersKept, Owns, Keeps
<1>. QED BY <1>1, <1>2, <1>3, <1>4, CallStep

\* What is known of the caller.
LEMMA CallerFacts ==
    ASSUME ChecksInv, NEW c \in Callers
    PROVE  /\ call[c] \in Call /\ AllFit(call[c], plan, runs, said) /\ ToldFits(call[c])
           /\ Counted
           /\ Len(plan) \in Nat /\ DOMAIN plan = 1..Len(plan) /\ 1..Len(plan) \subseteq Batches
<1>1. AllFit(call[c], plan, runs, said)
  BY DEF ChecksInv, CallsFit
<1>2. ToldFits(call[c])
  BY DEF ChecksInv, ToldIsStored, ToldFits
<1>. QED BY <1>1, <1>2, PlanFacts DEF ChecksInv, AllFit

LEMMA IdleIsTold == ToldFits(Idle)
BY DEF ToldFits, Idle

LEMMA EndsStep ==
    ASSUME ChecksInv, UNCHANGED <<rows, runs, said>>, Counted',
           NEW c \in Callers, Ends(c), Keeps(c, Idle)
    PROVE  ChecksInv'
<1>1. Idle.stage = "idle"
  BY DEF Idle
<1>. QED BY <1>1, QuietStep, IdleFits, IdleIsTold DEF Ends

------------------------------------------------------------------------------
(* Steps that leave the runs alone. *)

LEMMA StartStep ==
    ASSUME ChecksInv, NEW c \in Callers, Start(c)
    PROVE  ChecksInv'
<1>. DEFINE t == [call[c] EXCEPT !.stage = "write"]
<1>1. call[c] = Idle /\ Counted
  BY CallerFacts DEF Start, AllFit
<1>2. /\ t \in Call /\ t.stage = "write" /\ t.at = "grouping" /\ t.batch = 1 /\ t.claimed = FALSE
      /\ t.runs = << >> /\ t.texts = << >> /\ t.told = [l \in Ledgers |-> Nil]
  <2>1. Idle \in Call
    BY IdleFits DEF AllFit
  <2>2. t \in Call
    BY <1>1, <2>1 DEF Call, CheckStages
  <2>. QED BY <1>1, <2>2 DEF Idle
<1>3. Goes(c, t) /\ UNCHANGED <<rows, runs, said>> /\ UNCHANGED counts
  BY DEF Start, Enters
<1>. HIDE DEF t
<1>4. AllFit(t, plan, runs, said)
  BY <1>2, CallerFacts DEF AllFit, Collected
<1>5. ToldFits(t)
  BY <1>2 DEF ToldFits
<1>6. Counted' /\ Keeps(c, t)
  BY <1>1, <1>3 DEF Counted, counts, Keeps, Idle
<1>. QED BY <1>2, <1>3, <1>4, <1>5, <1>6, QuietStep

\* The caller is given the ledger that is stored.
LEMMA GivenFits ==
    ASSUME ChecksInv, NEW c \in Callers, NEW l \in Ledgers, NEW id \in Callers,
           call[c].stage \in {"write", "commit", "reread"}, call[c].at = l
    PROVE  /\ AllFit(Given(c, l, id), plan, runs, said)
           /\ Given(c, l, id).stage # "commit" /\ ~Given(c, l, id).claimed
           /\ \A k \in Ledgers : Given(c, l, id).told[k] # Nil =>
                IF k = l THEN Given(c, l, id).told[k] = id
                ELSE Given(c, l, id).told[k] = call[c].told[k]
<1>. DEFINE t == Given(c, l, id)
<1>1. CASE l = "check"
  <2>1. t = Idle
    BY <1>1 DEF Given
  <2>. HIDE DEF t
  <2>2. t.stage = "idle" /\ ~t.claimed /\ \A k \in Ledgers : t.told[k] = Nil
    BY <2>1 DEF Idle
  <2>. QED BY <2>1, <2>2, IdleFits DEF t
<1>2. CASE l # "check"
  <2>1. /\ t = [call[c] EXCEPT !.stage = IF l = "grouping" THEN "write" ELSE "execute",
                               !.at = "candidates", !.told[l] = id]
    BY <1>2 DEF Given
  <2>2. call[c] \in Call /\ AllFit(call[c], plan, runs, said)
    BY CallerFacts
  <2>3. call[c].told \in [Ledgers -> Callers \cup {Nil}]
    BY <2>2 DEF Call
  <2>4. /\ t \in Call /\ t.stage \in {"write", "execute"} /\ t.at = "candidates"
        /\ t.batch = call[c].batch /\ t.claimed = call[c].claimed
        /\ t.runs = call[c].runs /\ t.texts = call[c].texts
        /\ t.told = [call[c].told EXCEPT ![l] = id]
    <3>. DEFINE stage == IF l = "grouping" THEN "write" ELSE "execute"
                told == [call[c].told EXCEPT ![l] = id]
    <3>1. stage \in {"write", "execute"} /\ stage \in CheckStages
      BY DEF CheckStages
    <3>2. told \in [Ledgers -> Callers \cup {Nil}]
      BY <2>3
    <3>3. t = [call[c] EXCEPT !.stage = stage, !.at = "candidates", !.told = told]
      BY <2>1, <2>2 DEF Call
    <3>. HIDE DEF t, stage, told
    <3>4. /\ t \in Call /\ t.stage = stage /\ t.at = "candidates"
          /\ t.batch = call[c].batch /\ t.claimed = call[c].claimed
          /\ t.runs = call[c].runs /\ t.texts = call[c].texts /\ t.told = told
      BY <2>2, <3>1, <3>2, <3>3 DEF Call, Ledgers
    <3>. QED BY <3>1, <3>4 DEF told
  <2>. HIDE DEF t
  <2>5. ~t.claimed
    BY <2>2, <2>4 DEF AllFit
  <2>6. AllFit(t, plan, runs, said)
    BY <2>2, <2>4, <2>5 DEF AllFit
  <2>7. \A k \in Ledgers : IF k = l THEN t.told[k] = id ELSE t.told[k] = call[c].told[k]
    BY <2>4, <2>3
  <2>. QED BY <2>4, <2>5, <2>6, <2>7 DEF t
<1>. QED BY <1>1, <1>2

LEMMA LedgerIsCaller ==
    ASSUME ChecksInv, NEW l \in Ledgers, writer[l] # Nil
    PROVE  writer[l] \in Callers
BY DEF ChecksInv, RowsInv

\* The caller reads the stored ledger.
LEMMA ReadStep ==
    ASSUME ChecksInv, NEW c \in Callers, NEW l \in Ledgers,
           call[c].stage \in {"write", "reread"}, call[c].at = l, writer[l] # Nil,
           Goes(c, Given(c, l, writer[l])), UNCHANGED <<rows, runs, said, counts>>
    PROVE  ChecksInv'
<1>. DEFINE t == Given(c, l, writer[l])
<1>1. /\ AllFit(t, plan, runs, said) /\ t.stage # "commit"
      /\ \A k \in Ledgers : t.told[k] # Nil =>
           IF k = l THEN t.told[k] = writer[l] ELSE t.told[k] = call[c].told[k]
  BY GivenFits, LedgerIsCaller
<1>2. ~call[c].claimed /\ ToldFits(call[c]) /\ Counted
  BY CallerFacts DEF AllFit
<1>3. Goes(c, t)
  OBVIOUS
<1>. HIDE DEF t
<1>4. ToldFits(t)
  BY <1>1, <1>2 DEF ToldFits
<1>5. Counted' /\ Keeps(c, t)
  BY <1>2 DEF Counted, counts, Keeps
<1>. QED BY <1>1, <1>3, <1>4, <1>5, QuietStep

\* A caller that is not executing a run gives up.
LEMMA GivesUpStep ==
    ASSUME ChecksInv, NEW c \in Callers, ~call[c].claimed, Ends(c),
           UNCHANGED <<rows, runs, said, counts>>
    PROVE  ChecksInv'
<1>1. Counted' /\ Keeps(c, Idle)
  BY DEF ChecksInv, Counted, counts, Keeps
<1>. QED BY <1>1, EndsStep

\* A caller goes on to a stage that asks no more of it than its own.
LEMMA EntersStep ==
    ASSUME ChecksInv, NEW c \in Callers, NEW stage \in CheckStages \ {"idle", "commit"},
           call[c].stage # "idle", Enters(c, stage),
           stage \in {"claim", "call", "complete", "fail"} =>
             call[c].stage \in {"claim", "call", "complete", "fail"},
           call[c].claimed => stage \in {"call", "complete", "fail"},
           UNCHANGED <<rows, runs, said>>, Counted', orphans' = orphans
    PROVE  ChecksInv'
<1>. DEFINE t == [call[c] EXCEPT !.stage = stage]
<1>1. call[c] \in Call /\ AllFit(call[c], plan, runs, said) /\ ToldFits(call[c])
  BY CallerFacts
<1>2. /\ t \in Call /\ t.stage = stage /\ t.at = call[c].at /\ t.batch = call[c].batch
      /\ t.run = call[c].run /\ t.claimed = call[c].claimed /\ t.told = call[c].told
      /\ t.runs = call[c].runs /\ t.texts = call[c].texts
  BY <1>1 DEF Call
<1>3. Goes(c, t)
  BY DEF Enters
<1>. HIDE DEF t
<1>4. AllFit(t, plan, runs, said)
  BY <1>1, <1>2 DEF AllFit
<1>5. ToldFits(t) /\ Keeps(c, t)
  BY <1>1, <1>2 DEF ToldFits, Keeps
<1>. QED BY <1>2, <1>3, <1>4, <1>5, QuietStep

LEMMA LookupStep ==
    ASSUME ChecksInv, NEW c \in Callers, NEW l \in Ledgers, Lookup(c, l)
    PROVE  ChecksInv'
<1>1. /\ call[c].stage = "write" /\ call[c].at = l /\ ~call[c].claimed
      /\ UNCHANGED <<rows, runs, said, counts>>
  BY CallerFacts DEF Lookup, AtLedger, AllFit
<1>2. CASE (l = "check" /\ ~Authentic(c)) \/ (writer[l] # Nil /\ ~Agrees(c, l))
  <2>1. Ends(c)
    BY <1>2 DEF Lookup, Ends
  <2>. QED BY <1>1, <2>1, GivesUpStep
<1>3. CASE /\ ~((l = "check" /\ ~Authentic(c)) \/ (writer[l] # Nil /\ ~Agrees(c, l)))
           /\ writer[l] # Nil
  <2>1. Goes(c, Given(c, l, writer[l]))
    BY <1>3 DEF Lookup
  <2>. QED BY <1>1, <1>3, <2>1, ReadStep
<1>4. CASE /\ ~((l = "check" /\ ~Authentic(c)) \/ (writer[l] # Nil /\ ~Agrees(c, l)))
           /\ writer[l] = Nil
  <2>1. Enters(c, "insert")
    BY <1>4 DEF Lookup, Enters
  <2>2. Counted' /\ orphans' = orphans
    BY <1>1 DEF ChecksInv, Counted, counts
  <2>. QED BY <1>1, <2>1, <2>2, EntersStep DEF CheckStages
<1>. QED BY <1>2, <1>3, <1>4

LEMMA RereadStep ==
    ASSUME ChecksInv, NEW c \in Callers, NEW l \in Ledgers, Reread(c, l)
    PROVE  ChecksInv'
<1>1. /\ call[c].stage = "reread" /\ call[c].at = l /\ ~call[c].claimed
      /\ UNCHANGED <<rows, runs, said, counts>>
  BY CallerFacts DEF Reread, AtLedger, AllFit
<1>2. CASE writer[l] = Nil \/ ~Agrees(c, l)
  <2>1. Ends(c)
    BY <1>2 DEF Reread, Ends
  <2>. QED BY <1>1, <2>1, GivesUpStep
<1>3. CASE ~(writer[l] = Nil \/ ~Agrees(c, l))
  <2>1. Goes(c, Given(c, l, writer[l]))
    BY <1>3 DEF Reread
  <2>. QED BY <1>1, <1>3, <2>1, ReadStep
<1>. QED BY <1>2, <1>3

LEMMA AllAssessedStep ==
    ASSUME ChecksInv, NEW c \in Callers, AllAssessed(c)
    PROVE  ChecksInv'
<1>. DEFINE t == [call[c] EXCEPT !.stage = "write", !.at = "check"]
<1>1. /\ call[c] \in Call /\ AllFit(call[c], plan, runs, said) /\ ToldFits(call[c])
      /\ Counted /\ Len(plan) \in Nat
  BY CallerFacts
<1>2. call[c].stage = "execute" /\ call[c].batch > Len(plan)
  BY DEF AllAssessed
<1>3. /\ t \in Call /\ t.stage = "write" /\ t.at = "check" /\ t.batch = call[c].batch
      /\ t.claimed = call[c].claimed /\ t.told = call[c].told
      /\ t.runs = call[c].runs /\ t.texts = call[c].texts
  BY <1>1 DEF Call, CheckStages, Ledgers
<1>4. Goes(c, t) /\ UNCHANGED <<rows, runs, said, counts>>
  BY DEF AllAssessed
<1>. HIDE DEF t
<1>5. call[c].batch = Len(plan) + 1 /\ ~call[c].claimed
  BY <1>1, <1>2 DEF AllFit, Call
<1>6. AllFit(t, plan, runs, said)
  BY <1>1, <1>2, <1>3, <1>5 DEF AllFit
<1>7. ToldFits(t)
  BY <1>1, <1>3, <1>5 DEF ToldFits
<1>8. Counted' /\ Keeps(c, t)
  BY <1>1, <1>4, <1>5 DEF Counted, counts, Keeps
<1>. QED BY <1>3, <1>4, <1>6, <1>7, <1>8, QuietStep

LEMMA AnsweredStep ==
    ASSUME ChecksInv, NEW c \in Callers, Answered(c)
    PROVE  ChecksInv'
<1>1. Counted' /\ orphans' = orphans
  BY DEF Answered, ChecksInv, Counted, counts
<1>. QED BY <1>1, EntersStep DEF Answered, CheckStages

\* After an error the caller records it or gives up.
LEMMA AbortStep ==
    ASSUME ChecksInv, NEW c \in Callers, call[c].stage \in {"call", "complete"}, Abort(c),
           UNCHANGED <<rows, runs, said>>, Counted', orphans' = orphans
    PROVE  ChecksInv'
<1>1. CASE call[c].claimed
  <2>1. Enters(c, "fail")
    BY <1>1 DEF Abort
  <2>. QED BY <2>1, EntersStep DEF CheckStages
<1>2. CASE ~call[c].claimed
  <2>1. Ends(c) /\ Keeps(c, Idle)
    BY <1>2 DEF Abort, Keeps
  <2>. QED BY <2>1, EndsStep
<1>. QED BY <1>1, <1>2

LEMMA NotAnsweredStep ==
    ASSUME ChecksInv, NEW c \in Callers, NotAnswered(c)
    PROVE  ChecksInv'
<1>1. Counted' /\ orphans' = orphans
  BY DEF NotAnswered, ChecksInv, Counted
<1>. QED BY <1>1, AbortStep DEF NotAnswered


------------------------------------------------------------------------------
(* Steps that work on a run. *)

\* What a caller remembers when the run id has answered text for its batch.
After(me, id, text) ==
    [me EXCEPT !.stage = "execute", !.batch = @ + 1, !.run = 0, !.claimed = FALSE,
               !.runs = Append(@, id), !.texts = Append(@, text)]

LEMMA AfterFits ==
    ASSUME ChecksInv, NEW c \in Callers, NEW R, NEW S, Grown(runs, said, R, S),
           call[c].stage \in {"execute", "claim", "complete"},
           call[c].batch \in 1..Len(plan),
           NEW id \in Nat, NEW text \in Texts \cup {Nil},
           Backs(id, text, call[c].batch, plan, R, S)
    PROVE  /\ AllFit(After(call[c], id, text), plan, R, S)
           /\ After(call[c], id, text).stage = "execute"
           /\ ~After(call[c], id, text).claimed
           /\ ToldFits(After(call[c], id, text))
<1>. DEFINE me == call[c]
            b == call[c].batch
            ids == Append(me.runs, id)
            texts == Append(me.texts, text)
            t == After(me, id, text)
<1>1. /\ me \in Call /\ AllFit(me, plan, runs, said) /\ ToldFits(me)
      /\ Len(plan) \in Nat /\ 1..Len(plan) \subseteq Batches /\ Len(plan) <= MaxBatches
  BY CallerFacts, PlanFacts DEF ChecksInv
<1>2. me.runs \in Seq(Nat) /\ me.texts \in Seq(Texts \cup {Nil}) /\ b \in Nat
  BY <1>1 DEF Call
<1>3. Collected(me.runs, me.texts, b - 1, plan, runs, said) /\ me.at # "check"
  BY <1>1 DEF AllFit
<1>4. Collected(me.runs, me.texts, b - 1, plan, R, S)
  <2>1. b - 1 \in Nat /\ 1..b - 1 \subseteq Batches
    BY <1>1
  <2>. QED BY <1>3, <2>1, CollectedGrown
<1>5. ids \in Seq(Nat) /\ texts \in Seq(Texts \cup {Nil})
  BY <1>2
<1>6. /\ Len(ids) = b /\ Len(texts) = b /\ ids[b] = id /\ texts[b] = text
      /\ \A i \in 1..b - 1 : ids[i] = me.runs[i] /\ texts[i] = me.texts[i]
  <2>. HIDE DEF me, b
  <2>1. Len(me.runs) = b - 1 /\ Len(me.texts) = b - 1
    BY <1>4 DEF Collected
  <2>2. Len(ids) = b /\ ids[b] = id /\ \A i \in 1..b - 1 : ids[i] = me.runs[i]
    BY <1>2, <2>1
  <2>3. Len(texts) = b /\ texts[b] = text /\ \A i \in 1..b - 1 : texts[i] = me.texts[i]
    BY <1>2, <2>1
  <2>. QED BY <2>2, <2>3
<1>7. Collected(ids, texts, b, plan, R, S)
  <2>. HIDE DEF ids, texts
  <2>. SUFFICES ASSUME NEW i \in 1..b
       PROVE  Backs(ids[i], texts[i], i, plan, R, S)
    BY <1>6 DEF Collected
  <2>1. CASE i = b
    BY <2>1, <1>6
  <2>2. CASE i # b
    <3>1. i \in 1..b - 1
      BY <2>2, <1>2
    <3>. QED BY <3>1, <1>4, <1>6 DEF Collected
  <2>. QED BY <2>1, <2>2
<1>8. t = [me EXCEPT !.stage = "execute", !.batch = b + 1, !.run = 0, !.claimed = FALSE,
                     !.runs = ids, !.texts = texts]
  BY <1>1 DEF After, Call
<1>9. b + 1 \in 1..MaxBatches + 1 /\ b + 1 \in 1..Len(plan) + 1
  BY <1>1, ChecksAssumption
<1>. HIDE DEF me, b, ids, texts, t
<1>10. /\ t \in Call /\ t.stage = "execute" /\ t.at = me.at /\ t.told = me.told
       /\ t.batch = b + 1 /\ t.claimed = FALSE /\ t.runs = ids /\ t.texts = texts
  BY <1>1, <1>5, <1>8, <1>9 DEF Call, CheckStages
<1>11. AllFit(t, plan, R, S)
  <2>1. t.batch - 1 = b
    BY <1>2, <1>10
  <2>2. Collected(t.runs, t.texts, t.batch - 1, plan, R, S)
    BY <1>7, <1>10, <2>1
  <2>3. t.batch \in 1..Len(plan) + 1 /\ t.at # "check"
    BY <1>3, <1>9, <1>10
  <2>. QED BY <1>10, <2>2, <2>3 DEF AllFit
<1>12. ToldFits(t)
  BY <1>1, <1>10 DEF ToldFits
<1>. QED BY <1>10, <1>11, <1>12 DEF t, me

\* The caller collects what is said already.
LEMMA CollectStep ==
    ASSUME ChecksInv, NEW c \in Callers, UNCHANGED <<rows, runs, said, counts>>,
           call[c].stage \in {"execute", "claim"}, call[c].batch \in 1..Len(plan),
           NEW id \in Nat, NEW text \in Texts \cup {Nil}, Collect(c, id, text),
           Backs(id, text, call[c].batch, plan, runs, said)
    PROVE  ChecksInv'
<1>. DEFINE t == After(call[c], id, text)
<1>1. Grown(runs, said, runs, said)
  <2>1. \A b \in Batches : Len(runs[b]) \in Nat
    BY DEF ChecksInv, LedgerInv, LedgerTypeOK
  <2>. QED BY <2>1 DEF Grown
<1>2. AllFit(t, plan, runs, said) /\ t.stage = "execute" /\ ToldFits(t)
  BY <1>1, AfterFits
<1>3. Goes(c, t)
  BY DEF Collect, After
<1>4. Counted' /\ orphans' = orphans
  BY DEF ChecksInv, Counted, counts
<1>5. ~call[c].claimed
  BY CallerFacts DEF AllFit
<1>. HIDE DEF t
<1>6. Keeps(c, t)
  BY <1>4, <1>5 DEF Keeps
<1>. QED BY <1>2, <1>3, <1>4, <1>6, QuietStep

LEMMA CompletedIsBacked ==
    ASSUME ChecksInv, NEW b \in 1..Len(plan), plan[b] # << >>, NEW r \in 1..Len(runs[b]),
           Status(b, r) = "completed"
    PROVE  /\ r \in Nat /\ said[b][r] \in Texts \cup {Nil}
           /\ Backs(r, said[b][r], b, plan, runs, said)
<1>1. b \in Batches
  BY PlanFacts DEF ChecksInv
<1>2. /\ said[b] \in Seq(Texts \cup {Nil}) /\ Len(said[b]) = Len(runs[b])
      /\ Len(runs[b]) \in Nat
  BY <1>1 DEF ChecksInv, LedgerInv, SaidFits, LedgerTypeOK
<1>. QED BY <1>2 DEF Backs, Status

LEMMA SkipEmptyStep ==
    ASSUME ChecksInv, NEW c \in Callers, SkipEmpty(c)
    PROVE  ChecksInv'
<1>1. call[c].batch \in 1..Len(plan)
  BY CallerFacts DEF SkipEmpty
<1>2. Backs(0, Nil, call[c].batch, plan, runs, said)
  BY DEF SkipEmpty, Backs
<1>. QED BY <1>1, <1>2, CollectStep DEF SkipEmpty

\* The caller goes on with the run r of its batch.
Claiming(me, r) == [me EXCEPT !.stage = "claim", !.run = r]

LEMMA GivenRunFits ==
    ASSUME ChecksInv, NEW c \in Callers, NEW R, NEW S, Grown(runs, said, R, S),
           call[c].stage = "execute", call[c].batch \in 1..Len(plan),
           plan[call[c].batch] # << >>, NEW r \in 1..Len(R[call[c].batch])
    PROVE  /\ AllFit(Claiming(call[c], r), plan, R, S)
           /\ ToldFits(Claiming(call[c], r))
           /\ Claiming(call[c], r).stage = "claim"
<1>. DEFINE t == Claiming(call[c], r)
<1>1. /\ call[c] \in Call /\ AllFit(call[c], plan, runs, said) /\ ToldFits(call[c])
      /\ Len(plan) \in Nat /\ 1..Len(plan) \subseteq Batches
  BY CallerFacts
<1>2. r \in Nat
  BY <1>1 DEF Grown
<1>3. /\ t \in Call /\ t.stage = "claim" /\ t.at = call[c].at /\ t.told = call[c].told
      /\ t.batch = call[c].batch /\ t.run = r /\ t.claimed = call[c].claimed
      /\ t.runs = call[c].runs /\ t.texts = call[c].texts
  BY <1>1, <1>2 DEF Call, CheckStages, Claiming
<1>4. AllFit(call[c], plan, R, S)
  BY <1>1, FitsGrown
<1>. HIDE DEF t
<1>5. AllFit(t, plan, R, S)
  BY <1>3, <1>4 DEF AllFit
<1>6. ToldFits(t)
  BY <1>1, <1>3 DEF ToldFits
<1>. QED BY <1>3, <1>5, <1>6 DEF t

LEMMA PrepareStep ==
    ASSUME ChecksInv, NEW c \in Callers, PrepareBatch(c)
    PROVE  ChecksInv'
<1>. DEFINE b == call[c].batch
            t == Claiming(call[c], PreparedRun(b))
<1>1. /\ b \in 1..Len(plan) /\ b \in Batches /\ plan[b] # << >> /\ call[c].stage = "execute"
      /\ UNCHANGED <<rows, counts>> /\ ~call[c].claimed
  BY CallerFacts DEF PrepareBatch, AllFit
<1>2. runs \in [Batches -> Seq(Run)] /\ runs[b] \in Seq(Run) /\ Len(runs[b]) \in Nat
  BY <1>1 DEF ChecksInv, LedgerInv, LedgerTypeOK
<1>3. Counted' /\ orphans' = orphans
  BY <1>1 DEF ChecksInv, Counted, counts
<1>4. CASE Reusable(b)
  <2>1. UNCHANGED <<runs, said>>
    BY <1>4 DEF PrepareBatch, PrepareRun
  <2>2. PreparedRun(b) = Len(runs[b]) /\ PreparedRun(b) \in 1..Len(runs[b])
    BY <1>2, <1>4 DEF PreparedRun, Reusable, Latest
  <2>3. CASE Status(b, PreparedRun(b)) = "completed"
    <3>1. Collect(c, PreparedRun(b), said[b][PreparedRun(b)])
      BY <1>4, <2>3 DEF PrepareBatch
    <3>. HIDE DEF t
    <3>. QED BY <1>1, <2>1, <2>2, <2>3, <3>1, CompletedIsBacked, CollectStep
  <2>4. CASE Status(b, PreparedRun(b)) # "completed"
    <3>1. Goes(c, t)
      BY <1>4, <2>4 DEF PrepareBatch, Claiming
    <3>2. Grown(runs, said, runs, said)
      BY <2>1, Unchanged DEF ChecksInv
    <3>3. AllFit(t, plan, runs, said) /\ ToldFits(t) /\ t.stage = "claim"
      BY <1>1, <2>2, <3>2, GivenRunFits
    <3>. HIDE DEF t
    <3>4. Keeps(c, t)
      BY <1>1, <1>3 DEF Keeps
    <3>. QED BY <1>1, <1>3, <2>1, <3>1, <3>3, <3>4, QuietStep
  <2>. QED BY <2>3, <2>4
<1>5. CASE ~Reusable(b)
  <2>1. /\ runs' = [runs EXCEPT ![b] = Append(@, PendingRun)]
        /\ said' = [said EXCEPT ![b] = Append(@, Nil)]
        /\ Goes(c, t)
    BY <1>5 DEF PrepareBatch, PrepareRun, Claiming
  <2>2. /\ LedgerInv' /\ Grown(runs, said, runs', said')
        /\ Len(runs'[b]) = Len(runs[b]) + 1
        /\ runs'[b][Len(runs[b]) + 1] = PendingRun
        /\ \A s \in 1..Len(runs[b]) : runs'[b][s] = runs[b][s]
        /\ \A d \in Batches : d # b => runs'[d] = runs[d]
    BY <1>1, <1>5, <2>1, ExtendStep DEF ChecksInv
  <2>3. PreparedRun(b) \in 1..Len(runs'[b])
    BY <1>2, <1>5, <2>2 DEF PreparedRun, Latest
  <2>4. AllFit(t, plan, runs', said') /\ ToldFits(t) /\ t.stage = "claim"
    BY <1>1, <2>2, <2>3, GivenRunFits
  <2>. HIDE DEF t
  <2>5. OwnersKept(c, t)
    <3>. SUFFICES ASSUME NEW d \in Batches, NEW r \in 1..Len(runs'[d]),
                         runs'[d][r].status = "running"
         PROVE  r \in 1..Len(runs[d]) /\ runs[d][r].status = "running"
      BY <1>1, <1>3 DEF OwnersKept, Owns
    <3>1. CASE d # b
      BY <2>2, <3>1
    <3>2. CASE d = b
      <4>1. PendingRun.status # "running"
        BY DEF PendingRun
      <4>. QED BY <1>2, <2>2, <3>2, <4>1
    <3>. QED BY <3>1, <3>2
  <2>6. Continues(c, t)
    BY <2>1, <2>2, <2>4 DEF Continues
  <2>. QED BY <1>1, <1>3, <2>2, <2>4, <2>5, <2>6, CallStep
<1>. QED BY <1>4, <1>5

\* What is left of a run that has not ended when it becomes run, whose status is not
\* "running" unless the caller goes on owning it or makes an orphan of it.
LEMMA RunStep ==
    ASSUME ChecksInv, NEW c \in Callers, NEW b \in Batches, NEW r \in 1..Len(runs[b]),
           NEW run, Changed(b, r, run), LedgerInv', UNCHANGED rows, Counted',
           orphans \subseteq orphans',
           NEW t, Goes(c, t), AllFit(t, plan, runs', said'), ToldFits(t), t.stage # "commit",
           run.status = "running" => Owns(t, b, r) \/ <<b, r>> \in orphans',
           ~call[c].claimed \/ Owns(call[c], b, r)
    PROVE  ChecksInv'
<1>1. /\ Grown(runs, said, runs', said') /\ runs'[b][r] = run
      /\ \A d \in Batches : Len(runs'[d]) = Len(runs[d])
      /\ \A d \in Batches : \A s \in 1..Len(runs[d]) :
           d # b \/ s # r => runs'[d][s] = runs[d][s]
  BY DEF Changed
<1>2. Continues(c, t)
  BY <1>1 DEF Continues
<1>3. OwnersKept(c, t)
  <2>. SUFFICES ASSUME NEW d \in Batches, NEW s \in 1..Len(runs'[d]),
                       runs'[d][s].status = "running", ~Owns(t, d, s),
                       <<d, s>> \notin orphans'
       PROVE  /\ s \in 1..Len(runs[d]) /\ runs[d][s].status = "running"
              /\ ~Owns(call[c], d, s)
    BY DEF OwnersKept
  <2>1. d # b \/ s # r
    BY <1>1
  <2>. QED BY <1>1, <2>1 DEF Owns
<1>. QED BY <1>2, <1>3, CallStep

\* The run a caller works on.
LEMMA WorkFacts ==
    ASSUME ChecksInv, NEW c \in Callers,
           call[c].stage \in {"claim", "call", "complete", "fail"}
    PROVE  /\ call[c].batch \in 1..Len(plan) /\ call[c].batch \in Batches
           /\ plan[call[c].batch] # << >>
           /\ call[c].run \in 1..Len(runs[call[c].batch]) /\ call[c].run \in Nat
           /\ runs[call[c].batch][call[c].run] \in Run
           /\ RunShape(runs[call[c].batch][call[c].run])
           /\ call[c].claimed => Owns(call[c], call[c].batch, call[c].run)
<1>1. /\ call[c].batch \in 1..Len(plan) /\ call[c].batch \in Batches
      /\ plan[call[c].batch] # << >> /\ call[c].run \in 1..Len(runs[call[c].batch])
  BY CallerFacts DEF AllFit
<1>2. /\ runs[call[c].batch] \in Seq(Run)
      /\ RunShape(runs[call[c].batch][call[c].run])
  BY <1>1 DEF ChecksInv, LedgerInv, LedgerTypeOK
<1>. QED BY <1>1, <1>2 DEF Owns

\* A caller that is gone makes an orphan of the run it has claimed.
LEMMA LosesRunKeeps ==
    ASSUME ChecksInv, NEW c \in Callers, LosesRun(c)
    PROVE  Counted' /\ Keeps(c, Idle)
<1>1. Counted
  BY DEF ChecksInv
<1>2. CASE call[c].claimed
  <2>1. call[c].batch \in Batches /\ call[c].run \in Nat
    BY <1>2, CallerFacts, WorkFacts DEF AllFit
  <2>. QED BY <1>1, <1>2, <2>1 DEF LosesRun, Counted, Keeps
<1>3. CASE ~call[c].claimed
  BY <1>1, <1>3 DEF LosesRun, Counted, Keeps
<1>. QED BY <1>2, <1>3

LEMMA FailureUnrecordedStep ==
    ASSUME ChecksInv, NEW c \in Callers, FailureUnrecorded(c)
    PROVE  ChecksInv'
BY LosesRunKeeps, EndsStep DEF FailureUnrecorded

LEMMA EndedShape ==
    ASSUME NEW run \in Run, NEW status \in {"completed", "failed"}, ~run.applied,
           NEW code \in RunCodes \cup {"none"}, code = "none" <=> status = "completed"
    PROVE  /\ Ended(run, status, code) \in Run /\ RunShape(Ended(run, status, code))
           /\ Ended(run, status, code).status = status
BY DEF Ended, Run, RunShape

\* The run a caller claims is running.
LEMMA LaunchedStep ==
    ASSUME ChecksInv, NEW c \in Callers, call[c].stage = "claim", said' = said,
           LaunchRun(call[c].batch, call[c].run)
    PROVE  \E run : /\ LedgerInv' /\ Changed(call[c].batch, call[c].run, run)
                    /\ ~call[c].claimed
<1>. DEFINE b == call[c].batch
            r == call[c].run
            run == [runs[b][r] EXCEPT !.status = "running", !.fresh = TRUE]
<1>1. Status(b, r) = "pending"
  BY DEF LaunchRun
<1>2. /\ b \in Batches /\ r \in 1..Len(runs[b])
      /\ runs[b][r] \in Run /\ RunShape(runs[b][r])
  BY WorkFacts
<1>3. run \in Run /\ RunShape(run)
  BY <1>1, <1>2 DEF Run, RunShape, Status
<1>4. runs' = [runs EXCEPT ![b][r] = run]
  <2>1. runs[b] \in Seq(Run) /\ runs \in [Batches -> Seq(Run)]
    BY <1>2 DEF ChecksInv, LedgerInv, LedgerTypeOK
  <2>2. runs' = [runs EXCEPT ![b][r].status = "running", ![b][r].fresh = TRUE]
    BY DEF LaunchRun
  <2>. HIDE DEF b, r
  <2>. QED BY <1>2, <2>1, <2>2
<1>5. ~call[c].claimed /\ LedgerInv /\ runs[b][r].status \notin {"completed", "failed"}
  BY <1>1, CallerFacts DEF AllFit, Status, ChecksInv
<1>. HIDE DEF run, b, r
<1>6. LedgerInv' /\ Changed(b, r, run)
  BY <1>2, <1>3, <1>4, <1>5, ChangeStep
<1>. QED BY <1>5, <1>6 DEF b, r

LEMMA ClaimPendingStep ==
    ASSUME ChecksInv, NEW c \in Callers, ClaimPending(c)
    PROVE  ChecksInv'
<1>. DEFINE b == call[c].batch
            r == call[c].run
            t == [call[c] EXCEPT !.stage = "call", !.claimed = TRUE]
<1>1. /\ call[c].stage = "claim" /\ Goes(c, t) /\ LaunchRun(b, r)
      /\ UNCHANGED <<rows, said, counts>>
  BY DEF ClaimPending
<1>2. /\ b \in 1..Len(plan) /\ b \in Batches /\ plan[b] # << >> /\ r \in 1..Len(runs[b])
      /\ runs[b][r] \in Run /\ RunShape(runs[b][r])
  BY <1>1, WorkFacts
<1>3. /\ call[c] \in Call /\ AllFit(call[c], plan, runs, said) /\ ToldFits(call[c])
      /\ Len(plan) \in Nat /\ 1..Len(plan) \subseteq Batches
  BY CallerFacts
<1>4. PICK run : LedgerInv' /\ Changed(b, r, run) /\ ~call[c].claimed
  BY <1>1, LaunchedStep
<1>6. /\ t \in Call /\ t.stage = "call" /\ t.at = call[c].at /\ t.told = call[c].told
      /\ t.batch = b /\ t.run = r /\ t.claimed = TRUE
      /\ t.runs = call[c].runs /\ t.texts = call[c].texts
  BY <1>3 DEF Call, CheckStages
<1>7. said' = said /\ UNCHANGED rows /\ orphans' = orphans /\ Counted'
  BY <1>1 DEF ChecksInv, Counted, counts
<1>. HIDE DEF t, b, r
<1>10. AllFit(call[c], plan, runs', said')
  BY <1>3, <1>4, FitsGrown DEF Changed
<1>11. AllFit(t, plan, runs', said') /\ ToldFits(t) /\ Owns(t, b, r)
  BY <1>1, <1>2, <1>3, <1>6, <1>10 DEF AllFit, ToldFits, Owns, b, r
<1>. QED BY <1>1, <1>2, <1>4, <1>6, <1>7, <1>11, RunStep

LEMMA ClaimUnseenStep ==
    ASSUME ChecksInv, NEW c \in Callers, ClaimUnseen(c)
    PROVE  ChecksInv'
<1>. DEFINE b == call[c].batch
            r == call[c].run
<1>1. /\ call[c].stage = "claim" /\ Goes(c, Idle) /\ LaunchRun(b, r)
      /\ orphans' = orphans \cup {<<b, r>>} /\ losses' = losses /\ failures' = failures + 1
      /\ said' = said /\ UNCHANGED rows
  BY DEF ClaimUnseen, Ends
<1>2. b \in Batches /\ r \in 1..Len(runs[b]) /\ r \in Nat
  BY <1>1, WorkFacts
<1>3. PICK run : LedgerInv' /\ Changed(b, r, run) /\ ~call[c].claimed
  BY <1>1, LaunchedStep
<1>4. Counted' /\ orphans \subseteq orphans' /\ <<b, r>> \in orphans'
  BY <1>1, <1>2 DEF ChecksInv, Counted
<1>5. Idle.stage # "commit"
  BY DEF Idle
<1>. HIDE DEF b, r
<1>. QED BY <1>1, <1>2, <1>3, <1>4, <1>5, IdleFits, IdleIsTold, RunStep

LEMMA ClaimOtherStep ==
    ASSUME ChecksInv, NEW c \in Callers, ClaimOther(c)
    PROVE  ChecksInv'
<1>. DEFINE b == call[c].batch
            r == call[c].run
<1>1. call[c].stage = "claim" /\ UNCHANGED <<rows, runs, said, counts>> /\ ~call[c].claimed
  BY CallerFacts DEF ClaimOther, AllFit
<1>2. /\ b \in 1..Len(plan) /\ plan[b] # << >> /\ r \in 1..Len(runs[b])
  BY <1>1, WorkFacts
<1>3. CASE Status(b, r) = "completed" /\ Collect(c, r, said[b][r])
  BY <1>1, <1>2, <1>3, CompletedIsBacked, CollectStep
<1>4. CASE Ends(c)
  BY <1>1, <1>4, GivesUpStep
<1>. QED BY <1>3, <1>4 DEF ClaimOther

\* The run a caller works on is answered.
LEMMA CompletedStep ==
    ASSUME ChecksInv, NEW c \in Callers, call[c].stage = "complete",
           NEW text \in Texts, CompleteRun(call[c].batch, call[c].run),
           said' = [said EXCEPT ![call[c].batch][call[c].run] = text]
    PROVE  LET run == Ended(runs[call[c].batch][call[c].run], "completed", "none") IN
           /\ LedgerInv' /\ Changed(call[c].batch, call[c].run, run)
           /\ run.status = "completed"
           /\ said'[call[c].batch][call[c].run] = text
<1>. DEFINE b == call[c].batch
            r == call[c].run
            run == Ended(runs[b][r], "completed", "none")
<1>1. /\ b \in Batches /\ r \in 1..Len(runs[b]) /\ runs[b][r] \in Run /\ RunShape(runs[b][r])
  BY WorkFacts
<1>2. runs[b][r].status = "running"
  BY DEF CompleteRun, MayComplete, Status
<1>3. run \in Run /\ RunShape(run) /\ run.status = "completed"
  <2>1. ~runs[b][r].applied
    BY <1>1, <1>2 DEF Run, RunShape
  <2>. QED BY <1>1, <2>1, EndedShape
<1>4. runs' = [runs EXCEPT ![b][r] = run]
  <2>1. runs[b] \in Seq(Run) /\ runs \in [Batches -> Seq(Run)]
    BY <1>1 DEF ChecksInv, LedgerInv, LedgerTypeOK
  <2>. QED BY <1>1, <2>1 DEF CompleteRun
<1>5. Replaces(b, r, run, text)
  BY <1>4 DEF Replaces
<1>. HIDE DEF run
<1>6. LedgerInv' /\ Changed(b, r, run) /\ said'[b][r] = text
  <2>1. LedgerInv /\ runs[b][r].status \notin {"completed", "failed"} /\ text \in Texts \cup {Nil}
    BY <1>2 DEF ChecksInv
  <2>. HIDE DEF b, r
  <2>. QED BY <1>1, <1>3, <1>5, <2>1, ReplaceStep
<1>. QED BY <1>3, <1>6 DEF run

LEMMA CompleteStep ==
    ASSUME ChecksInv, NEW c \in Callers, Complete(c)
    PROVE  ChecksInv'
<1>. DEFINE b == call[c].batch
            r == call[c].run
            run == Ended(runs[b][r], "completed", "none")
<1>1. call[c].stage = "complete" /\ UNCHANGED <<rows, counts>>
  BY DEF Complete
<1>2. Counted' /\ orphans' = orphans
  BY <1>1 DEF ChecksInv, Counted, counts
<1>3. CASE ~MayComplete(b, r)
  <2>1. Abort(c) /\ UNCHANGED <<runs, said>>
    BY <1>3 DEF Complete
  <2>. QED BY <1>1, <1>2, <2>1, AbortStep
<1>4. CASE MayComplete(b, r)
  <2>1. PICK text \in Texts :
          /\ CompleteRun(b, r)
          /\ said' = [said EXCEPT ![b][r] = text]
          /\ Collect(c, r, text)
    BY <1>4 DEF Complete
  <2>2. /\ LedgerInv' /\ Changed(b, r, run) /\ run.status = "completed" /\ said'[b][r] = text
    BY <1>1, <2>1, CompletedStep
  <2>3. /\ b \in 1..Len(plan) /\ b \in Batches /\ plan[b] # << >> /\ r \in 1..Len(runs[b])
        /\ r \in Nat
        /\ call[c].claimed => Owns(call[c], b, r)
    BY <1>1, WorkFacts
  <2>. DEFINE t == After(call[c], r, text)
  <2>. HIDE DEF run
  <2>4. Backs(r, text, b, plan, runs', said')
    BY <2>2, <2>3 DEF Backs, Changed
  <2>5. /\ AllFit(t, plan, runs', said') /\ t.stage = "execute" /\ ToldFits(t)
    <3>1. Grown(runs, said, runs', said')
      BY <2>2 DEF Changed
    <3>. QED BY <1>1, <2>3, <2>4, <3>1, AfterFits
  <2>6. Goes(c, t)
    BY <2>1 DEF Collect, After
  <2>. HIDE DEF t
  <2>7. t.stage # "commit" /\ UNCHANGED rows
    BY <1>1, <2>5
  <2>8. ~call[c].claimed \/ Owns(call[c], b, r)
    BY <2>3
  <2>. HIDE DEF b, r
  <2>9. run.status # "running"
    BY <2>2
  <2>. QED BY <1>2, <2>2, <2>3, <2>5, <2>6, <2>7, <2>8, <2>9, RunStep
<1>. QED BY <1>3, <1>4

\* A caller whose run has ended records the error or gives up.
LEMMA AbortEndedStep ==
    ASSUME ChecksInv, NEW c \in Callers, call[c].stage = "complete", Abort(c),
           NEW run, Changed(call[c].batch, call[c].run, run), run.status = "completed",
           LedgerInv', UNCHANGED rows, Counted', orphans' = orphans
    PROVE  ChecksInv'
<1>. DEFINE b == call[c].batch
            r == call[c].run
<1>1. /\ call[c] \in Call /\ AllFit(call[c], plan, runs, said) /\ ToldFits(call[c])
      /\ Len(plan) \in Nat /\ 1..Len(plan) \subseteq Batches
  BY CallerFacts
<1>2. /\ b \in Batches /\ r \in 1..Len(runs[b])
      /\ ~call[c].claimed \/ Owns(call[c], b, r)
  BY WorkFacts
<1>3. run.status # "running"
  OBVIOUS
<1>4. CASE call[c].claimed
  <2>. DEFINE t == [call[c] EXCEPT !.stage = "fail"]
  <2>1. Goes(c, t)
    BY <1>4 DEF Abort, Enters
  <2>2. /\ t \in Call /\ t.stage = "fail" /\ t.at = call[c].at /\ t.told = call[c].told
        /\ t.batch = b /\ t.run = r /\ t.claimed = call[c].claimed
        /\ t.runs = call[c].runs /\ t.texts = call[c].texts
    BY <1>1 DEF Call, CheckStages
  <2>3. AllFit(call[c], plan, runs', said')
    BY <1>1, FitsGrown DEF Changed
  <2>. HIDE DEF t, b, r
  <2>4. AllFit(t, plan, runs', said')
    BY <2>2, <2>3 DEF AllFit, b, r
  <2>5. ToldFits(t) /\ t.stage # "commit"
    BY <1>1, <2>2 DEF ToldFits
  <2>6. Changed(b, r, run)
    BY DEF b, r
  <2>. QED BY <1>2, <1>3, <2>1, <2>4, <2>5, <2>6, RunStep
<1>5. CASE ~call[c].claimed
  <2>1. Goes(c, Idle) /\ Idle.stage # "commit"
    BY <1>5 DEF Abort, Ends, Idle
  <2>2. Changed(b, r, run)
    OBVIOUS
  <2>. HIDE DEF b, r
  <2>. QED BY <1>2, <1>3, <2>1, <2>2, IdleFits, IdleIsTold, RunStep
<1>. QED BY <1>4, <1>5

LEMMA CompleteUnseenStep ==
    ASSUME ChecksInv, NEW c \in Callers, CompleteUnseen(c)
    PROVE  ChecksInv'
<1>. DEFINE b == call[c].batch
            r == call[c].run
            run == Ended(runs[b][r], "completed", "none")
<1>1. PICK text \in Texts :
        CompleteRun(b, r) /\ said' = [said EXCEPT ![b][r] = text]
  BY DEF CompleteUnseen
<1>2. /\ call[c].stage = "complete" /\ Abort(c) /\ UNCHANGED rows
      /\ orphans' = orphans /\ Counted'
  BY DEF CompleteUnseen, ChecksInv, Counted
<1>3. LedgerInv' /\ Changed(b, r, run) /\ run.status = "completed"
  BY <1>1, <1>2, CompletedStep
<1>. HIDE DEF run
<1>. QED BY <1>2, <1>3, AbortEndedStep

LEMMA RecordFailureStep ==
    ASSUME ChecksInv, NEW c \in Callers, RecordFailure(c)
    PROVE  ChecksInv'
<1>. DEFINE b == call[c].batch
            r == call[c].run
            run == Ended(runs[b][r], "failed", "transport")
<1>1. /\ call[c].stage = "fail" /\ Goes(c, Idle) /\ UNCHANGED <<rows, said, counts>>
  BY DEF RecordFailure, Ends
<1>2. /\ b \in Batches /\ r \in 1..Len(runs[b]) /\ runs[b][r] \in Run /\ RunShape(runs[b][r])
      /\ ~call[c].claimed \/ Owns(call[c], b, r)
  BY <1>1, WorkFacts
<1>3. Counted' /\ orphans' = orphans /\ UNCHANGED rows
  BY <1>1 DEF ChecksInv, Counted, counts
<1>4. Idle.stage # "commit"
  BY DEF Idle
<1>5. CASE Status(b, r) = "running"
  <2>1. runs' = [runs EXCEPT ![b][r] = run]
    <3>1. runs[b] \in Seq(Run) /\ runs \in [Batches -> Seq(Run)]
      BY <1>2 DEF ChecksInv, LedgerInv, LedgerTypeOK
    <3>. QED BY <1>2, <1>5, <3>1 DEF RecordFailure, FailRun
  <2>2. run \in Run /\ RunShape(run) /\ run.status = "failed"
    <3>1. ~runs[b][r].applied /\ "transport" \in RunCodes \cup {"none"}
      BY <1>2, <1>5 DEF Run, RunShape, Status, RunCodes, RetryableCodes
    <3>. QED BY <1>2, <3>1, EndedShape
  <2>. HIDE DEF run
  <2>3. LedgerInv' /\ Changed(b, r, run)
    <3>1. runs[b][r].status \notin {"completed", "failed"} /\ LedgerInv
      BY <1>5 DEF Status, ChecksInv
    <3>. HIDE DEF b, r
    <3>. QED BY <1>1, <1>2, <2>1, <2>2, <3>1, ChangeStep
  <2>. HIDE DEF b, r
  <2>4. run.status # "running"
    BY <2>2
  <2>. QED BY <1>1, <1>2, <1>3, <1>4, <2>3, <2>4, IdleFits, IdleIsTold, RunStep
<1>6. CASE Status(b, r) # "running"
  <2>1. UNCHANGED <<runs, said>>
    BY <1>1, <1>6 DEF RecordFailure
  <2>2. LedgerInv' /\ Grown(runs, said, runs', said')
    BY <2>1, Unchanged DEF ChecksInv
  <2>3. Continues(c, Idle)
    BY <1>1, <2>2, IdleFits DEF Continues
  <2>4. OwnersKept(c, Idle)
    <3>. SUFFICES ASSUME NEW d \in Batches, NEW s \in 1..Len(runs[d]),
                         runs[d][s].status = "running"
         PROVE  ~Owns(call[c], d, s)
      BY <1>3, <2>1 DEF OwnersKept
    <3>. QED BY <1>6 DEF Status, Owns
  <2>. QED BY <1>3, <1>4, <2>2, <2>3, <2>4, IdleIsTold, CallStep
<1>. QED BY <1>5, <1>6

------------------------------------------------------------------------------
(* Steps that write the rows. *)

\* The runs stay as they are and the caller goes on with t.
LEMMA RowsStep ==
    ASSUME ChecksInv, NEW c \in Callers, NEW t, Goes(c, t), AllFit(t, plan, runs, said),
           UNCHANGED <<plan, runs, said>>, Keeps(c, t)
    PROVE  /\ LedgerInv' /\ CallsFit' /\ RunningIsOwned'
           /\ call'[c] = t /\ \A d \in Callers : d # c => call'[d] = call[d]
<1>1. LedgerInv' /\ Grown(runs, said, runs', said')
  BY Unchanged DEF ChecksInv
<1>2. Continues(c, t)
  BY <1>1 DEF Continues
<1>3. CallsFit' /\ call'[c] = t /\ \A d \in Callers : d # c => call'[d] = call[d]
  BY <1>2, CallsStep DEF ChecksInv
<1>4. OwnersKept(c, t)
  BY DEF OwnersKept, Owns, Keeps
<1>5. RunningIsOwned'
  BY <1>3, <1>4, OwnersStep DEF ChecksInv
<1>. QED BY <1>1, <1>3, <1>5

LEMMA InsertStep ==
    ASSUME ChecksInv, NEW c \in Callers, NEW l \in Ledgers, Insert(c, l)
    PROVE  ChecksInv'
<1>1. /\ call[c].stage = "insert" /\ call[c].at = l /\ inserting[l] = Nil
      /\ UNCHANGED <<extraction, plan, writer, stored, runs, said, counts>>
  BY DEF Insert, AtLedger
<1>2. /\ call[c] \in Call /\ AllFit(call[c], plan, runs, said) /\ ToldFits(call[c])
      /\ ~call[c].claimed
  BY <1>1, CallerFacts DEF AllFit
<1>3. Counted' /\ orphans' = orphans
  BY <1>1 DEF ChecksInv, Counted, counts
<1>4. CASE writer[l] = Nil
  <2>. DEFINE t == [call[c] EXCEPT !.stage = "commit"]
  <2>1. Goes(c, t) /\ inserting' = [inserting EXCEPT ![l] = c]
    BY <1>4 DEF Insert, Enters
  <2>2. /\ t \in Call /\ t.stage = "commit" /\ t.at = l /\ t.told = call[c].told
        /\ t.batch = call[c].batch /\ t.claimed = call[c].claimed
        /\ t.runs = call[c].runs /\ t.texts = call[c].texts
    BY <1>1, <1>2 DEF Call, CheckStages
  <2>. HIDE DEF t
  <2>3. AllFit(t, plan, runs, said)
    BY <1>1, <1>2, <2>2 DEF AllFit
  <2>4. /\ LedgerInv' /\ CallsFit' /\ RunningIsOwned'
        /\ call'[c] = t /\ \A d \in Callers : d # c => call'[d] = call[d]
    BY <1>1, <1>2, <1>3, <2>1, <2>3, RowsStep DEF Keeps
  <2>5. RowsInv'
    BY <1>1, <1>4, <2>1 DEF ChecksInv, RowsInv
  <2>6. CommitHeld'
    <3>1. inserting \in [Ledgers -> Callers \cup {Nil}] /\ c # Nil
      BY ChecksAssumption DEF ChecksInv, RowsInv
    <3>. SUFFICES ASSUME NEW d \in Callers, call'[d].stage = "commit"
         PROVE  inserting'[call'[d].at] = d
      BY DEF CommitHeld
    <3>2. CASE d = c
      BY <2>1, <2>2, <2>4, <3>1, <3>2
    <3>3. CASE d # c
      <4>1. call'[d] = call[d] /\ inserting[call[d].at] = d /\ call[d] \in Call
        BY <2>4, <3>3 DEF ChecksInv, CommitHeld, CallsFit
      <4>2. call[d].at # l /\ call[d].at \in Ledgers
        BY <1>1, <4>1, ChecksAssumption DEF Call
      <4>. QED BY <2>1, <3>1, <4>1, <4>2
    <3>. QED BY <3>2, <3>3
  <2>7. StoredFits'
    BY <1>1 DEF ChecksInv, StoredFits
  <2>8. ToldIsStored'
    BY <1>1, <2>2, <2>4 DEF ChecksInv, ToldIsStored
  <2>. QED BY <1>3, <2>4, <2>5, <2>6, <2>7, <2>8 DEF ChecksInv
<1>5. CASE writer[l] # Nil
  <2>1. Enters(c, "reread") /\ inserting' = inserting
    BY <1>5 DEF Insert
  <2>2. UNCHANGED <<rows, runs, said>>
    BY <1>1, <2>1 DEF rows
  <2>. QED BY <1>1, <1>2, <1>3, <2>1, <2>2, EntersStep DEF CheckStages
<1>. QED BY <1>4, <1>5

\* The row is committed and the caller goes on with t.
LEMMA WrittenStep ==
    ASSUME ChecksInv, NEW c \in Callers, NEW l \in Ledgers, AtLedger(c, "commit", l),
           Written(c, l), NEW t, Goes(c, t), AllFit(t, plan, runs, said), t.stage # "commit",
           \A k \in Ledgers : t.told[k] # Nil =>
             IF k = l THEN t.told[k] = c ELSE t.told[k] = call[c].told[k],
           orphans' = orphans, Counted'
    PROVE  ChecksInv'
<1>1. /\ call[c].stage = "commit" /\ call[c].at = l
      /\ call[c] \in Call /\ AllFit(call[c], plan, runs, said) /\ ~call[c].claimed
  BY CallerFacts DEF AtLedger, AllFit
<1>2. inserting[l] = c /\ c # Nil /\ writer[l] = Nil
  BY <1>1, ChecksAssumption DEF ChecksInv, CommitHeld, RowsInv
<1>3. /\ writer' = [writer EXCEPT ![l] = c] /\ inserting' = [inserting EXCEPT ![l] = Nil]
      /\ stored' = IF l = "check"
                   THEN [runs |-> call[c].runs, texts |-> call[c].texts] ELSE stored
      /\ UNCHANGED <<extraction, plan, runs, said>>
  BY DEF Written
<1>4. /\ LedgerInv' /\ CallsFit' /\ RunningIsOwned'
      /\ call'[c] = t /\ \A d \in Callers : d # c => call'[d] = call[d]
  BY <1>1, <1>3, RowsStep DEF Keeps
<1>5. /\ writer \in [Ledgers -> Callers \cup {Nil}]
      /\ inserting \in [Ledgers -> Callers \cup {Nil}]
  BY DEF ChecksInv, RowsInv
<1>6. /\ writer'[l] = c /\ \A k \in Ledgers : k # l => writer'[k] = writer[k]
      /\ inserting'[l] = Nil /\ \A k \in Ledgers : k # l => inserting'[k] = inserting[k]
  BY <1>3, <1>5
<1>7. RowsInv'
  <2>1. call[c].runs \in Seq(Nat) /\ call[c].texts \in Seq(Texts \cup {Nil})
    BY <1>1 DEF Call
  <2>2. stored' \in [runs : Seq(Nat), texts : Seq(Texts \cup {Nil})]
    BY <1>3, <2>1 DEF ChecksInv, RowsInv
  <2>3. /\ writer' \in [Ledgers -> Callers \cup {Nil}]
        /\ inserting' \in [Ledgers -> Callers \cup {Nil}]
    BY <1>3, <1>5
  <2>4. \A k \in Ledgers : inserting'[k] # Nil => writer'[k] = Nil
    BY <1>6 DEF ChecksInv, RowsInv
  <2>. QED BY <1>3, <2>2, <2>3, <2>4 DEF ChecksInv, RowsInv
<1>8. CommitHeld'
  <2>. SUFFICES ASSUME NEW d \in Callers, call'[d].stage = "commit"
       PROVE  inserting'[call'[d].at] = d
    BY DEF CommitHeld
  <2>1. d # c /\ call'[d] = call[d] /\ inserting[call[d].at] = d /\ call[d] \in Call
    BY <1>4 DEF ChecksInv, CommitHeld, CallsFit
  <2>2. call[d].at # l /\ call[d].at \in Ledgers
    BY <1>2, <2>1 DEF Call
  <2>. QED BY <1>6, <2>1, <2>2
<1>9. StoredFits'
  <2>1. CASE l = "check"
    <3>1. /\ call[c].batch = Len(plan) + 1
          /\ Collected(call[c].runs, call[c].texts, call[c].batch - 1, plan, runs, said)
      BY <1>1, <2>1 DEF AllFit
    <3>2. call[c].batch - 1 = Len(plan)
      BY <3>1, CallerFacts
    <3>3. stored'.runs = call[c].runs /\ stored'.texts = call[c].texts
      BY <1>3, <2>1
    <3>. QED BY <1>3, <3>1, <3>2, <3>3 DEF StoredFits
  <2>2. CASE l # "check"
    <3>1. writer'["check"] = writer["check"] /\ stored' = stored
      BY <1>3, <1>6, <2>2 DEF Ledgers
    <3>. QED BY <1>3, <3>1 DEF ChecksInv, StoredFits
  <2>. QED BY <2>1, <2>2
<1>10. ToldIsStored'
  <2>. SUFFICES ASSUME NEW d \in Callers, NEW k \in Ledgers, call'[d].told[k] # Nil
       PROVE  call'[d].told[k] = writer'[k]
    BY DEF ToldIsStored
  <2>1. \A e \in Callers : call[e].told[k] # Nil => call[e].told[k] = writer[k]
    BY DEF ChecksInv, ToldIsStored
  <2>2. CASE d = c /\ k = l
    BY <1>4, <1>6, <2>2
  <2>3. CASE d = c /\ k # l
    <3>1. t.told[k] # Nil /\ t.told[k] = call[c].told[k]
      BY <1>4, <2>3
    <3>. QED BY <1>4, <1>6, <2>1, <2>3, <3>1
  <2>4. CASE d # c
    <3>1. call'[d] = call[d] /\ call[d].told[k] = writer[k] /\ k # l
      BY <1>2, <1>4, <2>1, <2>4
    <3>. QED BY <1>6, <3>1
  <2>. QED BY <2>2, <2>3, <2>4
<1>. QED BY <1>4, <1>7, <1>8, <1>9, <1>10 DEF ChecksInv

LEMMA LedgerCommitStep ==
    ASSUME ChecksInv, NEW c \in Callers, NEW l \in Ledgers, CommitLedger(c, l)
    PROVE  ChecksInv'
<1>. DEFINE t == Given(c, l, c)
<1>1. /\ AtLedger(c, "commit", l) /\ Written(c, l) /\ Goes(c, t)
      /\ orphans' = orphans /\ Counted'
  BY DEF CommitLedger, ChecksInv, Counted, counts
<1>2. /\ AllFit(t, plan, runs, said) /\ t.stage # "commit"
      /\ \A k \in Ledgers : t.told[k] # Nil =>
           IF k = l THEN t.told[k] = c ELSE t.told[k] = call[c].told[k]
  BY <1>1, GivenFits DEF AtLedger
<1>. HIDE DEF t
<1>. QED BY <1>1, <1>2, WrittenStep

LEMMA CommitUnseenStep ==
    ASSUME ChecksInv, NEW c \in Callers, NEW l \in Ledgers, CommitUnseen(c, l)
    PROVE  ChecksInv'
<1>1. /\ AtLedger(c, "commit", l) /\ Written(c, l) /\ Goes(c, Idle)
      /\ orphans' = orphans /\ Counted'
  BY DEF CommitUnseen, ChecksInv, Counted, Ends
<1>2. Idle.stage # "commit" /\ \A k \in Ledgers : Idle.told[k] = Nil
  BY DEF Idle
<1>. QED BY <1>1, <1>2, IdleFits, WrittenStep

\* The transaction of a caller is rolled back and its call is over.
LEMMA RolledBackStep ==
    ASSUME ChecksInv, NEW c \in Callers, RolledBack(c), Ends(c), Keeps(c, Idle), Counted'
    PROVE  ChecksInv'
<1>1. /\ Goes(c, Idle) /\ UNCHANGED <<extraction, plan, writer, stored, runs, said>>
      /\ inserting' = [l \in Ledgers |-> IF inserting[l] = c THEN Nil ELSE inserting[l]]
  BY DEF RolledBack, Ends
<1>2. Counted'
  OBVIOUS
<1>3. /\ LedgerInv' /\ CallsFit' /\ RunningIsOwned'
      /\ call'[c] = Idle /\ \A d \in Callers : d # c => call'[d] = call[d]
  BY <1>1, <1>2, IdleFits, RowsStep
<1>4. RowsInv'
  BY <1>1 DEF ChecksInv, RowsInv
<1>5. CommitHeld'
  <2>. SUFFICES ASSUME NEW d \in Callers, call'[d].stage = "commit"
       PROVE  inserting'[call'[d].at] = d
    BY DEF CommitHeld
  <2>1. d # c
    BY <1>3 DEF Idle
  <2>2. call'[d] = call[d] /\ inserting[call[d].at] = d /\ call[d] \in Call
    BY <1>3, <2>1 DEF ChecksInv, CommitHeld, CallsFit
  <2>3. call[d].at \in Ledgers
    BY <2>2 DEF Call
  <2>. QED BY <1>1, <2>1, <2>2, <2>3
<1>6. StoredFits'
  BY <1>1 DEF ChecksInv, StoredFits
<1>7. ToldIsStored'
  <2>1. \A l \in Ledgers : Idle.told[l] = Nil
    BY DEF Idle
  <2>. QED BY <1>1, <1>3, <2>1 DEF ChecksInv, ToldIsStored
<1>. QED BY <1>2, <1>3, <1>4, <1>5, <1>6, <1>7 DEF ChecksInv

LEMMA DiesStep ==
    ASSUME ChecksInv, NEW c \in Callers, Dies(c)
    PROVE  ChecksInv'
BY LosesRunKeeps, RolledBackStep DEF Dies

LEMMA BreaksStep ==
    ASSUME ChecksInv, NEW c \in Callers, Breaks(c)
    PROVE  ChecksInv'
<1>1. ~call[c].claimed
  BY CallerFacts DEF Breaks, CheckStages, AllFit
<1>2. Counted' /\ Keeps(c, Idle)
  BY <1>1 DEF Breaks, ChecksInv, Counted, Keeps
<1>. QED BY <1>2, RolledBackStep DEF Breaks

------------------------------------------------------------------------------
(* The theorems. *)

LEMMA ChecksInit == CheckInit => ChecksInv
<1>. SUFFICES ASSUME CheckInit PROVE ChecksInv
  OBVIOUS
<1>. USE DEF CheckInit
<1>1. LedgerInv
  <2>1. runs = [b \in Batches |-> << >>] /\ said = [b \in Batches |-> << >>]
    BY DEF LedgerInit
  <2>. QED BY <2>1 DEF LedgerInv, LedgerTypeOK, RunsInOrder, SaidFits
<1>2. CallsFit
  <2>1. Idle \in Call
    BY IdleFits DEF AllFit
  <2>. QED BY <2>1, IdleFits DEF CallsFit
<1>3. RowsInv
  <2>1. stored \in [runs : Seq(Nat), texts : Seq(Texts \cup {Nil})]
    OBVIOUS
  <2>. QED BY <2>1 DEF RowsInv
<1>4. CommitHeld /\ StoredFits /\ ToldIsStored
  BY DEF CommitHeld, StoredFits, ToldIsStored, Idle, Ledgers
<1>5. RunningIsOwned /\ Counted
  BY DEF RunningIsOwned, Counted, LedgerInit
<1>. QED BY <1>1, <1>2, <1>3, <1>4, <1>5 DEF ChecksInv

LEMMA ChecksNext == ChecksInv /\ [CheckNext]_checkVars => ChecksInv'
<1>. SUFFICES ASSUME ChecksInv, [CheckNext]_checkVars PROVE ChecksInv'
  OBVIOUS
<1>1. ASSUME NEW c \in Callers, Start(c) PROVE ChecksInv'
  BY <1>1, StartStep
<1>2. ASSUME NEW c \in Callers, Write(c) PROVE ChecksInv'
  BY <1>2, LookupStep, InsertStep, LedgerCommitStep, RereadStep DEF Write
<1>3. ASSUME NEW c \in Callers, Work(c) PROVE ChecksInv'
  BY <1>3, AllAssessedStep, SkipEmptyStep, PrepareStep, ClaimPendingStep, ClaimOtherStep,
     AnsweredStep, CompleteStep, RecordFailureStep DEF Work
<1>4. ASSUME NEW c \in Callers, Faults(c) PROVE ChecksInv'
  BY <1>4, CommitUnseenStep, ClaimUnseenStep, NotAnsweredStep, BreaksStep, CompleteUnseenStep,
     FailureUnrecordedStep, DiesStep DEF Faults
<1>5. CASE UNCHANGED checkVars
  BY <1>5 DEF checkVars, ChecksInv, LedgerInv, LedgerTypeOK, RunsInOrder, SaidFits, RunShape,
     CallsFit, RowsInv, CommitHeld, StoredFits, ToldIsStored, RunningIsOwned, Counted
<1>. QED BY <1>1, <1>2, <1>3, <1>4, <1>5 DEF CheckNext

(* What a caller remembers of ledgers and runs stays true while the others go on,  *)
(* and a run that is still running has an owner, or its caller died, could not     *)
(* record its failure or never learnt of its claim: the inductive invariant.       *)
THEOREM ChecksInvariant == CheckSpec => []ChecksInv
BY ChecksInit, ChecksNext, PTL DEF CheckSpec

(* Every caller is told the stored ledgers, and the stored check can be shown: *)
(* each of its runs is completed and still says what was stored                *)
(* (consistency_check_persistence.py, consistency_pipeline.py).                *)
THEOREM BackedTheorem == CheckSpec => []ToldIsBacked
<1>1. ASSUME ChecksInv PROVE ToldIsBacked
  <2>1. ASSUME NEW c \in Callers
        PROVE  /\ Len(call[c].runs) = Len(call[c].texts)
               /\ call[c].stage # "idle" => Len(call[c].runs) = call[c].batch - 1
               /\ call[c].claimed => call[c].run # 0
    <3>1. AllFit(call[c], plan, runs, said)
      BY <1>1, CallerFacts
    <3>2. CASE call[c].stage = "idle"
      <4>1. call[c] = Idle
        BY <3>1, <3>2 DEF AllFit
      <4>. QED BY <4>1 DEF Idle
    <3>3. CASE call[c].stage # "idle"
      <4>1. Len(call[c].runs) = call[c].batch - 1 /\ Len(call[c].texts) = call[c].batch - 1
        BY <3>1, <3>3 DEF AllFit, Collected
      <4>2. call[c].claimed => call[c].run # 0
        BY <3>1, <1>1, WorkFacts DEF AllFit
      <4>. QED BY <4>1, <4>2
    <3>. QED BY <3>2, <3>3
  <2>2. ChecksTypeOK
    BY <1>1, <2>1 DEF ChecksTypeOK, ChecksInv, RowsInv, LedgerInv, SaidFits, CallsFit, Counted
  <2>3. CheckIsBacked
    <3>. SUFFICES ASSUME writer["check"] # Nil, NEW b \in DOMAIN plan, plan[b] # << >>
         PROVE  Status(b, stored.runs[b]) = "completed"
                /\ said[b][stored.runs[b]] = stored.texts[b]
      BY DEF CheckIsBacked
    <3>1. b \in 1..Len(plan)
      BY <1>1, PlanFacts DEF ChecksInv
    <3>2. Backs(stored.runs[b], stored.texts[b], b, plan, runs, said)
      BY <1>1, <3>1 DEF ChecksInv, StoredFits, Collected
    <3>. QED BY <3>2 DEF Backs, Status
  <2>. QED BY <1>1, <2>2, <2>3 DEF ToldIsBacked, ChecksInv
<1>. QED BY <1>1, ChecksInvariant, PTL

\* Of the runs of a batch at most the newest is completed.
LEMMA OneAnswer ==
    ASSUME ChecksInv, NEW b \in Batches, NEW r \in 1..Len(runs[b]),
           Status(b, r) = "completed"
    PROVE  r = Len(runs[b])
<1>1. Len(runs[b]) \in Nat
  BY DEF ChecksInv, LedgerInv, LedgerTypeOK
<1>2. ~(r < Len(runs[b]))
  BY DEF ChecksInv, LedgerInv, RunsInOrder, Status
<1>. QED BY <1>1, <1>2

\* Who has collected all batches has collected the same.
LEMMA SameCollection ==
    ASSUME ChecksInv, NEW ids \in Seq(Nat), NEW texts \in Seq(Texts \cup {Nil}),
           Collected(ids, texts, Len(plan), plan, runs, said),
           NEW ids2 \in Seq(Nat), NEW texts2 \in Seq(Texts \cup {Nil}),
           Collected(ids2, texts2, Len(plan), plan, runs, said)
    PROVE  ids = ids2 /\ texts = texts2
<1>1. /\ Len(ids) = Len(plan) /\ Len(ids2) = Len(plan)
      /\ Len(texts) = Len(plan) /\ Len(texts2) = Len(plan)
  BY DEF Collected
<1>2. ASSUME NEW b \in 1..Len(plan)
      PROVE  ids[b] = ids2[b] /\ texts[b] = texts2[b]
  <2>1. b \in Batches
    BY PlanFacts DEF ChecksInv
  <2>2. /\ Backs(ids[b], texts[b], b, plan, runs, said)
        /\ Backs(ids2[b], texts2[b], b, plan, runs, said)
    BY DEF Collected
  <2>3. CASE plan[b] = << >>
    BY <2>2, <2>3 DEF Backs
  <2>4. CASE plan[b] # << >>
    <3>1. ids[b] = Len(runs[b]) /\ ids2[b] = Len(runs[b])
      BY <2>1, <2>2, <2>4, OneAnswer DEF Backs, Status
    <3>. QED BY <2>2, <2>4, <3>1 DEF Backs
  <2>. QED BY <2>3, <2>4
<1>3. ids = ids2
  <2>1. ids = [b \in 1..Len(plan) |-> ids[b]] /\ ids2 = [b \in 1..Len(plan) |-> ids2[b]]
    BY <1>1
  <2>. QED BY <1>2, <2>1
<1>4. texts = texts2
  <2>1. /\ texts = [b \in 1..Len(plan) |-> texts[b]]
        /\ texts2 = [b \in 1..Len(plan) |-> texts2[b]]
    BY <1>1
  <2>. QED BY <1>2, <2>1
<1>. QED BY <1>3, <1>4

(* No batch is answered twice and no caller is refused as a mismatch           *)
(* (create_or_replay of the check in consistency_check_persistence.py).        *)
THEOREM AnsweredTheorem == CheckSpec => []AnsweredOnce
<1>1. ASSUME ChecksInv PROVE AnsweredOnce
  <2>1. ASSUME NEW b \in Batches
        PROVE  Cardinality({r \in DOMAIN runs[b] : Status(b, r) = "completed"}) <= 1
    <3>. DEFINE last == Len(runs[b])
                answers == {r \in DOMAIN runs[b] : Status(b, r) = "completed"}
    <3>1. DOMAIN runs[b] = 1..Len(runs[b])
      BY <1>1 DEF ChecksInv, LedgerInv, LedgerTypeOK
    <3>2. answers \subseteq {last}
      BY <1>1, <3>1, OneAnswer
    <3>. HIDE DEF answers
    <3>3. IsFiniteSet({last}) /\ Cardinality({last}) = 1
      BY FS_Singleton
    <3>4. Cardinality(answers) <= Cardinality({last})
      BY <3>2, <3>3, FS_Subset
    <3>. QED BY <3>3, <3>4 DEF answers
  <2>2. ASSUME NEW c \in Callers, AtLedger(c, "write", "check"), writer["check"] # Nil
        PROVE  Agrees(c, "check")
    <3>1. /\ call[c] \in Call /\ call[c].batch = Len(plan) + 1 /\ Len(plan) \in Nat
          /\ Collected(call[c].runs, call[c].texts, call[c].batch - 1, plan, runs, said)
      BY <1>1, <2>2, CallerFacts DEF AtLedger, AllFit
    <3>2. Collected(call[c].runs, call[c].texts, Len(plan), plan, runs, said)
      <4>1. call[c].batch - 1 = Len(plan)
        BY <3>1
      <4>. QED BY <3>1, <4>1
    <3>3. Collected(stored.runs, stored.texts, Len(plan), plan, runs, said)
      BY <1>1, <2>2 DEF ChecksInv, StoredFits
    <3>4. /\ call[c].runs \in Seq(Nat) /\ call[c].texts \in Seq(Texts \cup {Nil})
          /\ stored \in [runs : Seq(Nat), texts : Seq(Texts \cup {Nil})]
      BY <1>1, <3>1 DEF Call, ChecksInv, RowsInv
    <3>5. stored.runs = call[c].runs /\ stored.texts = call[c].texts
      BY <1>1, <3>2, <3>3, <3>4, SameCollection
    <3>. QED BY <3>4, <3>5 DEF Agrees
  <2>. QED BY <2>1, <2>2 DEF AnsweredOnce
<1>. QED BY <1>1, ChecksInvariant, PTL

(* A running run that no caller goes on to end was lost in one of three ways:  *)
(* its caller died, could not record its failure (_safe_record_failed_run in   *)
(* consistency_check_execution.py), or was gone between the commit of the      *)
(* claim and the line that notes the claimed run.                              *)
THEOREM AbandonTheorem == CheckSpec => []OnlyFaultsAbandon
<1>1. ASSUME ChecksInv PROVE OnlyFaultsAbandon
  <2>. SUFFICES ASSUME NEW b \in Batches, NEW r \in DOMAIN runs[b], Unowned(b, r)
       PROVE  <<b, r>> \in orphans
    BY DEF OnlyFaultsAbandon
  <2>1. r \in 1..Len(runs[b])
    BY <1>1 DEF ChecksInv, LedgerInv, LedgerTypeOK
  <2>. QED BY <1>1, <2>1 DEF ChecksInv, RunningIsOwned, Owns, OwnedBy, Unowned, Status
<1>. QED BY <1>1, ChecksInvariant, PTL

(* A ledger is written once, and no answer is taken back: whoever showed a     *)
(* stored check or used a completed run finds it again.                        *)
WrittenOnce ==
    /\ \A l \in Ledgers : writer[l] # Nil => writer'[l] = writer[l]
    /\ writer["check"] # Nil => stored' = stored
    /\ \A b \in Batches : \A r \in 1..Len(runs[b]) :
         Status(b, r) = "completed" => runs'[b][r] = runs[b][r] /\ said'[b][r] = said[b][r]

LEMMA LedgersKept ==
    ASSUME ChecksInv, [CheckNext]_checkVars
    PROVE  /\ \A l \in Ledgers : writer[l] # Nil => writer'[l] = writer[l]
           /\ writer["check"] # Nil => stored' = stored
<1>1. ASSUME NEW c \in Callers, NEW l \in Ledgers, AtLedger(c, "commit", l), Written(c, l)
      PROVE  /\ \A k \in Ledgers : writer[k] # Nil => writer'[k] = writer[k]
             /\ writer["check"] # Nil => stored' = stored
  <2>1. writer[l] = Nil
    BY <1>1, ChecksAssumption DEF ChecksInv, CommitHeld, RowsInv, AtLedger
  <2>2. writer \in [Ledgers -> Callers \cup {Nil}] /\ writer' = [writer EXCEPT ![l] = c]
    BY <1>1 DEF ChecksInv, RowsInv, Written
  <2>. QED BY <1>1, <2>1, <2>2 DEF Written
<1>2. CASE \E c \in Callers : \E l \in Ledgers : CommitLedger(c, l) \/ CommitUnseen(c, l)
  BY <1>1, <1>2 DEF CommitLedger, CommitUnseen
<1>3. CASE UNCHANGED <<writer, stored>>
  BY <1>3
<1>4. ASSUME NEW c \in Callers, Start(c) \/ Work(c) PROVE UNCHANGED <<writer, stored>>
  BY <1>4 DEF Start, Work, AllAssessed, SkipEmpty, PrepareBatch, ClaimPending, ClaimOther, Answered,
     Complete, RecordFailure, rows
<1>5. ASSUME NEW c \in Callers, Write(c)
      PROVE  UNCHANGED <<writer, stored>> \/ \E l \in Ledgers : CommitLedger(c, l)
  BY <1>5 DEF Write, Lookup, Insert, Reread, rows
<1>6. ASSUME NEW c \in Callers, Faults(c)
      PROVE  UNCHANGED <<writer, stored>> \/ \E l \in Ledgers : CommitUnseen(c, l)
  BY <1>6 DEF Faults, ClaimUnseen, NotAnswered, Breaks, RolledBack, CompleteUnseen,
     FailureUnrecorded, Dies, rows
<1>7. CASE UNCHANGED checkVars
  BY <1>3, <1>7 DEF checkVars
<1>. QED BY <1>2, <1>3, <1>4, <1>5, <1>6, <1>7 DEF CheckNext

\* A step on the run r of b, which has not ended, leaves the others alone.
LEMMA OthersKept ==
    ASSUME LedgerInv, NEW b \in Batches, NEW r \in 1..Len(runs[b]), NEW run, NEW text,
           Replaces(b, r, run, text) \/ (runs' = [runs EXCEPT ![b][r] = run] /\ said' = said),
           NEW d \in Batches, NEW s \in 1..Len(runs[d]), d # b \/ s # r
    PROVE  runs'[d][s] = runs[d][s] /\ said'[d][s] = said[d][s]
<1>1. /\ runs \in [Batches -> Seq(Run)] /\ runs[b] \in Seq(Run) /\ runs[d] \in Seq(Run)
      /\ said \in [Batches -> Seq(Texts \cup {Nil})] /\ said[b] \in Seq(Texts \cup {Nil})
      /\ Len(said[b]) = Len(runs[b])
  BY DEF LedgerInv, LedgerTypeOK, SaidFits
<1>2. runs' = [runs EXCEPT ![b] = [runs[b] EXCEPT ![r] = run]]
  BY <1>1 DEF Replaces
<1>3. said' = said \/ said' = [said EXCEPT ![b] = [said[b] EXCEPT ![r] = text]]
  BY <1>1 DEF Replaces
<1>4. CASE d = b
  BY <1>1, <1>2, <1>3, <1>4
<1>5. CASE d # b
  BY <1>1, <1>2, <1>3, <1>5
<1>. QED BY <1>4, <1>5

LEMMA AnswersKept ==
    ASSUME ChecksInv, [CheckNext]_checkVars, NEW b \in Batches, NEW r \in 1..Len(runs[b]),
           Status(b, r) = "completed"
    PROVE  runs'[b][r] = runs[b][r] /\ said'[b][r] = said[b][r]
<1>1. CASE UNCHANGED <<runs, said>>
  BY <1>1
<1>2. ASSUME NEW c \in Callers, PrepareBatch(c), ~UNCHANGED <<runs, said>>
      PROVE  runs'[b][r] = runs[b][r] /\ said'[b][r] = said[b][r]
  <2>. DEFINE d == call[c].batch
  <2>1. /\ ~Reusable(d)
        /\ runs' = [runs EXCEPT ![d] = Append(@, PendingRun)]
        /\ said' = [said EXCEPT ![d] = Append(@, Nil)]
    BY <1>2 DEF PrepareBatch, PrepareRun
  <2>2. /\ runs \in [Batches -> Seq(Run)] /\ runs[b] \in Seq(Run)
        /\ said \in [Batches -> Seq(Texts \cup {Nil})] /\ said[b] \in Seq(Texts \cup {Nil})
        /\ Len(said[b]) = Len(runs[b])
    BY DEF ChecksInv, LedgerInv, LedgerTypeOK, SaidFits
  <2>3. CASE d = b
    BY <2>1, <2>2, <2>3
  <2>4. CASE d # b
    BY <2>1, <2>2, <2>4
  <2>. QED BY <2>3, <2>4
<1>3. ASSUME NEW c \in Callers,
             \/ ClaimPending(c) \/ ClaimUnseen(c)
             \/ RecordFailure(c) /\ Status(call[c].batch, call[c].run) = "running"
      PROVE  runs'[b][r] = runs[b][r] /\ said'[b][r] = said[b][r]
  <2>. DEFINE d == call[c].batch
              s == call[c].run
              run == IF call[c].stage = "claim"
                     THEN [runs[d][s] EXCEPT !.status = "running", !.fresh = TRUE]
                     ELSE Ended(runs[d][s], "failed", "transport")
  <2>1. /\ d \in Batches /\ s \in 1..Len(runs[d]) /\ runs[d][s] \in Run
        /\ Status(d, s) \in {"pending", "running"} /\ said' = said
    BY <1>3, WorkFacts DEF ClaimPending, ClaimUnseen, RecordFailure, LaunchRun
  <2>2. runs' = [runs EXCEPT ![d][s] = run]
    <3>1. runs \in [Batches -> Seq(Run)] /\ runs[d] \in Seq(Run)
      BY <2>1 DEF ChecksInv, LedgerInv, LedgerTypeOK
    <3>2. CASE ClaimPending(c) \/ ClaimUnseen(c)
      <4>1. runs' = [runs EXCEPT ![d][s].status = "running", ![d][s].fresh = TRUE]
        BY <3>2 DEF ClaimPending, ClaimUnseen, LaunchRun
      <4>2. run = [runs[d][s] EXCEPT !.status = "running", !.fresh = TRUE]
        BY <3>2 DEF ClaimPending, ClaimUnseen
      <4>. HIDE DEF run, d, s
      <4>. QED BY <2>1, <3>1, <4>1, <4>2
    <3>3. CASE RecordFailure(c) /\ Status(call[c].batch, call[c].run) = "running"
      BY <3>1, <3>3 DEF RecordFailure, FailRun
    <3>. QED BY <1>3, <3>2, <3>3
  <2>3. d # b \/ s # r
    BY <2>1
  <2>. HIDE DEF run, d, s
  <2>. QED BY <2>1, <2>2, <2>3, OthersKept DEF ChecksInv
<1>4. ASSUME NEW c \in Callers, Complete(c) \/ CompleteUnseen(c), ~UNCHANGED <<runs, said>>
      PROVE  runs'[b][r] = runs[b][r] /\ said'[b][r] = said[b][r]
  <2>. DEFINE d == call[c].batch
              s == call[c].run
              run == Ended(runs[d][s], "completed", "none")
  <2>1. PICK text \in Texts :
          CompleteRun(d, s) /\ said' = [said EXCEPT ![d][s] = text]
    BY <1>4 DEF Complete, CompleteUnseen
  <2>2. /\ d \in Batches /\ s \in 1..Len(runs[d]) /\ Status(d, s) = "running"
    BY <1>4, <2>1, WorkFacts DEF Complete, CompleteUnseen, CompleteRun, MayComplete
  <2>3. Replaces(d, s, run, text)
    <3>1. runs \in [Batches -> Seq(Run)] /\ runs[d] \in Seq(Run)
      BY <2>2 DEF ChecksInv, LedgerInv, LedgerTypeOK
    <3>2. runs' = [runs EXCEPT ![d][s] = run]
      BY <2>1, <2>2, <3>1 DEF CompleteRun
    <3>. QED BY <2>1, <3>2 DEF Replaces
  <2>4. d # b \/ s # r
    BY <2>2
  <2>. HIDE DEF run, d, s
  <2>. QED BY <2>2, <2>3, <2>4, OthersKept DEF ChecksInv
<1>5. ASSUME NEW c \in Callers, Start(c) \/ Write(c) PROVE UNCHANGED <<runs, said>>
  BY <1>5 DEF Start, Write, Lookup, Insert, CommitLedger, Written, Reread
<1>6. ASSUME NEW c \in Callers, Work(c)
      PROVE  \/ UNCHANGED <<runs, said>> \/ PrepareBatch(c) \/ Complete(c) \/ ClaimPending(c)
             \/ RecordFailure(c) /\ Status(call[c].batch, call[c].run) = "running"
  BY <1>6 DEF Work, AllAssessed, SkipEmpty, ClaimOther, Answered, RecordFailure
<1>7. ASSUME NEW c \in Callers, Faults(c)
      PROVE  UNCHANGED <<runs, said>> \/ CompleteUnseen(c) \/ ClaimUnseen(c)
  BY <1>7 DEF Faults, CommitUnseen, Written, NotAnswered, Breaks, RolledBack,
     FailureUnrecorded, Dies
<1>8. CASE UNCHANGED checkVars
  BY <1>1, <1>8 DEF checkVars
<1>. QED BY <1>1, <1>2, <1>3, <1>4, <1>5, <1>6, <1>7, <1>8 DEF CheckNext

(* Each of the three ledgers is written once and a completed run keeps its answer, *)
(* whatever callers, lost answers and failures there are:                          *)
THEOREM WrittenOnceTheorem == CheckSpec => [][WrittenOnce]_checkVars
<1>1. ChecksInv /\ [CheckNext]_checkVars => [WrittenOnce]_checkVars
  <2>. SUFFICES ASSUME ChecksInv, [CheckNext]_checkVars PROVE WrittenOnce
    OBVIOUS
  <2>. QED BY LedgersKept, AnswersKept DEF WrittenOnce
<1>. QED BY <1>1, ChecksInvariant, PTL DEF CheckSpec
====================================================================================
