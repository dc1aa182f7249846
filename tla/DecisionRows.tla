------------------------------ MODULE DecisionRows ------------------------------
(***************************************************************************)
(* A check of two candidates and the decisions about it, as the rows that  *)
(* deciding stores and the readers of EffectiveValues take.  A log is a    *)
(* sequence of decisions in the order of their commits, each an            *)
(* [assessment, kind, values]; decisions have their places as ids.         *)
(***************************************************************************)
EXTENDS EffectiveValues

Candidates == <<[id |-> 1, fact |-> 1, members |-> <<[value |-> 1, links |-> {1}],
                                                     [value |-> 2, links |-> {2}],
                                                     [value |-> 3, links |-> {3}]>>],
                [id |-> 2, fact |-> 2, members |-> <<[value |-> 4, links |-> {4}],
                                                     [value |-> 5, links |-> {5}]>>]>>

\* Each of the candidates has its assessment.
AssessmentsGiven(assessments) ==
    /\ assessments \in SUBSET [id: Nat, candidate: 1..2, batch: {1},
                               verdict: {"conflict", "compatible", "insufficient_evidence"}]
    /\ OneToOne(assessments, LAMBDA a : a.id)
    /\ \A c \in 1..2 : \E a \in assessments : \A b \in assessments : b.candidate = c <=> b = a

\* What was selected was accepted when it was stored.
LogGiven(log, assessments) ==
    /\ log \in Seq([assessment: Nat, values: Seq(Nat),
                    kind: {"select_one", "keep_multiple", "confirm_compatible", "defer"}])
    /\ \A i \in DOMAIN log : \E a \in assessments :
         /\ log[i].assessment = a.id /\ SelectionShape(log[i].kind, Len(log[i].values))
         /\ IsInjective(log[i].values)
         /\ Range(log[i].values) \subseteq ValuesOf(CandidateOf(Candidates, a))

-----------------------------------------------------------------------------
Before(log, i) == {j \in 1..(i - 1) : log[j].assessment = log[i].assessment}

DecisionsOf(log) ==
    [i \in DOMAIN log |->
        [id |-> i, assessment |-> log[i].assessment, no |-> Cardinality(Before(log, i)) + 1,
         supersedes |-> IF Before(log, i) = {} THEN NoDecision ELSE Max(Before(log, i)),
         kind |-> log[i].kind, count |-> Len(log[i].values)]]

SelectionRows(log) ==
    FlattenSeq([i \in DOMAIN log |->
        [n \in DOMAIN log[i].values |->
            [decision |-> i, assessment |-> log[i].assessment, order |-> n,
             value |-> log[i].values[n]]]])

Until(log, n) == SubSeq(log, 1, n)
OnlyLast(log) ==
    Picked(log, {i \in DOMAIN log :
                    \A j \in (i + 1)..Len(log) : log[j].assessment # log[i].assessment})

ItemsOf(assessments, log) ==
    ReviewItems(1, assessments, Candidates, DecisionsOf(log), SelectionRows(log))
=================================================================================
