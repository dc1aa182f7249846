----------------------------- MODULE EffectiveValues -----------------------------
(***************************************************************************)
(* From the stored ledgers of a check and of the decisions about it to the *)
(* value a fact has: authentication of the check, of the chain of          *)
(* decisions of each assessment, the review of an assessment and what its  *)
(* fact resolves to.  Nothing here has state.                              *)
(*                                                                         *)
(* A candidate has an id, a fact and its members in order, each a value    *)
(* with its links.  An assessment has an id, its candidate, a batch and a  *)
(* verdict.  A decision has an id, its assessment, a number, the decision  *)
(* it supersedes, a kind and a number of values; a selection its decision, *)
(* its assessment, an order and a value.  Decisions are numbers, rows come *)
(* in the order of their numbers.                                          *)
(***************************************************************************)
EXTENDS Naturals, Sequences, FiniteSets, SequencesExt, FiniteSetsExt,
        RowSequences

NoDecision == 0
MostKept == 200
ValuesOf(candidate) == {m.value : m \in Range(candidate.members)}

OneToOne(rows, Key(_)) == \A r, s \in rows : Key(r) = Key(s) => r = s

-----------------------------------------------------------------------------
(* A stored check; its result stands for the hash of the result manifest. *)

ResultOf(batches, assessments, citations, candidates) ==
    [b \in 1..batches |->
        LET Here(c) == \E a \in assessments : a.batch = b /\ a.candidate = c.id
            Of(c) == CHOOSE a \in assessments : a.batch = b /\ a.candidate = c.id
            mine == Where(candidates, Here) IN
        [i \in DOMAIN mine |->
            LET a == Of(mine[i]) IN
            <<a.candidate, a.verdict, {<<x.order, x.link>> :
                                         x \in {y \in citations : y.assessment = a.id}}>>]]

\* authenticate_persisted_consistency_check_application, after its source
AuthenticCheck(app, batches, assessments, citations, candidates) ==
    /\ OneToOne(batches, LAMBDA b : b.index)
    /\ OneToOne(assessments, LAMBDA a : a.id)
    /\ OneToOne(assessments, LAMBDA a : <<a.batch, a.candidate>>)
    /\ {b.index : b \in batches} = 1..app.batches
    /\ Cardinality({b \in batches : b.skipped}) = app.skipped
    /\ Cardinality({b \in batches : b.run}) = app.runs
    /\ Cardinality(assessments) = app.assessments
    /\ Cardinality(assessments) = Len(candidates)
    /\ {a.candidate : a \in assessments} = {c.id : c \in Range(candidates)}
    /\ \A b \in batches : b.skipped <=> ~\E a \in assessments : a.batch = b.index
    /\ \A x \in citations : \E a \in assessments, c \in Range(candidates) :
         /\ x.assessment = a.id /\ c.id = a.candidate
         /\ \E m \in Range(c.members) : x.value = m.value /\ x.link \in m.links
    /\ \A x, y \in citations : x.assessment = y.assessment /\ x.order = y.order => x = y
    /\ app.result = ResultOf(app.batches, assessments, citations, candidates)

-----------------------------------------------------------------------------
(* Chains of decisions. *)

\* _validate_selection_shape
SelectionShape(kind, n) ==
    \/ kind = "select_one" /\ n = 1
    \/ kind = "keep_multiple" /\ n \in 2..MostKept
    \/ kind \in {"confirm_compatible", "defer"} /\ n = 0

RowsOf(rows, a) == Where(rows, LAMBDA r : r.assessment = a.id)
SelectionsOf(selections, d) == Where(selections, LAMBDA s : s.decision = d.id)
Selected(d, selections) ==
    LET mine == SelectionsOf(selections, d) IN [i \in DOMAIN mine |-> mine[i].value]

\* (Mutant: the number of values a decision tells is not compared.)
SelectionHoldsUncounted(d, selections, values) ==
    LET mine == SelectionsOf(selections, d) IN
    /\ \A i \in DOMAIN mine : mine[i].order = i
    /\ IsInjective(Selected(d, selections)) /\ Range(Selected(d, selections)) \subseteq values
    /\ SelectionShape(d.kind, Len(mine))

SelectionHolds(d, selections, values) ==
    LET mine == SelectionsOf(selections, d) IN
    /\ \A i \in DOMAIN mine : mine[i].order = i
    /\ IsInjective(Selected(d, selections)) /\ Range(Selected(d, selections)) \subseteq values
    /\ d.count = Len(mine) /\ SelectionShape(d.kind, Len(mine))

\* authenticate_consistency_review_decision_chain
ChainHolds(decisions, selections, values) ==
    /\ IsInjective([i \in DOMAIN decisions |-> decisions[i].id])
    /\ \A i \in DOMAIN decisions :
         /\ decisions[i].no = i
         /\ decisions[i].supersedes = IF i = 1 THEN NoDecision ELSE decisions[i - 1].id
         /\ SelectionHolds(decisions[i], selections, values)
    /\ \A s \in Range(selections) : \E d \in Range(decisions) : d.id = s.decision

CandidateOf(candidates, a) == CHOOSE c \in Range(candidates) : c.id = a.candidate

\* (Mutant: selections of decisions that were not read are left aside.)
LedgersHoldIgnoringStrangers(assessments, candidates, decisions, selections) ==
    /\ \A r \in Range(decisions) : \E a \in assessments : r.assessment = a.id
    /\ \A a \in assessments :
         ChainHolds(RowsOf(decisions, a),
                    Where(RowsOf(selections, a), LAMBDA s :
                        \E d \in Range(decisions) : d.id = s.decision),
                    ValuesOf(CandidateOf(candidates, a)))

\* _load_authenticated_decision_chains of the rows two statements read
LedgersHold(assessments, candidates, decisions, selections) ==
    /\ \A r \in Range(decisions) : \E a \in assessments : r.assessment = a.id
    /\ \A s \in Range(selections) : \E a \in assessments : s.assessment = a.id
    /\ \A a \in assessments :
         ChainHolds(RowsOf(decisions, a), RowsOf(selections, a),
                    ValuesOf(CandidateOf(candidates, a)))

-----------------------------------------------------------------------------
(* The review of an assessment. *)

\* _review_status_for_item
ReviewStatus(verdict, history) ==
    IF history = << >> THEN IF verdict = "compatible" THEN "not_required" ELSE "pending_review"
    ELSE IF Last(history).kind = "defer" THEN "deferred" ELSE "reviewed"

\* (Mutant: the values of the last decision that selected some.)
ChosenEver(history, selections) ==
    LET choices == Where(history, LAMBDA d : d.kind \in {"select_one", "keep_multiple"}) IN
    IF choices = << >> THEN << >> ELSE Selected(Last(choices), selections)

ChosenNow(history, selections) ==
    IF history # << >> /\ Last(history).kind \in {"select_one", "keep_multiple"}
    THEN Selected(Last(history), selections) ELSE << >>

\* ConsistencyReviewProjectionItem with its members
ReviewItem(a, candidates, decisions, selections) ==
    LET history == RowsOf(decisions, a)
        chosen == ChosenNow(history, selections) IN
    [assessment |-> a.id, fact |-> CandidateOf(candidates, a).fact, verdict |-> a.verdict,
     members |-> CandidateOf(candidates, a).members, history |-> history,
     status |-> ReviewStatus(a.verdict, history), chosen |-> chosen]

\* get_consistency_review_projection: by batch, then in the order of candidates.
ReviewItems(batches, assessments, candidates, decisions, selections) ==
    FlattenSeq([b \in 1..batches |->
        LET here == {a \in assessments : a.batch = b}
            mine == Where(candidates, LAMBDA c : \E a \in here : a.candidate = c.id) IN
        [i \in DOMAIN mine |->
            ReviewItem(CHOOSE a \in here : a.candidate = mine[i].id,
                       candidates, decisions, selections)]])

CountStatus(items, status) == Cardinality({i \in DOMAIN items : items[i].status = status})
CountVerdict(items, verdict) == Cardinality({i \in DOMAIN items : items[i].verdict = verdict})

ReviewProjection(items) ==
    [items |-> items, assessments |-> Len(items),
     verdicts |-> [v \in {"conflict", "compatible", "insufficient_evidence"} |->
                     CountVerdict(items, v)],
     statuses |-> [s \in {"pending_review", "reviewed", "deferred", "not_required"} |->
                     CountStatus(items, s)],
     decisions |-> FoldLeft(LAMBDA n, item : n + Len(item.history), 0, items)]

-----------------------------------------------------------------------------
(* What a fact resolves to. *)

MembersInOrder(item) == [i \in DOMAIN item.members |-> item.members[i].value]

\* _validate_projection_item_contract
ItemFits(item) ==
    /\ IsInjective(MembersInOrder(item)) /\ IsInjective(item.chosen)
    /\ Range(item.chosen) \subseteq Range(MembersInOrder(item))
    /\ item.chosen # << >> =>
         item.history # << >> /\ Last(item.history).kind \in {"select_one", "keep_multiple"}

\* (Mutant: what nobody decided about counts as compatible unless it conflicts.)
ResolutionLenient(item) ==
    LET kind == IF item.history = << >> THEN "none" ELSE Last(item.history).kind IN
    [status |-> IF kind = "none"
                THEN IF item.verdict = "conflict" THEN "pending_review"
                     ELSE "unreviewed_compatible"
                ELSE IF kind = "defer" THEN "deferred" ELSE "resolved",
     basis |-> IF kind \in {"select_one", "keep_multiple"} THEN "human_selection"
               ELSE IF kind = "confirm_compatible" THEN "human_confirmed_compatibility"
               ELSE "none",
     values |-> IF kind = "confirm_compatible" THEN MembersInOrder(item) ELSE item.chosen]

\* _resolve_effective_fact_value_ids
Resolution(item) ==
    LET kind == IF item.history = << >> THEN "none" ELSE Last(item.history).kind IN
    [status |-> IF kind = "none"
                THEN IF item.verdict = "compatible" THEN "unreviewed_compatible"
                     ELSE "pending_review"
                ELSE IF kind = "defer" THEN "deferred" ELSE "resolved",
     basis |-> IF kind \in {"select_one", "keep_multiple"} THEN "human_selection"
               ELSE IF kind = "confirm_compatible" THEN "human_confirmed_compatibility"
               ELSE "none",
     values |-> IF kind = "confirm_compatible" THEN MembersInOrder(item) ELSE item.chosen]

EffectiveItem(item) ==
    [fact |-> item.fact, assessment |-> item.assessment, verdict |-> item.verdict,
     review |-> item.status, members |-> item.members,
     decision |-> IF item.history = << >> THEN NoDecision ELSE Last(item.history).id,
     kind |-> IF item.history = << >> THEN "none" ELSE Last(item.history).kind,
     resolution |-> Resolution(item)]

\* _validate_authenticated_projection_item
AuthenticItem(e) ==
    LET r == e.resolution
        members == [i \in DOMAIN e.members |-> e.members[i].value] IN
    /\ IsInjective(members) /\ IsInjective(r.values) /\ Range(r.values) \subseteq Range(members)
    /\ \/ /\ r.status = "resolved" /\ e.review = "reviewed" /\ e.decision # NoDecision
          /\ \/ /\ r.basis = "human_selection"
                /\ e.kind \in {"select_one", "keep_multiple"}
                /\ SelectionShape(e.kind, Len(r.values))
             \/ /\ r.basis = "human_confirmed_compatibility"
                /\ e.kind = "confirm_compatible" /\ r.values = members
       \/ /\ r.basis = "none" /\ r.values = << >> /\ e.decision = NoDecision /\ e.kind = "none"
          /\ \/ /\ r.status = "pending_review" /\ e.review = "pending_review"
                /\ e.verdict \in {"conflict", "insufficient_evidence"}
             \/ /\ r.status = "unreviewed_compatible" /\ e.review = "not_required"
                /\ e.verdict = "compatible"
       \/ /\ r.status = "deferred" /\ r.basis = "none" /\ r.values = << >>
          /\ e.review = "deferred" /\ e.decision # NoDecision /\ e.kind = "defer"

Resolved(items, statuses) ==
    Cardinality({i \in DOMAIN items : items[i].resolution.status \in statuses})

\* _build_effective_fact_value_projection
EffectiveValues(items) ==
    LET effective == [i \in DOMAIN items |-> EffectiveItem(items[i])] IN
    [items |-> effective, facts |-> Len(items),
     resolved |-> Resolved(effective, {"resolved"}),
     pending |-> Resolved(effective, {"pending_review", "unreviewed_compatible"}),
     deferred |-> Resolved(effective, {"deferred"})]

\* authenticate_effective_fact_value_projection; also asked again when a snapshot or a
\* version is made of a projection
AuthenticEffective(p) ==
    /\ IsInjective([i \in DOMAIN p.items |-> p.items[i].fact])
    /\ IsInjective([i \in DOMAIN p.items |-> p.items[i].assessment])
    /\ \A i \in DOMAIN p.items : AuthenticItem(p.items[i])
    /\ p.facts = Len(p.items)
    /\ p.resolved = Resolved(p.items, {"resolved"})
    /\ p.pending = Resolved(p.items, {"pending_review", "unreviewed_compatible"})
    /\ p.deferred = Resolved(p.items, {"deferred"})
================================================================================
