------------------------------ MODULE ReviewQueries ------------------------------
(***************************************************************************)
(* What reviewers and tools are shown of a reviewed projection: the list   *)
(* of facts to review, the detail of one, whether it can be decided, and   *)
(* the record of a subject in a version of the project.  A payload is      *)
(* authenticated again before it is answered; nothing here has state.      *)
(***************************************************************************)
EXTENDS KnowledgeView

MostListed == 100

\* Every reviewed fact of a projection with the field that shows it, in order.
Entries(p) ==
    FlattenSeq([i \in DOMAIN p.records |->
        FlattenSeq([j \in DOMAIN p.records[i].fields |->
            LET f == p.records[i].fields[j] IN
            [n \in DOMAIN f.reviewed |-> [reviewed |-> f.reviewed[n], field |-> f.raw.field.key]]])])

\* _build_review_item_index: one item for each fact, with the fields that show it.
Indexed(p) == {e.reviewed : e \in Range(Entries(p))}
MatchedFields(p, r) ==
    LET mine == Where(Entries(p), LAMBDA e : e.reviewed = r) IN
    EachOnce([i \in DOMAIN mine |-> mine[i].field])

\* _summary_from_index_entry
ItemOf(p, r) ==
    [fact |-> r.fact.id, subject |-> r.fact.subject, predicate |-> r.fact.predicate,
     scope |-> r.fact.scope, fields |-> MatchedFields(p, r), state |-> r.state,
     basis |-> r.basis, review |-> r.review, meanings |-> Len(r.fact.groups),
     values |-> Len(FactValues(r.fact))]

\* _classify_review_item_state, of an item or a detail that agrees with itself.
Classifies(item, state) ==
    \/ /\ state = "observation_only" /\ item.state = "no_consistency_candidate"
       /\ item.basis = "none" /\ ~item.review
    \/ /\ state = "resolved" /\ item.state = "resolved"
       /\ item.basis \in {"human_selection", "human_confirmed_compatibility"} /\ ~item.review
    \/ /\ state = "review_required"
       /\ item.state \in {"pending_review", "unreviewed_compatible", "deferred"}
       /\ item.basis = "none" /\ item.review
ItemStates == {"observation_only", "resolved", "review_required"}

\* (Mutant: the list is in the order of the subjects only.)
PlaceBySubject(item) == <<0, item.subject, item.predicate, item.scope, item.fact>>

\* _sort_review_items: what needs a review comes first; no scope before any scope.
Place(item) ==
    <<IF item.review THEN 0 ELSE 1, item.subject, item.predicate, item.scope, item.fact>>
Ahead(a, b) ==
    \E i \in 1..5 : /\ Place(a)[i] < Place(b)[i]
                    /\ \A j \in 1..(i - 1) : Place(a)[j] = Place(b)[j]

\* list_review_items
Listed(p, state, limit) ==
    LET items == {ItemOf(p, r) : r \in Indexed(p)}
        asked == {i \in items : state = "all" \/ Classifies(i, state)}
        order == Sorted(asked, Ahead) IN
    SubSeq(order, 1, IF limit < Len(order) THEN limit ELSE Len(order))

\* authenticate_review_items_result; the number of items is not held against the limit.
AuthenticList(items, state, limit) ==
    /\ limit \in 1..MostListed /\ state \in ItemStates \cup {"all"}
    /\ IsInjective([i \in DOMAIN items |-> items[i].fact])
    /\ \A item \in Range(items) :
         /\ \E s \in ItemStates : Classifies(item, s) /\ state \in {s, "all"}
         /\ item.fields # << >> /\ IsInjective(item.fields)
    /\ \A i, j \in DOMAIN items : i < j => Ahead(items[i], items[j])

\* get_review_item_detail: none if no field shows the fact.
Detail(p, fact) ==
    LET found == {r \in Indexed(p) : r.fact.id = fact} IN
    {[reviewed |-> r, fields |-> MatchedFields(p, r), meanings |-> Len(r.fact.groups),
      values |-> Len(FactValues(r.fact))] : r \in found}

\* authenticate_review_item_detail_result
AuthenticDetail(d) ==
    LET r == d.reviewed
        decided == r.decision # NoDecision IN
    /\ d.fields # << >> /\ IsInjective(d.fields)
    /\ d.meanings = Len(r.fact.groups) /\ d.values = Len(FactValues(r.fact))
    /\ IsInjective(FactValues(r.fact)) /\ IsInjective(r.values)
    /\ Range(r.values) \subseteq Range(FactValues(r.fact))
    /\ \E s \in ItemStates : Classifies(r, s)
    /\ r.state # "resolved" => r.values = << >>
    /\ decided <=> r.state \in {"resolved", "deferred"}
    /\ r.state \in {"no_consistency_candidate", "pending_review", "unreviewed_compatible"}
         => r.kind = "none"
    /\ r.state = "deferred" => r.kind = "defer"
    /\ r.basis = "human_selection" =>
         \/ r.kind = "select_one" /\ Len(r.values) = 1
         \/ r.kind = "keep_multiple" /\ Len(r.values) \in 2..MostKept
    /\ r.basis = "human_confirmed_compatibility" =>
         r.kind = "confirm_compatible" /\ r.values # << >>

\* _get_review_fact_context and the guards of write_review_decision
MayDecide(p, fact, assessment) ==
    \E r \in Indexed(p) :
        r.fact.id = fact /\ r.assessment # 0 /\ r.review /\ r.assessment = assessment

\* get_version_record: the record of the subject, or none.
VersionRecord(version, subject) ==
    Where(version.view.records, LAMBDA r : r.subject = subject)
=================================================================================
