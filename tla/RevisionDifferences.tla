--------------------------- MODULE RevisionDifferences ---------------------------
(***************************************************************************)
(* What changed between two neighbouring revisions of a document: their    *)
(* blocks, the facts read from them, and what the change means for what    *)
(* was decided about the older one.  Nothing here has state.               *)
(*                                                                         *)
(* A block has an id, a type, a place, its raw and its normalized text; an *)
(* extraction has its blocks in order.  A row is a value with its fact,    *)
(* key (equal for equal meanings), batch, proposal and one evidence link   *)
(* with its block.  Ids and places are numbers.                            *)
(***************************************************************************)
EXTENDS Naturals, Sequences, FiniteSets, SequencesExt, FiniteSetsExt,
        RowSequences

Nobody == [id |-> 0, type |-> "none", place |-> 0, raw |-> 0, text |-> 0]
NoContext == [assessment |-> 0, review |-> "none", status |-> "none", basis |-> "none",
              decision |-> 0, kind |-> "none", values |-> << >>]

BlockTypes == {"heading", "paragraph", "list_item", "table_row", "code", "page_text"}

\* The rows of extracted blocks.
BlockRows == [run: Nat, id: Nat \ {0}, type: BlockTypes, place: Nat, raw: Nat, text: Nat]

-----------------------------------------------------------------------------
(* Which revisions and runs can be compared. *)

\* The first checks of get_document_revision_block_diff
Adjacent(document, base, target) ==
    /\ base.document = document /\ target.document = document
    /\ target.supersedes = base.id /\ target.no = base.no + 1

\* _validate_run_ready, _validate_runs_comparable
Comparable(baseRun, targetRun) ==
    /\ \A run \in {baseRun, targetRun} :
         run.status = "completed" /\ run.outcome \in {"success", "partial"}
    /\ baseRun.extractor = targetRun.extractor /\ baseRun.format = targetRun.format

Anchor(block) == <<block.place, block.raw>>
Fingerprint(block) == <<block.type, block.text>>

\* _validate_blocks_for_run; the length stands for the numbers of the source order
BlocksFit(run, blocks) ==
    /\ \A i \in DOMAIN blocks : blocks[i].run = run.id
    /\ run.blocks = Len(blocks)
    /\ IsInjective([i \in DOMAIN blocks |-> blocks[i].place])
    /\ IsInjective([i \in DOMAIN blocks |-> Anchor(blocks[i])])
    /\ run.outcome = "success" => blocks # << >>

-----------------------------------------------------------------------------
(* The difference of two sequences of blocks: pairs <<base, target>>. *)

Unchanged(base, target) == {p \in base \X target : Anchor(p[1]) = Anchor(p[2])}

Modified(base, target) == {p \in base \X target : p[1].place = p[2].place}

\* (Mutant: the last block of the base with the fingerprint is taken.)
MovedFromLast(base, target) ==
    {p \in base \X target :
        /\ Fingerprint(p[1]) = Fingerprint(p[2])
        /\ \A u \in target : Fingerprint(u) = Fingerprint(p[2]) => u = p[2]
        /\ \A c \in base : Fingerprint(c) = Fingerprint(p[1]) => c.id <= p[1].id}

\* Only what is the one such block on both sides has moved.
Moved(base, target) ==
    {p \in base \X target :
        /\ Fingerprint(p[1]) = Fingerprint(p[2])
        /\ \A u \in target : Fingerprint(u) = Fingerprint(p[2]) => u = p[2]
        /\ \A c \in base : Fingerprint(c) = Fingerprint(p[1]) => c = p[1]}

Bases(pairs) == {p[1] : p \in pairs}
Targets(pairs) == {p[2] : p \in pairs}

\* (Mutant: what has moved is looked for among all blocks.)
MatchesOverlapping(base, target) ==
    LET same == Unchanged(base, target)
        changed == Modified(base \ Bases(same), target \ Targets(same)) IN
    [unchanged |-> same, modified |-> changed, moved |-> Moved(base, target)]

\* _build_diff_items: what is matched first is not matched again.
Matches(base, target) ==
    LET same == Unchanged(base, target)
        base1 == base \ Bases(same)             target1 == target \ Targets(same)
        changed == Modified(base1, target1)
        base2 == base1 \ Bases(changed)         target2 == target1 \ Targets(changed) IN
    [unchanged |-> same, modified |-> changed, moved |-> Moved(base2, target2)]

MatchKinds == {"unchanged", "modified", "moved"}
Matched(m) == UNION {m[k] : k \in MatchKinds}

BlockItem(m, t) ==
    IF \E k \in MatchKinds : t \in Targets(m[k])
    THEN LET k == CHOOSE k \in MatchKinds : t \in Targets(m[k]) IN
         [kind |-> k, base |-> (CHOOSE p \in m[k] : p[2] = t)[1], target |-> t]
    ELSE [kind |-> "added", base |-> Nobody, target |-> t]

BlockDiff(base, target) ==
    LET m == Matches(Range(base), Range(target))
        gone == Where(base, LAMBDA b : b \notin Bases(Matched(m))) IN
    [i \in DOMAIN target |-> BlockItem(m, target[i])]
      \o [i \in DOMAIN gone |-> [kind |-> "removed", base |-> gone[i], target |-> Nobody]]

\* _build_modified_item
WhatChanged(item) ==
    [raw |-> item.base.raw # item.target.raw, text |-> item.base.text # item.target.text,
     type |-> item.base.type # item.target.type, place |-> item.base.place # item.target.place]

Quality(statuses) == IF "partial" \in statuses THEN "partial" ELSE "complete"
KindCount(items, kind) == Cardinality({i \in DOMAIN items : items[i].kind = kind})

-----------------------------------------------------------------------------
(* The facts of one side: the rows of its values, certified against the source. *)

FactRows == [value: Nat, link: Nat, fact: Nat, key: Nat, batch: Nat, proposal: Nat,
             block: Nat, run: Nat, blockRun: Nat]

RowsGiven(rows) == rows \in SUBSET FactRows /\ IsFiniteSet(rows)

\* The rows of one run: a value has one fact and one meaning, a link one value.
RowsStored(rows) ==
    /\ RowsGiven(rows)
    /\ \A q, r \in rows : q.value = r.value =>
         q.fact = r.fact /\ q.key = r.key /\ q.batch = r.batch /\ q.proposal = r.proposal
    /\ \A r \in rows : r.run = 1 /\ r.blockRun = 1
    /\ \A q, r \in rows : q.link = r.link => q = r

\* _build_block_change_maps
ChangeOf(items, side, block) ==
    IF \E i \in DOMAIN items : items[i][side].id = block
    THEN items[CHOOSE i \in DOMAIN items : items[i][side].id = block].kind
    ELSE "none"

\* build_authenticated_fact_source_facts: source is the set of values the items of
\* the completed applications stored, each with its links.
RowsFit(rows, source, run) ==
    /\ {r.value : r \in rows} = {s.value : s \in source}
    /\ \A r \in rows : r.run = run /\ r.blockRun = run
    /\ \A q, r \in rows : q.value = r.value =>
         q.fact = r.fact /\ q.key = r.key /\ q.batch = r.batch /\ q.proposal = r.proposal
    /\ \A q, r \in rows : q.link = r.link => q = r
    /\ \A s \in source : \E r \in rows :
         /\ r.value = s.value /\ r.fact = s.fact /\ r.key = s.key /\ r.batch = s.batch
         /\ {q.link : q \in {x \in rows : x.value = s.value}} = s.links

Facts(rows) == {r.fact : r \in rows}
Meanings(rows, f) == {r.key : r \in {x \in rows : x.fact = f}}
GroupRows(rows, f, k) == {r \in rows : r.fact = f /\ r.key = k}
EarliestBlock(rows, f) == Min({r.block : r \in {x \in rows : x.fact = f}})

Proposed(v, w) ==
    \/ v.batch < w.batch
    \/ /\ v.batch = w.batch
       /\ v.proposal < w.proposal \/ (v.proposal = w.proposal /\ v.value < w.value)

InPlace(q, r) == q.block < r.block \/ (q.block = r.block /\ q.link < r.link)

\* The values of a meaning in the order they were proposed, evidences by place.
ValueGroup(rows, f, k) ==
    LET mine == GroupRows(rows, f, k)
        Of(r) == [value |-> r.value, batch |-> r.batch, proposal |-> r.proposal] IN
    [key |-> k,
     values |-> Sorted({Of(r) : r \in mine}, Proposed),
     evidences |-> Sorted(mine, InPlace)]

ValueGroups(rows, f) ==
    LET keys == Sorted(Meanings(rows, f), <) IN
    [i \in DOMAIN keys |-> ValueGroup(rows, f, keys[i])]

\* _build_snapshot of ufl_fact_snapshot; order gives the place of a fact
FactSnapshot(rows, status, order) ==
    LET facts == Sorted(Facts(rows), LAMBDA f, g : order[f] < order[g]) IN
    [quality |-> Quality({status}), facts |-> Len(facts),
     values |-> Cardinality({r.value : r \in rows}), evidences |-> Cardinality(rows),
     items |-> [i \in DOMAIN facts |->
                  [fact |-> facts[i], groups |-> ValueGroups(rows, facts[i])]]]

\* _build_fact_side_snapshots: every block that is cited is in the difference of blocks.
SideFits(rows, blockItems, side) ==
    \A r \in rows : ChangeOf(blockItems, side, r.block) # "none"

-----------------------------------------------------------------------------
(* The difference of facts. *)

\* (Mutant: a fact is unchanged while one of its meanings remains.)
FactChangeByOverlap(base, target, f) ==
    IF f \notin Facts(base) THEN "added"
    ELSE IF f \notin Facts(target) THEN "removed"
    ELSE IF Meanings(base, f) \cap Meanings(target, f) # {} THEN "unchanged" ELSE "modified"

FactChange(base, target, f) ==
    IF f \notin Facts(base) THEN "added"
    ELSE IF f \notin Facts(target) THEN "removed"
    ELSE IF Meanings(base, f) = Meanings(target, f) THEN "unchanged" ELSE "modified"

\* _item_sort_key
ByEarliest(rows) ==
    Sorted(Facts(rows), LAMBDA f, g :
        InPlace([block |-> EarliestBlock(rows, f), link |-> f],
                [block |-> EarliestBlock(rows, g), link |-> g]))

\* get_document_revision_fact_diff: the facts of the target, then those removed.
FactDiff(base, target) ==
    LET order == ByEarliest(target)
                   \o Where(ByEarliest(base), LAMBDA f : f \notin Facts(target)) IN
    [i \in DOMAIN order |->
        [fact |-> order[i], kind |-> FactChange(base, target, order[i]),
         base |-> ValueGroups(base, order[i]), target |-> ValueGroups(target, order[i])]]

-----------------------------------------------------------------------------
(* What the change means for the decisions about the base. *)

BaseValues(item) ==
    UNION {{v.value : v \in Range(item.base[i].values)} : i \in DOMAIN item.base}

MemberValues(e) == [n \in DOMAIN e.members |-> e.members[n].value]

\* _build_effective_context_map: effective are the items of the effective values, at most
\* one for each fact of the base.
ContextsFit(items, effective) ==
    /\ IsInjective([n \in DOMAIN effective |-> effective[n].fact])
    /\ \A e \in Range(effective) : \E i \in DOMAIN items :
         /\ items[i].fact = e.fact /\ items[i].kind # "added"
         /\ IsInjective(MemberValues(e)) /\ Range(MemberValues(e)) \subseteq BaseValues(items[i])
         /\ IsInjective(e.resolution.values)
         /\ Range(e.resolution.values) \subseteq Range(MemberValues(e))

ContextGiven(e) ==
    [assessment |-> e.assessment, review |-> e.review, status |-> e.resolution.status,
     basis |-> e.resolution.basis, decision |-> e.decision, kind |-> e.kind,
     values |-> e.resolution.values]

ContextOf(effective, item) ==
    IF item.kind # "added" /\ \E e \in Range(effective) : e.fact = item.fact
    THEN ContextGiven(CHOOSE e \in Range(effective) : e.fact = item.fact)
    ELSE NoContext

\* (Mutant: what was put off counts as settled.)
ImpactLenient(item, context) ==
    IF item.kind # "unchanged" THEN item.kind
    ELSE IF context = NoContext THEN "unchanged_no_review_context"
    ELSE IF context.status \in {"resolved", "deferred"} THEN "unchanged_resolved"
    ELSE "unchanged_unresolved"

\* _classify_impact
Impact(item, context) ==
    IF item.kind # "unchanged" THEN item.kind
    ELSE IF context = NoContext THEN "unchanged_no_review_context"
    ELSE IF context.status = "resolved" THEN "unchanged_resolved"
    ELSE "unchanged_unresolved"

RequiresReview(impact) == impact \in {"unchanged_unresolved", "modified", "added", "removed"}

\* _build_impact_item
ImpactItem(item, effective) ==
    LET impact == Impact(item, ContextOf(effective, item)) IN
    [fact |-> item.fact, change |-> item.kind, impact |-> impact,
     review |-> RequiresReview(impact), context |-> ContextOf(effective, item),
     base |-> item.base, target |-> item.target]

UpdateImpact(items, effective, quality) ==
    LET impacts == [i \in DOMAIN items |-> ImpactItem(items[i], effective)] IN
    [items |-> impacts, facts |-> Len(impacts), quality |-> quality,
     reviews |-> Cardinality({i \in DOMAIN impacts : impacts[i].review}),
     counts |-> [k \in {"unchanged_resolved", "unchanged_no_review_context",
                        "unchanged_unresolved", "modified", "added", "removed"} |->
                   Cardinality({i \in DOMAIN impacts : impacts[i].impact = k})]]

\* _validate_base_review_context
ContextIsValid(context, values) ==
    /\ context.assessment # 0
    /\ IsInjective(context.values) /\ Range(context.values) \subseteq values
    /\ \/ /\ context.status = "resolved" /\ context.review = "reviewed"
          /\ context.decision # 0 /\ context.values # << >>
          /\ \/ /\ context.basis = "human_selection"
                /\ context.kind \in {"select_one", "keep_multiple"}
             \/ /\ context.basis = "human_confirmed_compatibility"
                /\ context.kind = "confirm_compatible"
       \/ /\ context.basis = "none" /\ context.values = << >>
          /\ \/ /\ context.status = "deferred" /\ context.review = "deferred"
                /\ context.decision # 0 /\ context.kind = "defer"
             \/ /\ <<context.status, context.review>> \in
                     {<<"pending_review", "pending_review">>,
                      <<"unreviewed_compatible", "not_required">>}
                /\ context.decision = 0 /\ context.kind = "none"

\* authenticate_document_revision_update_impact_projection, for each item
ImpactItemIsValid(i) ==
    /\ IF i.change = "unchanged"
       THEN i.impact \in {"unchanged_resolved", "unchanged_no_review_context",
                          "unchanged_unresolved"}
       ELSE i.impact = i.change
    /\ i.review <=> RequiresReview(i.impact)
    /\ (i.base = << >>) <=> (i.change = "added")
    /\ (i.target = << >>) <=> (i.change = "removed")
    /\ i.change = "added" => i.context = NoContext
    /\ i.context # NoContext => ContextIsValid(i.context, BaseValues(i))
    /\ i.impact = "unchanged_no_review_context" => i.context = NoContext
    /\ i.impact = "unchanged_resolved" => i.context.status = "resolved"
    /\ i.impact = "unchanged_unresolved" =>
         i.context.status \in {"pending_review", "deferred", "unreviewed_compatible"}

AuthenticImpact(impact) ==
    /\ IsInjective([i \in DOMAIN impact.items |-> impact.items[i].fact])
    /\ \A i \in DOMAIN impact.items : ImpactItemIsValid(impact.items[i])
    /\ impact.facts = Len(impact.items)
    /\ impact.reviews = Cardinality({i \in DOMAIN impact.items : impact.items[i].review})
    /\ \A k \in DOMAIN impact.counts :
         impact.counts[k] = Cardinality({i \in DOMAIN impact.items : impact.items[i].impact = k})

-----------------------------------------------------------------------------
(* run_document_revision_update_workflow *)

\* _validate_pipeline_result
PipelineShape(result) ==
    \/ result.status = "failed" /\ result.skipped = "extraction_failed" /\ result.check = 0
    \/ result.status \in {"completed", "partial"} /\ result.skipped = "none" /\ result.check # 0

\* ... with the orchestration that ended, and the impact if it did not fail.
UpdateResult(result, orchestration, impact) ==
    IF ~PipelineShape(result) \/ orchestration.status # result.status THEN "refused"
    ELSE IF result.status = "failed" THEN "target_extraction_failed"
    ELSE IF AuthenticImpact(impact) THEN "impact" ELSE "refused"
==================================================================================
