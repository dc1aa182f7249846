------------------------------- MODULE Derivations -------------------------------
(***************************************************************************)
(* What the parts without state promise: receiving and inspecting a file,  *)
(* grouping and packing of values, decisions and the values that follow    *)
(* from them, differences of revisions, versions of a schema and the       *)
(* knowledge view.  A behaviour takes one input and checks it; an input    *)
(* has the kind that tells which promises it is for.                       *)
(***************************************************************************)
EXTENDS TechnicalPreflight, DuplicateGrouping, FactPlanner, RevisionDifferences,
        ReviewQueries, DecisionRows

CONSTANT Inputs

\* An item of effective values that were authenticated, with an id and its members.
EffectiveGiven(e) ==
    /\ AuthenticItem(e) /\ e.assessment # 0
    /\ e.members \in Seq([value: Nat, links: SUBSET Nat]) /\ e.members # << >>
    /\ e.resolution.values \in Seq(Nat)

\* Inputs have the form the database and its readers give them: what is read is finite, a
\* batch has one row and a value is stored by one batch and has an id of its own.
ASSUME InputsAssumption ==
    \A x \in Inputs :
         /\ x.kind = "stream" => x.chunks \in Seq(Nat)
         /\ x.kind = "file" => x.file \in Files
         /\ x.kind = "schema" => x.steps \in Seq(Nat)
         /\ x.kind = "source" =>
              \A r, s \in x.rows : \A v \in r.application.items :
                /\ v.batch = r.index
                /\ r.index = s.index => r = s
         /\ x.kind = "values" => ValuesGiven(x.values)
         /\ x.kind = "packing" =>
              /\ CandidatesGiven(x.bundles)
              /\ x.config \in [candidates: Nat \ {0}, chars: Nat]
         /\ x.kind = "answer" =>
              /\ CandidatesGiven(x.batch) /\ x.batch # << >>
              /\ x.answer \in Seq([fact: Nat, cites: Seq(Nat)])
              /\ \A C \in Range(x.batch) : LinksOf(C) \subseteq DOMAIN x.blockOf
         /\ x.kind = "plan" => x.blocks \in Seq(SourceRows) /\ x.config \in Configs
         /\ x.kind = "replies" => x.replies \in Seq(ReplyRows) \ {<< >>}
         /\ x.kind = "blocks" => x.base \in Seq(BlockRows) /\ x.target \in Seq(BlockRows)
         /\ x.kind = "facts" =>
              /\ \A rows \in {x.first, x.second, x.third} : RowsGiven(rows)
              /\ RowsStored(x.first) /\ Facts(x.first) \subseteq DOMAIN x.order
              /\ x.order \in [DOMAIN x.order -> Nat] /\ IsInjective(x.order)
         /\ x.kind = "impact" =>
              /\ RowsGiven(x.first) /\ RowsGiven(x.second)
              /\ \A e \in Range(x.effective) : EffectiveGiven(e)
         /\ x.kind = "view" =>
              /\ x.fields \in Seq(FieldRows) /\ x.subjects \in Seq(Nat) /\ FactsKnown(x.known)
              /\ \A e \in Range(x.decided) : EffectiveGiven(e)
              /\ \A d, e \in Range(x.decided) : d.fact = e.fact => d = e
         /\ x.kind = "decisions" =>
              AssessmentsGiven(x.assessments) /\ LogGiven(x.log, x.assessments)

VARIABLES input, checked
vars == <<input, checked>>

Init == input \in Inputs /\ checked = FALSE
Next == ~checked /\ checked' = TRUE /\ UNCHANGED input
Spec == Init /\ [][Next]_vars

Of(kind) == checked /\ input.kind = kind

-----------------------------------------------------------------------------
(* Files. *)

\* Whatever way the bytes are cut into chunks, an upload is received exactly when it
\* has at least one byte and at most the limit, and then all of it was written.
ReceivedWhole == Of("stream") => ReceivedIsWhole(input.chunks)

\* A file that reaches admission is of the kind its extension names and can be read;
\* what stops it is told by a flag, and a report without remarks has none.
VerdictTellsContent == Of("file") => VerdictIsSound(input.file)

-----------------------------------------------------------------------------
(* Values: input.rows are the batches with their items, input.found the values. *)

\* The values that are grouped were each stored by one completed batch, and no value
\* such a batch stored is missing.
SourceIsWhole ==
    Of("source") /\ AuthenticSource(input.orchestration, input.rows, input.found) =>
        /\ \A v \in input.found :
             Cardinality({r \in input.rows : v \in r.application.items}) = 1
        /\ \A r \in input.rows : \A v \in r.application.items :
             v \in input.found <=> r.status = "completed"

\* Two values are members of one group exactly if they mean the same about one fact and
\* batches agree on it; no value is in two groups.
GroupsAreAgreements ==
    Of("values") =>
        LET groups == DuplicateGroups(input.values)
            Same(v, w) == v.fact = w.fact /\ v.key = w.key IN
        /\ \A v, w \in input.values :
             (\E G \in groups : v \in G /\ w \in G) <=>
                Same(v, w) /\ \E u \in input.values : Same(u, v) /\ u.batch # v.batch
        /\ \A G, H \in groups : G # H => G \cap H = {}

\* A fact is a candidate exactly if it has two meanings and comes from two batches,
\* the two counts that are stored with a candidate.
CandidatesAreDisputes ==
    Of("values") =>
        {FactOf(C) : C \in ConsistencyCandidates(input.values)} =
            {f \in {v.fact : v \in input.values} :
                LET mine == OfFact(input.values, f) IN
                Cardinality({v.key : v \in mine}) > 1 /\ Cardinality({v.batch : v \in mine}) > 1}

\* A grouping made of fewer values is not taken for that of all; the stored candidates
\* and members of a plan match it, and no longer do once the meaning or the batch of a
\* single member was altered.
AlteredLedgersAreRefused ==
    Of("values") =>
        LET plan == CandidatePlan(input.values, GroupingPlan(input.values))
            rows == CandidateRows(plan)
            members == MemberRows(plan) IN
        /\ SubledgersMatch(rows, members, plan)
        /\ \A v \in input.values :
             LET other == GroupingPlan(input.values \ {v}) IN
             /\ ~MatchesPlan(other, GroupingPlan(input.values))
             /\ ~SameSource(other, GroupingPlan(input.values))
        /\ \A m \in members : \A n \in {[m EXCEPT !.key = @ + 1], [m EXCEPT !.batch = @ + 1]} :
             ~SubledgersMatch(rows, (members \ {m}) \cup {n}, plan)

\* Packing loses no candidate and keeps their order; no batch is too large, and none
\* is closed while the next candidate would have fitted; packing what is packed changes
\* nothing, which lets every batch be checked against the plan again.
PackingIsTight ==
    Of("packing") /\ Plannable(input.bundles, input.config) =>
        LET batches == CheckBatches(input.bundles, input.config)
            Fits(b) == Len(b) <= input.config.candidates /\ CharsIn(b) <= input.config.chars IN
        /\ FlattenSeq(batches) = input.bundles
        /\ \A i \in DOMAIN batches :
             Fits(batches[i]) /\ BatchOfPlan(batches, i, batches[i], input.config)
        /\ \A i \in 1..(Len(batches) - 1) :
             batches[i + 1] # << >> /\ ~Fits(Append(batches[i], batches[i + 1][1]))

\* In whatever order the model answers, what is kept is in the order of the batch.
AnswerOrderIsLost ==
    Of("answer") /\ Acceptable(input.batch, input.answer) =>
        LET kept == Ordered(input.batch, input.answer) IN
        /\ kept = Ordered(input.batch, Reverse(input.answer))
        /\ \A i \in DOMAIN kept : kept[i].fact = FactOf(input.batch[i])

\* An answer about one fact never rests on the evidence of another.
EvidenceIsOwn ==
    Of("answer") /\ Acceptable(input.batch, input.answer) =>
        \A a \in Range(input.answer), C \in Range(input.batch) :
            FactOf(C) # a.fact => Range(a.cites) \cap LinksOf(C) = {}

\* The input of a batch has every block its evidence is from once, with its present
\* content: it is refused once the content of such a block has changed, or one is missing.
InputIsPresent ==
    Of("answer") =>
        LET named == BlocksOf(input.batch, input.blockOf)
            before == [b \in Range(input.blockOf) |-> 0]
            made == [i \in DOMAIN named |-> [block |-> named[i], content |-> before[named[i]]]]
            Accepted(snapshot, content) ==
                Materialized(snapshot, input.batch, input.blockOf, content) IN
        /\ IsInjective(named)
        /\ Range(named) = {input.blockOf[l] : l \in UNION {LinksOf(C) : C \in Range(input.batch)}}
        /\ Accepted(made, before)
        /\ \A b \in Range(input.blockOf) :
             Accepted(made, [before EXCEPT ![b] = 1]) <=> b \notin Range(named)
        /\ \A i \in DOMAIN made : ~Accepted(RemoveAt(made, i), before)

\* The check that an acceptable answer is stored as holds for those who read it, and no
\* longer does when a single citation is lost.
StoredCheckIsAuthentic ==
    Of("answer") /\ Acceptable(input.batch, input.answer) =>
        LET batch == input.batch
            kept == PlanResult(<<batch>>, <<input.answer>>).assessments
            MemberOf(v) == [value |-> v.id, links |-> v.links]
            candidates == [i \in DOMAIN batch |->
                [id |-> FactOf(batch[i]),
                 members |-> [n \in DOMAIN Members(batch[i]) |->
                                MemberOf(Members(batch[i])[n])]]]
            assessments == {[id |-> i, batch |-> 1, candidate |-> kept[i].fact,
                             verdict |-> "conflict"] : i \in DOMAIN kept}
            citations == UNION {{[assessment |-> i, order |-> n,
                                  value |-> Citations(batch[i], kept[i])[n].value,
                                  link |-> kept[i].cites[n]] : n \in DOMAIN kept[i].cites} :
                                i \in DOMAIN kept}
            check == [batches |-> 1, skipped |-> 0, runs |-> 1, assessments |-> Len(kept),
                      result |-> ResultOf(1, assessments, citations, candidates)]
            Holding(cited) == AuthenticCheck(check,
                {[index |-> 1, skipped |-> FALSE, run |-> TRUE]}, assessments, cited, candidates) IN
        Holding(citations) /\ \A x \in citations : ~Holding(citations \ {x})

-----------------------------------------------------------------------------
(* Requests: input.blocks of an extraction run and input.config; input.replies to *)
(* one request, as many as the client may ask for.                                *)

Firsts(batch) == Min(batch.primary)
LatestHeading(source, i) == Max({0} \cup {j \in 1..(i - 1) : source[j].heading})

\* Blocks that are not those of the run, one after the other, are refused, whatever the
\* order they are given in; the plan only depends on which blocks they are.
SourceIsChecked ==
    Of("plan") =>
        LET Fits(blocks) == SourceFits(1, blocks)
            turned == Reverse(input.blocks) IN
        /\ Fits(turned) <=> Fits(input.blocks)
        /\ Fits(input.blocks) => InSourceOrder(turned) = InSourceOrder(input.blocks)
        /\ \A i \in DOMAIN input.blocks : Fits(input.blocks) /\ Len(input.blocks) > 1 =>
             (Fits(RemoveAt(input.blocks, i)) <=> input.blocks[i].order = Len(input.blocks) - 1)

\* Every block is asked about as primary once, in order, or one of them fits no message
\* even alone and the plan fails; no message exceeds its limits.
EveryBlockIsPlanned(source, config, plan) ==
    LET large == {i \in DOMAIN source : ~BatchFits(source, {i}, config)} IN
    /\ plan.tooLarge = IF large = {} THEN NoBlock ELSE Min(large)
    /\ UNION {b.primary : b \in Range(plan.batches)} = 1..(plan.cursor - 1)
    /\ \A n \in DOMAIN plan.batches : plan.batches[n].primary # {}
    /\ \A n \in DOMAIN plan.batches : \A m \in 1..(n - 1) :
         \A i \in plan.batches[m].primary, j \in plan.batches[n].primary : i < j
    /\ plan.tooLarge = NoBlock => plan.cursor = Len(source) + 1
    /\ \A b \in Range(plan.batches) : BatchFits(source, Final(b), config)

\* A block is never read under a stale heading: what a message repeats from before its
\* primary blocks shows the latest heading there is, or none at all.
HeadingsAreCurrent(source, plan) ==
    \A b \in Range(plan.batches) :
        LET shown == {i \in Final(b) : i < Firsts(b) /\ source[i].heading} IN
        shown # {} => LatestHeading(source, Firsts(b)) \in shown

\* What surrounds the primary blocks is given up only for lack of room: with one block
\* more of the overlap, or the heading that is missing, the first would not have fitted.
SurroundingsAreKept(source, config, plan) ==
    \A n \in 2..Len(plan.batches) :
        LET b == plan.batches[n]
            previous == Final(plan.batches[n - 1])
            Room(more) == BatchFits(source, b.overlap \cup more \cup {Firsts(b)}, config) IN
        /\ b.overlap \subseteq previous
        /\ \A i \in previous \ b.overlap :
             Cardinality(b.overlap) < config.overlap /\ i = Max(previous \ b.overlap) => ~Room({i})
        /\ \A heading \in {LatestHeading(source, Firsts(b))} \ {0} :
             config.headings /\ heading \notin Final(b) => ~Room({heading})

\* A message ends where it is nearest to the target that its limits allow.
EndsAreNear(source, config, plan) ==
    LET Off(indices) == Distance(config.target, CharsOf(source, indices, config))
        Near(all, end, primary) ==
            /\ end < Len(source) /\ BatchFits(source, all \cup {end + 1}, config) =>
                 Off(all \cup {end + 1}) >= Off(all)
            /\ Cardinality(primary) > 1 => Off(all) < Off(all \ {end}) IN
    \A b \in Range(plan.batches) : Near(Final(b), Max(b.primary), b.primary)

PlanIsRight(source, config, plan) ==
    /\ EveryBlockIsPlanned(source, config, plan) /\ HeadingsAreCurrent(source, plan)
    /\ SurroundingsAreKept(source, config, plan) /\ EndsAreNear(source, config, plan)
PlansAreRight ==
    Of("plan") /\ ConfigFits(input.config) /\ SourceFits(1, input.blocks) =>
        \A source \in {InSourceOrder(input.blocks)} :
            PlanIsRight(source, input.config, Plan(source, input.config))

\* A reply that can be used is the answer whatever transient failures came before it, and
\* no other reply is; one that never could be used is not asked for again, and a batch is
\* tried again only when the client has asked in vain as often as it may, or was refused.
RepliesAreUsedOnce ==
    Of("replies") =>
        LET retries == Len(input.replies) - 1
            told == Complete(input.replies, retries)
            Code(i) == ReplyCode(input.replies[i])
            spent == told.attempts = retries + 1 IN
        /\ told.code = "completed" <=>
             \E i \in 1..(retries + 1) :
                Code(i) = "completed" /\ \A j \in 1..(i - 1) : AskAgain(Code(j))
        /\ told.code = Code(told.attempts)
        /\ \A j \in 1..(told.attempts - 1) : Code(j) \in Transient \cup {"empty"}
        /\ BatchIsRetried(told.code) => spent \/ told.code = "client_error"

-----------------------------------------------------------------------------
(* Decisions: input.log is a log of decisions about a check, input.assessments. *)

Holds(decisions, selections) ==
    LedgersHold(input.assessments, Candidates, decisions, selections)
Items(log) == ItemsOf(input.assessments, log)

\* A reader that takes the decisions and then the selections, while others decide, is
\* refused if values were selected in between, and only then.
TornReadIsRefused ==
    Of("decisions") =>
        \A m \in 0..Len(input.log) : \A n \in m..Len(input.log) :
            Holds(DecisionsOf(Until(input.log, m)), SelectionRows(Until(input.log, n)))
                <=> SelectionRows(Until(input.log, m)) = SelectionRows(Until(input.log, n))

\* Once a single row of a selection is lost, the ledgers are refused.
LostSelectionIsRefused ==
    Of("decisions") =>
        \A i \in DOMAIN SelectionRows(input.log) :
            ~Holds(DecisionsOf(input.log), RemoveAt(SelectionRows(input.log), i))

\* What a fact resolves to is a matter of the last decision alone: a chain of decisions
\* resolves like its last one, whatever was selected before.
LastDecisionRules ==
    Of("decisions") =>
        LET all == EffectiveValues(Items(input.log)).items
            last == EffectiveValues(Items(OnlyLast(input.log))).items IN
        /\ DOMAIN all = DOMAIN last
        /\ \A i \in DOMAIN all :
             /\ all[i].resolution = last[i].resolution
             /\ all[i].kind = last[i].kind /\ all[i].review = last[i].review

\* Whatever was decided, the values are accepted by those who authenticate them again,
\* the review and the values count the same, and nobody's word is only taken for a model's.
EffectiveIsAuthentic ==
    Of("decisions") =>
        LET effective == EffectiveValues(Items(input.log))
            review == ReviewProjection(Items(input.log)) IN
        /\ \A item \in Range(Items(input.log)) : ItemFits(item)
        /\ AuthenticEffective(effective)
        /\ effective.resolved + effective.pending + effective.deferred = effective.facts
        /\ effective.resolved = review.statuses["reviewed"]
        /\ effective.deferred = review.statuses["deferred"]
        /\ review.assessments = effective.facts /\ review.decisions = Len(input.log)

-----------------------------------------------------------------------------
(* Differences: input.base, input.target are sequences of blocks. *)

\* The difference is asked for of neighbours whose runs can be compared.
Compared ==
    LET RunOf(n, blocks) == [id |-> n, status |-> "completed", blocks |-> Len(blocks),
                             outcome |-> IF blocks = << >> THEN "partial" ELSE "success",
                             extractor |-> 1, format |-> 1]
        first == [document |-> 1, id |-> 10, no |-> 1, supersedes |-> 0]
        second == [document |-> 1, id |-> 20, no |-> 2, supersedes |-> 10] IN
    /\ Of("blocks") /\ Adjacent(1, first, second)
    /\ Comparable(RunOf(10, input.base), RunOf(20, input.target))
    /\ BlocksFit(RunOf(10, input.base), input.base)
    /\ BlocksFit(RunOf(20, input.target), input.target)

In(items, side, block) == {i \in DOMAIN items : items[i][side] = block}

\* Every block of either revision is told of once.
EveryBlockOnce ==
    Compared =>
        LET items == BlockDiff(input.base, input.target) IN
        /\ \A b \in Range(input.base) : Cardinality(In(items, "base", b)) = 1
        /\ \A t \in Range(input.target) : Cardinality(In(items, "target", t)) = 1
        /\ Len(items) = Len(input.base) + Len(input.target)
              - Cardinality({i \in DOMAIN items : Nobody \notin
                                {items[i].base, items[i].target}})

\* Comparing the other way round tells the same: what moved one way moves back, what
\* was added is removed.
BlocksMirror ==
    Compared =>
        LET Mirrored(kind) == IF kind = "added" THEN "removed"
                              ELSE IF kind = "removed" THEN "added" ELSE kind IN
        {<<i.kind, i.base, i.target>> : i \in Range(BlockDiff(input.base, input.target))} =
        {<<Mirrored(i.kind), i.target, i.base>> :
            i \in Range(BlockDiff(input.target, input.base))}

\* What is told of a block is so: it changed its text only where it was modified, its
\* place only where it moved, the kinds make up the difference, and a fact of either
\* revision finds there every block it may cite.
KindsAreTrue ==
    Compared =>
        LET items == BlockDiff(input.base, input.target) IN
        /\ \A i \in Range(items) : i.kind \in MatchKinds =>
             LET changed == WhatChanged(i) IN
             /\ i.kind = "unchanged" <=> ~changed.raw /\ ~changed.place
             /\ i.kind = "moved" => changed.place /\ ~changed.text /\ ~changed.type
             /\ i.kind = "modified" => changed.raw /\ ~changed.place
        /\ Len(items) = MapThenSumSet(LAMBDA k : KindCount(items, k),
                                       MatchKinds \cup {"added", "removed"})
        /\ SideFits({[block |-> b.id] : b \in Range(input.base)}, items, "base")
        /\ SideFits({[block |-> t.id] : t \in Range(input.target)}, items, "target")

(* Facts: input.first, second and third are the rows of three revisions, one after *)
(* the other.                                                                      *)

\* The rows of a revision are accepted for what its batches stored, and no longer when
\* a single evidence is lost; their snapshot tells of every value and evidence once.
RowsAreWhole ==
    Of("facts") =>
        LET rows == input.first
            source == {[value |-> r.value, fact |-> r.fact, key |-> r.key, batch |-> r.batch,
                        links |-> {q.link : q \in {x \in rows : x.value = r.value}}] :
                          r \in rows}
            snapshot == FactSnapshot(rows, "completed", input.order)
            groups == FlattenSeq([i \in DOMAIN snapshot.items |-> snapshot.items[i].groups])
            Told(part(_)) == FlattenSeq([i \in DOMAIN groups |-> part(groups[i])])
            values == Told(LAMBDA g : g.values)
            evidences == Told(LAMBDA g : g.evidences) IN
        /\ RowsFit(rows, source, 1) /\ \A r \in rows : ~RowsFit(rows \ {r}, source, 1)
        /\ IsInjective(values) /\ Len(values) = snapshot.values
        /\ IsInjective(evidences) /\ Len(evidences) = snapshot.evidences


Told(base, target, f) ==
    LET items == Range(FactDiff(base, target)) IN
    IF \E i \in items : i.fact = f THEN (CHOOSE i \in items : i.fact = f).kind ELSE "none"

\* What two updates left unchanged is unchanged from the first to the last, and what
\* both of them and the whole tell of a fact fits together.
UpdatesCompose ==
    Of("facts") =>
        \A f \in {1, 2} :
            LET first == Told(input.first, input.second, f)
                second == Told(input.second, input.third, f)
                whole == Told(input.first, input.third, f) IN
            /\ first = "unchanged" /\ second = "unchanged" => whole = "unchanged"
            /\ first = "unchanged" => whole = second
            /\ second = "unchanged" => whole = first
            /\ first = "added" /\ second = "removed" => whole = "none"

\* An update passes without review only where a fact kept all its meanings and a human
\* had settled it or there was nothing to settle; what is built is accepted by its readers.
NothingSlipsThrough ==
    Of("impact") =>
        LET items == FactDiff(input.first, input.second)
            impact == UpdateImpact(items, input.effective, "complete")
            Ended(s, skip, check) ==
                UpdateResult([status |-> s, skipped |-> skip, check |-> check],
                                  [status |-> s], impact) IN
        ContextsFit(items, input.effective) =>
            /\ Ended("partial", "none", 1) = "impact" /\ Ended("partial", "none", 0) = "refused"
            /\ Ended("failed", "extraction_failed", 0) = "target_extraction_failed"
            /\ \A i \in Range(impact.items) : ~i.review =>
                 /\ Meanings(input.first, i.fact) = Meanings(input.second, i.fact)
                 /\ \A e \in Range(input.effective) :
                      e.fact = i.fact => e.resolution.status = "resolved"

-----------------------------------------------------------------------------
(* Schemas: input.steps are drafts, 0, and activations of the version of a number. *)

After(n) ==
    FoldLeft(LAMBDA s, v : IF v = 0 THEN WithVersion(s, "draft") ELSE Activated(s, v),
             NewSchema, SubSeq(input.steps, 1, n))
Moments == 0..Len(input.steps)

\* What was retired stays so, and there is an active version exactly while one is current.
RetiredForever ==
    Of("schema") =>
        \A m \in Moments : \A n \in m..Len(input.steps) :
            /\ \A v \in DOMAIN After(m).versions :
                 After(m).versions[v] = "retired" => After(n).versions[v] = "retired"
            /\ ActiveIn(After(n)) = {After(n).current} \ {NoVersion}
            /\ After(m).current # NoVersion => After(n).current # NoVersion

\* The definition a reader takes, one query after the other while versions are activated,
\* is that of one moment.
DefinitionIsOfOneMoment ==
    Of("schema") =>
        \A l \in Moments : \A m \in l..Len(input.steps) : \A n \in m..Len(input.steps) :
            \A v \in DOMAIN After(m).versions :
                DefinitionIsTaken(After(l), After(m), After(n), v) =>
                    /\ After(l).current = After(m).current
                    /\ After(m).versions[v] = After(n).versions[v]

-----------------------------------------------------------------------------
(* Views: input.fields of a schema, input.known facts and the effective items. *)

Filter == [given |-> input.subjects # << >>, keys |-> input.subjects]
WholeView == ~Filter.given /\ FieldsFit(input.fields)
ViewFields(view) == UNION {Range(FieldsIn(r)) : r \in Range(view.records)}

\* What is built of fields that fit is accepted by all who authenticate it again, and as
\* the content of a version of the project if nothing was filtered.
ViewIsAuthentic(raw, reviewed, view) ==
    FieldsFit(input.fields) /\ FilterFits(Filter) =>
        /\ AuthenticRaw(raw, Filter) /\ AuthenticReviewed(reviewed, Filter)
        /\ AuthenticView(view, Filter)
        /\ ~Filter.given => AuthenticVersion(Kept(view, "manual", 0))

\* A field with a fact on which a human still has to decide says so and shows no value
\* of it, even beside facts that are settled.
UndecidedIsNotKnown(view) ==
    \A f \in ViewFields(view) : \A g \in Range(f.raw.facts) : \A e \in Range(input.decided) :
        e.fact = g.id /\ e.resolution.status # "resolved" =>
            /\ f.state = "review_required"
            /\ Range(f.values) \cap Range(FactValues(g)) = {}

\* Fields for one value with different scopes share no fact, and the projection of the
\* current values is refused exactly where that of a run reports several facts.
ScopesAreApart(raw, view) ==
    /\ \A f, g \in ViewFields(view) :
         f.raw.field.one /\ g.raw.field.one /\ f.raw.field.scope # g.raw.field.scope =>
            Range(f.raw.facts) \cap Range(g.raw.facts) = {}
    /\ \A r \in Range(raw.records) :
         LET facts == Where(input.known, LAMBDA f : f.kind = raw.kind /\ f.subject = r.subject) IN
         LiveRecord(input.fields, facts, TRUE).corrupt <=>
            \E f \in Range(r.fields) : "multiple_facts" \in Range(f.issues)

\* A list that the limit does not cut has every item.
AllAreListed(reviewed) == Cardinality(Indexed(reviewed)) <= MostListed

\* A reviewer finds every fact once, in the list of its state, and the undecided ones
\* first, so that a limit never hides one behind facts that are settled; a list, and the
\* detail of what it lists, are accepted when they are authenticated again.
NothingIsMissing(all, those, view) ==
    /\ {i.fact : i \in Range(all)} =
         UNION {{r.fact.id : r \in Range(f.reviewed)} : f \in ViewFields(view)}
    /\ Range(all) = UNION {Range(those[s]) : s \in ItemStates}
ListsFit(all, those, reviewed) ==
    /\ \A s, t \in ItemStates : s # t => Range(those[s]) \cap Range(those[t]) = {}
    /\ \A i, j \in DOMAIN all : i < j /\ all[j].review => all[i].review
    /\ \A i \in Range(all) : \E d \in Detail(reviewed, i.fact) :
         AuthenticDetail(d) /\ d.fields = i.fields /\ d.reviewed.state = i.state
ListsAreWhole(reviewed, view) ==
    /\ \A those \in {[s \in ItemStates \cup {"all"} |-> Listed(reviewed, s, MostListed)]} :
         /\ ListsFit(those["all"], those, reviewed)
         /\ AllAreListed(reviewed) => NothingIsMissing(those["all"], those, view)
    /\ \A s \in ItemStates \cup {"all"}, limit \in 1..3 :
         AuthenticList(Listed(reviewed, s, limit), s, limit)

\* What is listed for review is what can be decided, and what keeps its fields of the view
\* from being known; the record of a version shows it in the same way.
ListedCanBeDecided(reviewed, open, version) ==
    /\ {i.fact : i \in open} =
         {f.id : f \in {x \in Range(input.known) :
            \E e \in Range(input.decided) : MayDecide(reviewed, x.id, e.assessment)}}
    /\ \A subject \in {r.subject : r \in Range(version.view.records)} :
         \A f \in Range(FieldsIn(VersionRecord(version, subject)[1])) :
            f.state = "review_required" <=>
                \E i \in open : i.subject = subject /\ Contains(i.fields, f.raw.field.key)

ViewTellsTheTruth(raw, reviewed, view) ==
    /\ ViewIsAuthentic(raw, reviewed, view)
    /\ UndecidedIsNotKnown(view) /\ ScopesAreApart(raw, view)
    /\ WholeView => ListsAreWhole(reviewed, view)
    /\ WholeView /\ AllAreListed(reviewed) =>
         ListedCanBeDecided(reviewed,
                            Range(Listed(reviewed, "review_required", MostListed)),
                            Kept(view, "manual", 0))

-----------------------------------------------------------------------------
(* The promises, one for each part. *)

\* Files: received whole or refused, and judged by what they are.
PreflightIsSound == ReceivedWhole /\ VerdictTellsContent

\* Values: the source is whole, groups are what batches agree on, and candidates what
\* they may disagree on.
GroupingIsRight == SourceIsWhole /\ GroupsAreAgreements /\ CandidatesAreDisputes

\* Checks: batches lose no candidate, and answers no order and no evidence.
\* Requests: every block is asked about under its heading, and an answer taken once.
RequestsAreRight ==
    /\ PackingIsTight /\ AnswerOrderIsLost /\ EvidenceIsOwn /\ InputIsPresent
    /\ SourceIsChecked /\ PlansAreRight /\ RepliesAreUsedOnce

\* Ledgers that were altered, lost a row or were read at two moments are refused.
AlterationsAreRefused ==
    /\ AlteredLedgersAreRefused /\ StoredCheckIsAuthentic /\ RowsAreWhole
    /\ TornReadIsRefused /\ LostSelectionIsRefused

\* Effective values follow the last decision and hold before their readers.
EffectiveIsCurrent == LastDecisionRules /\ EffectiveIsAuthentic

\* Differences of blocks tell of every block once, whichever side is the base.
BlocksAreMatched == EveryBlockOnce /\ BlocksMirror /\ KindsAreTrue

\* Updates compose, and none passes unseen.
UpdatesAreReviewed == UpdatesCompose /\ NothingSlipsThrough

\* Versions of a schema never come back, and are read whole.
SchemaMovesForward == RetiredForever /\ DefinitionIsOfOneMoment

\* The knowledge view is authentic and says known only of what is settled; nothing
\* undecided is hidden from those who can decide it.
ViewsTellTheTruth ==
    Of("view") =>
        \A raw \in {RawProjection("person", input.fields, input.known, Filter)} :
            \A reviewed \in {ReviewedProjection(raw, input.decided)} :
                ReviewBinds(raw, input.decided) =>
                    ViewTellsTheTruth(raw, reviewed, View(reviewed))
=============================================================================
