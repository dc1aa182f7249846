--------------------------- MODULE DuplicateGrouping ---------------------------
(***************************************************************************)
(* From the values an extraction proposed to the work of the consistency   *)
(* check: groups of equal values from different batches, candidates whose  *)
(* values differ between batches, their packing into batches for the model *)
(* and what an answer must look like.  Nothing here has state.             *)
(*                                                                         *)
(* A value has an id, a fact, the batch it came from, a key (equal for     *)
(* values that mean the same), the links to its evidence and their length. *)
(* Facts, ids and links are ordered like the numbers that stand for them.  *)
(***************************************************************************)
EXTENDS Naturals, Sequences, FiniteSets, SequencesExt, FiniteSetsExt,
        RowSequences

\* The rows of values with their links to evidence; an id and a link belong to one value.
ValueRows == [id: Nat, fact: Nat, key: Nat, batch: Nat, links: SUBSET Nat, chars: Nat]
ValuesGiven(V) ==
    /\ V \in SUBSET ValueRows /\ IsFiniteSet(V)
    /\ \A v \in V : IsFiniteSet(v.links)
    /\ \A v, w \in V : v # w => v.id # w.id /\ v.links \cap w.links = {}

BatchesOf(V) == {v.batch : v \in V}
KeysOf(V) == {v.key : v \in V}
LinksOf(V) == UNION {v.links : v \in V}

-----------------------------------------------------------------------------
(* The source: an orchestration o that ended, its batch rows, each with the    *)
(* application it is bound to and the items that application stored.           *)

\* _validate_run_state, _validate_completed_batch_counts
SourceReady(o) ==
    /\ o.status \in {"completed", "partial"} /\ o.batches > 0
    /\ o.status = "completed" => o.completed = o.batches /\ o.failed = 0
    /\ o.status = "partial" =>
         o.completed > 0 /\ o.failed > 0 /\ o.completed + o.failed = o.batches

\* has_invalid_completed_batch_bindings
Bound(row) ==
    /\ row.application.status = "completed"
    /\ row.application.run = row.run /\ row.application.input = row.input

CompletedRows(rows) == {row \in rows : row.status = "completed"}

\* _validate_completed_batch_applications
RowsCounted(o, completed) ==
    /\ Cardinality(completed) = o.completed
    /\ \A row \in completed : row.index \in 1..o.batches
    /\ \A r, s \in completed : r.index = s.index => r = s

\* (Mutant: the items of all batches, the failed ones too.)
AllItems(rows) == UNION {row.application.items : row \in rows}

StoredItems(rows) == UNION {row.application.items : row \in CompletedRows(rows)}

\* authenticate_duplicate_grouping_source_snapshot: the values a query finds are
\* the items of the completed batches, each stored by one of them.
AuthenticSource(o, rows, values) ==
    /\ SourceReady(o)
    /\ \A row \in CompletedRows(rows) : Bound(row)
    /\ RowsCounted(o, CompletedRows(rows))
    /\ \A r, s \in CompletedRows(rows) : r # s =>
         {v.id : v \in r.application.items} \cap {v.id : v \in s.application.items} = {}
    /\ values = StoredItems(rows)

-----------------------------------------------------------------------------
(* Grouping of duplicates. *)

ValueFingerprint(v) == <<v.fact, v.key>>
Alike(values, v) == {w \in values : ValueFingerprint(w) = ValueFingerprint(v)}

\* (Mutant: two values of one batch are a group, too.)
GroupsOfSize(values) == {G \in {Alike(values, v) : v \in values} : Cardinality(G) >= 2}

\* Values that mean the same are grouped when they come from two batches.
DuplicateGroups(values) ==
    {G \in {Alike(values, v) : v \in values} : Cardinality(BatchesOf(G)) >= 2}

\* build_duplicate_grouping_write_plan; the manifests stand for their hashes.
GroupingPlan(values) ==
    LET groups == DuplicateGroups(values) IN
    [input |-> {<<v.id, ValueFingerprint(v), v.batch, v.links>> : v \in values},
     result |-> {{<<v.id, v.batch>> : v \in G} : G \in groups},
     groups |-> groups,
     members |-> Cardinality(UNION groups)]

\* A stored application with its groups and members is that of the plan.
MatchesPlan(ledger, plan) ==
    /\ ledger.input = plan.input /\ ledger.result = plan.result
    /\ Cardinality(ledger.groups) = Cardinality(plan.groups)
    /\ ledger.members = plan.members

-----------------------------------------------------------------------------
(* Candidates of the consistency check: one fact, all its values. *)

OfFact(values, f) == {v \in values : v.fact = f}
Differ(V) == \E v, w \in V : v.key # w.key /\ v.batch # w.batch

\* (Mutant: two meanings make a candidate, from whatever batches.)
ManyKeys(values) ==
    {C \in {OfFact(values, v.fact) : v \in values} : Cardinality(KeysOf(C)) >= 2}

ConsistencyCandidates(values) ==
    {C \in {OfFact(values, v.fact) : v \in values} :
        Cardinality(KeysOf(C)) >= 2 /\ Differ(C)}

\* build_fact_value_consistency_candidate_write_plan
CandidatePlan(values, grouping) ==
    LET candidates == ConsistencyCandidates(values) IN
    [source |-> grouping.input,
     candidates |-> candidates,
     result |-> {{<<v.id, v.key, v.batch>> : v \in C} : C \in candidates},
     members |-> Cardinality(UNION candidates)]

\* _assert_source_duplicate_grouping_application_matches_snapshot, ..._input
SameSource(read, current) ==
    /\ read.input = current.input /\ read.result = current.result
    /\ read.members = current.members

\* The rows the plan is stored as; the id of a candidate stands for a new one.
CandidateRows(plan) ==
    {[fact |-> (CHOOSE v \in C : TRUE).fact, members |-> Cardinality(C),
      keys |-> Cardinality(KeysOf(C)), batches |-> Cardinality(BatchesOf(C))] :
        C \in plan.candidates}
MemberRows(plan) ==
    {[fact |-> v.fact, value |-> v.id, key |-> v.key, batch |-> v.batch] :
        v \in UNION plan.candidates}

MembersOf(row, members) == {m \in members : m.fact = row.fact}

\* (Mutant: only the counts of the application are compared.)
CountsMatch(candidates, members, plan) ==
    /\ Cardinality(candidates) = Cardinality(plan.candidates)
    /\ Cardinality(members) = plan.members

\* _compute_consistency_candidate_result_manifest_hash: what is stored is the
\* plan, and the counts of each candidate are those of its members.
SubledgersMatch(candidates, members, plan) ==
    /\ Cardinality(candidates) = Cardinality(plan.candidates)
    /\ Cardinality(members) = plan.members
    /\ Cardinality({m.value : m \in members}) = Cardinality(members)
    /\ {m.fact : m \in members} \subseteq {c.fact : c \in candidates}
    /\ \A c \in candidates :
         LET mine == MembersOf(c, members) IN
         /\ c.members = Cardinality(mine)
         /\ c.keys = Cardinality(KeysOf(mine))
         /\ c.batches = Cardinality(BatchesOf(mine))
    /\ {{<<m.value, m.key, m.batch>> : m \in MembersOf(c, members)} : c \in candidates}
         = plan.result

FactOf(C) == (CHOOSE v \in C : TRUE).fact

\* Candidates in the order they are asked about, each of values of one fact.
CandidatesGiven(batch) ==
    /\ batch \in Seq(SUBSET ValueRows) /\ ValuesGiven(UNION Range(batch))
    /\ \A C \in Range(batch) : C # {} /\ \A v, w \in C : v.fact = w.fact
    /\ IsInjective([i \in DOMAIN batch |-> FactOf(batch[i])])

Chars(C) == FoldFunctionOnSet(+, 0, [v \in C |-> v.chars], C)

\* _build_candidate_bundles: the candidates in the order of their facts.
Bundles(candidates) ==
    SetToSortSeq(candidates, LAMBDA C, D : FactOf(C) < FactOf(D))
\* ... and the members of one by meaning, batch and id.
MemberBefore(v, w) ==
    \/ v.key < w.key
    \/ v.key = w.key /\ v.batch < w.batch
    \/ v.key = w.key /\ v.batch = w.batch /\ v.id < w.id
Members(C) == Sorted(C, MemberBefore)

-----------------------------------------------------------------------------
(* Packing; config has the most candidates and characters of a batch. *)

CharsIn(batch) ==
    FoldFunctionOnSet(+, 0, [i \in DOMAIN batch |-> Chars(batch[i])], DOMAIN batch)

\* (Mutant: the limit of characters is tested before the candidate is added.)
FullWithoutIt(batch, C, config) ==
    \/ Len(batch) >= config.candidates
    \/ batch # << >> /\ CharsIn(batch) > config.chars

Full(batch, C, config) ==
    \/ Len(batch) >= config.candidates
    \/ batch # << >> /\ CharsIn(batch) + Chars(C) > config.chars

Packed(batches, C, config) ==
    IF Full(Last(batches), C, config) THEN Append(batches, <<C>>)
    ELSE [batches EXCEPT ![Len(batches)] = Append(@, C)]

\* One candidate that is too large makes the plan impossible.
Plannable(bundles, config) == \A C \in Range(bundles) : Chars(C) <= config.chars

\* _build_consistency_check_batches; without candidates there is one empty batch.
CheckBatches(bundles, config) ==
    FoldLeft(LAMBDA batches, C : Packed(batches, C, config), << << >> >>, bundles)

\* validate_consistency_check_batch_plan of the batch at the index.
BatchOfPlan(plan, index, batch, config) ==
    /\ index \in 1..Len(plan) /\ plan[index] = batch
    /\ plan = CheckBatches(FlattenSeq(plan), config)

\* _collect_batch_document_block_ids: the blocks of the evidence, in the order the
\* candidates, their members and their links name them, each once.
BlocksNamed(batch, blockOf) ==
    FlattenSeq([i \in DOMAIN batch |->
        FlattenSeq([j \in DOMAIN Members(batch[i]) |->
            LET links == Sorted(Members(batch[i])[j].links, <) IN
            [n \in DOMAIN links |-> blockOf[links[n]]]])])
BlocksOf(batch, blockOf) == EachOnce(BlocksNamed(batch, blockOf))

\* _materialize_batch_snapshot: the input batch that is loaded has these blocks in
\* this order with their present contents.
Materialized(input, batch, blockOf, content) ==
    /\ [i \in DOMAIN input |-> input[i].block] = BlocksOf(batch, blockOf)
    /\ \A i \in DOMAIN input : input[i].content = content[input[i].block]

-----------------------------------------------------------------------------
(* Answers: a sequence of assessments, each of a fact with the links it cites. *)

CandidateFor(batch, f) == CHOOSE C \in Range(batch) : FactOf(C) = f

\* (Mutant: links are checked against the batch, not the candidate.)
CitesBatch(batch, a) == Range(a.cites) \subseteq UNION {LinksOf(C) : C \in Range(batch)}

CitesCandidate(batch, a) == Range(a.cites) \subseteq LinksOf(CandidateFor(batch, a.fact))

\* parse_consistency_check_response_object, _validate_response_against_batch.
Acceptable(batch, answer) ==
    /\ {a.fact : a \in Range(answer)} = {FactOf(C) : C \in Range(batch)}
    /\ Len(answer) = Cardinality({a.fact : a \in Range(answer)})
    /\ \A a \in Range(answer) : IsInjective(a.cites) /\ CitesCandidate(batch, a)

AssessmentOf(answer, f) == CHOOSE a \in Range(answer) : a.fact = f

\* (Mutant: the order of the answer is kept.)
AsAnswered(batch, answer) == answer

\* _validate_and_order_batch_result: the assessments in the order of the batch.
Ordered(batch, answer) == [i \in DOMAIN batch |-> AssessmentOf(answer, FactOf(batch[i]))]

\* _build_plan_execution_result; skipped batches count as executed.
PlanResult(plan, answers) ==
    [batches |-> Len(plan),
     executed |-> Len(answers),
     skipped |-> Cardinality({b \in DOMAIN plan : plan[b] = << >>}),
     assessments |-> FlattenSeq([b \in DOMAIN plan |-> Ordered(plan[b], answers[b])])]

\* _build_citation_specs: the value each cited link belongs to, in order.
Citations(C, a) ==
    [i \in DOMAIN a.cites |->
        [value |-> (CHOOSE v \in C : a.cites[i] \in v.links).id, link |-> a.cites[i]]]
==============================================================================
