------------------------------ MODULE MCDerivations ------------------------------
(* The inputs of the parts without state, a small set for each kind.         *)
EXTENDS Derivations

Seqs(S, most) == UNION {[1..n -> S] : n \in 0..most}

Streams == [kind: {"stream"}, chunks: Seqs(0..4, 3)]
MCFiles == [kind: {"file"},
            file: [ext: Extensions, content: Contents, names: 0..2, repeated: {0, 1},
                   length: {0, 10}, nul: BOOLEAN, controls: {3, 4}, decodable: BOOLEAN,
                   renamed: {FALSE}, otherMime: BOOLEAN]]

Value(i, f, k, b) == [id |-> i, fact |-> f, key |-> k, batch |-> b, links |-> {i}, chars |-> 1]
ValueSets ==
    {[kind |-> "values", values |-> {Value(i, fs[i], ks[i], bs[i]) : i \in 1..n}] :
        n \in {3}, fs \in [1..3 -> 1..2], ks \in [1..3 -> 1..2], bs \in [1..3 -> 1..2]}

Row(b, status, values) ==
    [index |-> b, status |-> status, run |-> b, input |-> b,
     application |-> [status |-> "completed", run |-> b, input |-> b, items |-> values]]
Sources ==
    {[kind |-> "source",
      orchestration |-> [status |-> IF done = {1, 2} THEN "completed" ELSE "partial",
                         batches |-> 2, completed |-> Cardinality(done),
                         failed |-> 2 - Cardinality(done)],
      rows |-> {Row(b, IF b \in done THEN "completed" ELSE "failed",
                    {Value(i, 1, i, b) : i \in held[b]}) : b \in 1..2},
      found |-> {Value(v[1], 1, v[1], v[2]) : v \in found}] :
        done \in SUBSET (1..2), held \in [1..2 -> SUBSET (1..2)],
        found \in SUBSET ((1..2) \X (1..2))}

Sized(f, n) == {[Value(f, f, 1, 1) EXCEPT !.chars = n]}
Packings ==
    {[kind |-> "packing", bundles |-> [i \in DOMAIN sizes |-> Sized(i, sizes[i])],
      config |-> [candidates |-> c, chars |-> 3]] : sizes \in Seqs(1..4, 4), c \in 1..3}

Batch == <<{Value(1, 1, 1, 1), Value(2, 1, 2, 2)}, {Value(3, 2, 1, 1), Value(4, 2, 2, 2)}>>
Answers ==
    {[kind |-> "answer", batch |-> Batch, blockOf |-> <<1, 2, 2, 3, 4>>,
      answer |-> [i \in DOMAIN facts |-> [fact |-> facts[i], cites |-> cites[i]]]] :
        facts \in Seqs(1..2, 2), cites \in [1..2 -> Seqs({1, 3}, 2) \cup {<<2>>, <<4>>}]}

DecisionsAbout(n, values) ==
    {[assessment |-> n, kind |-> "defer", values |-> << >>],
     [assessment |-> n, kind |-> "confirm_compatible", values |-> << >>]}
      \cup {[assessment |-> n, kind |-> "select_one", values |-> <<v>>] : v \in values}
      \cup {[assessment |-> n, kind |-> "keep_multiple",
             values |-> SetToSortSeq(values, <)]}
Logs ==
    {[kind |-> "decisions", log |-> log,
      assessments |-> {[id |-> 1, candidate |-> 1, batch |-> 1, verdict |-> v],
                       [id |-> 2, candidate |-> 2, batch |-> 1, verdict |-> "conflict"]}] :
        log \in Seqs(DecisionsAbout(1, {1, 2, 3}) \cup DecisionsAbout(2, {4, 5}), 3),
        v \in {"compatible", "insufficient_evidence"}}

\* A block by its raw text; the first two texts are the same once normalized.
BlockOf(run, n, place, raw) ==
    [run |-> run, id |-> run + n, type |-> "paragraph", place |-> place, raw |-> raw,
     text |-> IF raw < 3 THEN 1 ELSE 2]
Revisions(from) ==
    {[i \in DOMAIN s |-> BlockOf(from, i, s[i][1], s[i][2])] :
        s \in {x \in Seqs((1..3) \X (1..3), 2) : \A i, j \in DOMAIN x : i # j => x[i][1] # x[j][1]}}
BlockPairs == [kind: {"blocks"}, base: Revisions(10), target: Revisions(20)]

RowOf(i, f, k) == [value |-> i, link |-> i, fact |-> f, key |-> k, batch |-> 1,
                   proposal |-> i, block |-> i, run |-> 1, blockRun |-> 1]
RowSets == {{RowOf(i, s[i][1], s[i][2]) : i \in DOMAIN s} : s \in Seqs((1..2) \X (1..2), 2)}
Chains == [kind: {"facts"}, first: RowSets, second: RowSets, third: RowSets, order: {<<2, 1>>}]

Schemas == [kind: {"schema"}, steps: Seqs(0..3, 5)]

FieldOf(i, scope, one, group) ==
    [key |-> i, place |-> 3 - i, predicate |-> 1, scope |-> scope, type |-> "text", one |-> one,
     required |-> TRUE, title |-> i = 1, hidden |-> FALSE, group |-> group]
FieldLists == {<<FieldOf(1, s, one, 1), FieldOf(2, t, TRUE, g)>> :
                  s \in 0..1, t \in 0..1, one \in BOOLEAN, g \in 1..2}
FactRow(i, subject, scope, two) ==
    [id |-> i, kind |-> "person", subject |-> subject, predicate |-> 1, scope |-> scope,
     groups |-> IF two THEN <<[type |-> "text", values |-> <<2 * i>>],
                              [type |-> "date", values |-> <<2 * i + 1>>]>>
                ELSE <<[type |-> "text", values |-> <<2 * i>>]>>]
DecidedOf(i, values, verdict, kind) ==
    LET history == IF kind = "none" THEN << >> ELSE <<[id |-> 7, kind |-> kind]>> IN
    EffectiveItem([fact |-> i, assessment |-> i, verdict |-> verdict,
        members |-> [n \in 1..2 |-> [value |-> values[n], links |-> {values[n]}]],
        history |-> history, status |-> ReviewStatus(verdict, history),
        chosen |-> IF kind = "select_one" THEN <<values[1]>>
                   ELSE IF kind = "keep_multiple" THEN values ELSE << >>])
Decided(i, verdict, kind) == DecidedOf(i, <<2 * i, 2 * i + 1>>, verdict, kind)
DecidedLists(i) == {<< >>} \cup {<<Decided(i, "conflict", kind)>> : kind \in {"none", "defer", "select_one", "keep_multiple"}}
                     \cup {<<Decided(i, "compatible", kind)>> : kind \in {"none", "confirm_compatible"}}
Effectives ==
    {<< >>} \cup {<<DecidedOf(f, <<1, 2>>, d[1], d[2])>> :
        f \in 1..2, d \in {<<"conflict", "none">>, <<"conflict", "defer">>,
                           <<"conflict", "select_one">>, <<"compatible", "confirm_compatible">>}}
Impacts == [kind: {"impact"}, first: RowSets, second: RowSets, effective: Effectives]

Views ==
    {[kind |-> "view", fields |-> fields, subjects |-> filter, decided |-> d \o e,
      known |-> <<FactRow(1, 1, s, d # << >>), FactRow(2, subject, t, e # << >>)>>] :
        fields \in FieldLists, filter \in {<< >>, <<2, 1>>}, d \in DecidedLists(1),
        e \in DecidedLists(2), s \in 0..1, t \in 0..1, subject \in 1..2}

SourceOf(s) ==
    [i \in DOMAIN s |-> [id |-> i, run |-> 1, order |-> i - 1, heading |-> s[i][1],
                         size |-> s[i][2]]]
PlanConfigs ==
    {[target |-> t, chars |-> 5, blocks |-> 3, overlap |-> o, headings |-> h, envelope |-> 1] :
        t \in {3, 5}, o \in 0..2, h \in BOOLEAN}
      \cup {[target |-> 3, chars |-> 3, blocks |-> 2, overlap |-> 1, headings |-> TRUE,
             envelope |-> 1]}
Plans ==
    {[kind |-> "plan", blocks |-> SourceOf(s), config |-> c] :
        s \in Seqs(BOOLEAN \X {1, 3}, 4), c \in PlanConfigs}
      \cup {[kind |-> "plan", blocks |-> SourceOf(s), config |-> c] :
        s \in [1..5 -> BOOLEAN \X {1}], c \in PlanConfigs}
      \* a block of another run, a gap, an order and an id that occur twice
      \cup {[kind |-> "plan", blocks |-> SourceOf(s) \o <<b>>, config |-> c] :
        s \in Seqs(BOOLEAN \X {1}, 2), c \in PlanConfigs,
        b \in [id: {1, 9}, run: 1..2, order: {0, 2, 3}, heading: {FALSE}, size: {1}]}
Reply == [status |-> 200, object |-> TRUE, finish |-> "stop", content |-> TRUE, sound |-> TRUE]
Replies ==
    {[Reply EXCEPT !.status = s] : s \in {0, 200, 400, 401, 408, 429, 503}}
      \cup {[Reply EXCEPT !.finish = f, !.sound = b] : f \in Finishes, b \in BOOLEAN}
      \cup {[Reply EXCEPT !.object = FALSE], [Reply EXCEPT !.content = FALSE]}
ReplyLists == {[kind |-> "replies", replies |-> r] : r \in Seqs(Replies, 3) \ {<< >>}}

MCInputs == Streams \cup MCFiles \cup ValueSets \cup Sources \cup Packings \cup Answers
              \cup Logs \cup BlockPairs \cup Chains \cup Impacts \cup Schemas \cup Views
              \cup Plans \cup ReplyLists
=============================================================================
