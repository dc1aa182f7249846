------------------------------ MODULE KnowledgeView ------------------------------
(***************************************************************************)
(* A dynamic schema gives facts a form: its versions, the definition a     *)
(* reader takes of one, the facts of a subject put into the fields, the    *)
(* review state of each and the view of a project that is kept as a        *)
(* version.  Nothing here has state.                                       *)
(*                                                                         *)
(* A schema has its current version and the status of each version, by     *)
(* number; a field its key, place, predicate, scope, expected type, group  *)
(* and flags; a fact its id, kind, subject, predicate, scope and groups of *)
(* values that mean the same, each with a type.  Keys are numbers.         *)
(***************************************************************************)
EXTENDS EffectiveValues

FieldRows == [key: Nat, place: Nat, predicate: Nat, scope: Nat, type: STRING, group: Nat,
              one: BOOLEAN, required: BOOLEAN, title: BOOLEAN, hidden: BOOLEAN]
KnownRows == [id: Nat, kind: STRING, subject: Nat, predicate: Nat, scope: Nat,
              groups: Seq([type: STRING, values: Seq(Nat)])]

NoVersion == 0
Unscoped == 0
AnyType == "any"
MostSubjects == 500

-----------------------------------------------------------------------------
(* The versions of a schema.  Each writer holds the row of the schema.     *)

ActiveIn(s) == {v \in DOMAIN s.versions : s.versions[v] = "active"}
NewSchema == [archived |-> FALSE, current |-> NoVersion, versions |-> << >>]

\* create_human_schema_draft, propose_ai_schema_version
WithVersion(s, status) ==
    IF s.archived THEN s ELSE [s EXCEPT !.versions = Append(@, status)]

\* (Mutant: what was retired may be activated again.)
MayActivateAgain(s, v) ==
    /\ IF s.current = NoVersion THEN ActiveIn(s) = {} ELSE ActiveIn(s) = {s.current}
    /\ s.versions[v] # "active"

\* _validate_activation_state
MayActivate(s, v) ==
    /\ IF s.current = NoVersion THEN ActiveIn(s) = {} ELSE ActiveIn(s) = {s.current}
    /\ s.versions[v] \in {"draft", "proposed"}

\* activate_dynamic_schema_version
Activated(s, v) ==
    IF s.archived \/ v \notin DOMAIN s.versions \/ ~MayActivate(s, v) THEN s
    ELSE [s EXCEPT !.current = v,
                   !.versions = [w \in DOMAIN @ |-> IF w = v THEN "active"
                                 ELSE IF w = s.current THEN "retired" ELSE @[w]]]

\* (Mutant: the active versions are not compared with the current one.)
CurrentHoldsAlone(current, v, status, active) ==
    (status = "active") <=> (v = current)

\* _validate_current_state
CurrentHolds(current, v, status, active) ==
    /\ active = IF current = NoVersion THEN {} ELSE {current}
    /\ (status = "active") <=> (v = current)

\* _get_dynamic_schema_definition_snapshot_in_session: the schema, the version and the
\* active versions are read one after the other, from the states s, t and u; a row
\* that was read already keeps what was read first.
DefinitionIsTaken(s, t, u, v) ==
    /\ v \in DOMAIN t.versions
    /\ v \in ActiveIn(u) => t.versions[v] = "active"
    /\ CurrentHolds(s.current, v, t.versions[v], ActiveIn(u))

\* DynamicSchemaVersionInput; asked again of the stored fields
FieldsFit(fields) ==
    /\ fields # << >>
    /\ IsInjective([i \in DOMAIN fields |-> fields[i].key])
    /\ IsInjective([i \in DOMAIN fields |-> fields[i].place])
    /\ Cardinality({i \in DOMAIN fields : fields[i].title}) <= 1
    /\ \A i \in DOMAIN fields : ~(fields[i].title /\ fields[i].hidden)

InPlaceOrder(fields) ==
    LET places == Stably([i \in DOMAIN fields |-> fields[i].place]) IN
    [n \in DOMAIN places |-> fields[places[n]]]

-----------------------------------------------------------------------------
(* The facts of a subject in the fields: the raw projection. *)

\* (Mutant: a field for one value that names no scope takes what has one as well.)
BelongsUnscoped(field, f) ==
    f.predicate = field.predicate /\ (field.scope # Unscoped => f.scope = field.scope)

\* _match_field_facts
Belongs(field, f) ==
    /\ f.predicate = field.predicate
    /\ IF field.scope # Unscoped THEN f.scope = field.scope
       ELSE field.one => f.scope = Unscoped
Matching(field, facts) == Where(facts, LAMBDA f : Belongs(field, f))

\* The projection of the current values refuses what the projection of a run reports.
LiveMatching(field, facts) ==
    SortSeq(Matching(field, facts), LAMBDA f, g :
        f.scope < g.scope \/ (f.scope = g.scope /\ f.id < g.id))

LiveRecord(fields, facts, includeHidden) ==
    LET shown == Where(InPlaceOrder(fields), LAMBDA f : includeHidden \/ ~f.hidden) IN
    [fields |-> [i \in DOMAIN shown |-> LiveMatching(shown[i], facts)],
     missing |-> Where(shown, LAMBDA f : f.required /\ Matching(f, facts) = << >>),
     corrupt |-> \E i \in DOMAIN shown :
                   shown[i].one /\ Len(Matching(shown[i], facts)) > 1]

TypeFits(type, facts) ==
    \A f \in Range(facts) : \A g \in Range(f.groups) : type \in {AnyType, g.type}

Groups(facts) == SumOver([i \in DOMAIN facts |-> Len(facts[i].groups)])
FactValues(f) == FlattenSeq([i \in DOMAIN f.groups |-> f.groups[i].values])

\* The facts of a run: a value is stored once, as one of the values of one fact.
FactsKnown(known) ==
    /\ known \in Seq(KnownRows) /\ IsInjective([i \in DOMAIN known |-> known[i].id])
    /\ \A f \in Range(known) : IsInjective(FactValues(f))
    /\ \A f, g \in Range(known) :
         f # g => Range(FactValues(f)) \cap Range(FactValues(g)) = {}

\* _build_projected_field
IssueKinds == <<"required_missing", "multiple_facts", "multiple_values", "type_mismatch">>
Raised(field, mine) ==
    {issue \in Range(IssueKinds) :
        \/ issue = "required_missing" /\ mine = << >> /\ field.required
        \/ issue = "multiple_facts" /\ field.one /\ Len(mine) > 1
        \/ issue = "multiple_values" /\ field.one /\ Groups(mine) > 1
        \/ issue = "type_mismatch" /\ ~TypeFits(field.type, mine)}
RawField(field, facts) ==
    LET mine == Matching(field, facts) IN
    [field |-> field, facts |-> mine, values |-> Groups(mine), missing |-> mine = << >>,
     issues |-> Where(IssueKinds, LAMBDA issue : issue \in Raised(field, mine))]

IssuesOf(fields) == SumOver([i \in DOMAIN fields |-> Len(fields[i].issues)])
MissingKeys(fields) ==
    LET missing == Where(fields, LAMBDA f : "required_missing" \in Range(f.issues)) IN
    [i \in DOMAIN missing |-> missing[i].field.key]

RawRecord(subject, fields, facts) ==
    LET raw == [i \in DOMAIN fields |-> RawField(fields[i], facts)] IN
    [subject |-> subject, fields |-> raw, missing |-> MissingKeys(raw), issues |-> IssuesOf(raw)]

\* A filter is a list of subjects, each once, or nothing at all.
FilterFits(filter) ==
    filter.given => IsInjective(filter.keys) /\ Len(filter.keys) <= MostSubjects

\* project_orchestration_ufl_to_dynamic_schema
RawProjection(kind, fields, facts, filter) ==
    LET mine == Where(facts, LAMBDA f : f.kind = kind)
        all == Sorted({f.subject : f \in Range(mine)}, <)
        subjects == IF filter.given THEN filter.keys ELSE all
        records == [i \in DOMAIN subjects |->
            RawRecord(subjects[i], InPlaceOrder(fields),
                      Where(mine, LAMBDA f : f.subject = subjects[i]))] IN
    [kind |-> kind, records |-> records, count |-> Len(records),
     fields |-> Len(records) * Len(fields),
     issues |-> SumOver([i \in DOMAIN records |-> records[i].issues]),
     missing |-> SumOver([i \in DOMAIN records |-> Len(records[i].missing)])]

\* authenticate_dynamic_schema_ufl_projected_field: built again of its own facts.
AuthenticRawField(raw, subject, kind) ==
    /\ IsInjective([i \in DOMAIN raw.facts |-> raw.facts[i].id])
    /\ \A f \in Range(raw.facts) : f.subject = subject /\ f.kind = kind
    /\ raw = RawField(raw.field, raw.facts)

SubjectsFit(records, filter) ==
    LET subjects == [i \in DOMAIN records |-> records[i].subject] IN
    /\ IsInjective(subjects)
    /\ IF filter.given THEN subjects = filter.keys
       ELSE \A i, j \in DOMAIN subjects : i < j => subjects[i] < subjects[j]
PlacesRise(fields) ==
    \A i, j \in DOMAIN fields : i < j =>
        \/ fields[i].place < fields[j].place
        \/ fields[i].place = fields[j].place /\ fields[i].key <= fields[j].key

\* authenticate_dynamic_schema_ufl_projection
AuthenticRaw(p, filter) ==
    /\ SubjectsFit(p.records, filter)
    /\ \A r \in Range(p.records) :
         /\ PlacesRise([i \in DOMAIN r.fields |-> r.fields[i].field])
         /\ IsInjective([i \in DOMAIN r.fields |-> r.fields[i].field.key])
         /\ \A f \in Range(r.fields) : AuthenticRawField(f, r.subject, p.kind)
         /\ r.missing = MissingKeys(r.fields) /\ r.issues = IssuesOf(r.fields)
    /\ p.count = Len(p.records) /\ p.fields = SumOver([i \in DOMAIN p.records |-> Len(p.records[i].fields)])
    /\ p.issues = SumOver([i \in DOMAIN p.records |-> p.records[i].issues])
    /\ p.missing = SumOver([i \in DOMAIN p.records |-> Len(p.records[i].missing)])

-----------------------------------------------------------------------------
(* ... with what was decided: the reviewed projection. *)

\* _validate_fact_binding, for every matched fact with a candidate
Binds(fact, e) ==
    LET members == [i \in DOMAIN e.members |-> e.members[i].value] IN
    /\ IsInjective(FactValues(fact))
    /\ IsInjective(members) /\ Range(members) \subseteq Range(FactValues(fact))
    /\ IsInjective(e.resolution.values) /\ Range(e.resolution.values) \subseteq Range(members)

\* (Mutant: a judgement that nobody confirmed needs no review.)
NeedsReviewUnlessCompatible(state) == state \in {"pending_review", "deferred"}

NeedsReview(state) == state \in {"pending_review", "deferred", "unreviewed_compatible"}

\* _build_reviewed_fact
ReviewedFact(fact, effective) ==
    IF \E e \in Range(effective) : e.fact = fact.id
    THEN LET e == CHOOSE e \in Range(effective) : e.fact = fact.id IN
         [fact |-> fact, state |-> e.resolution.status, assessment |-> e.assessment,
          basis |-> e.resolution.basis, decision |-> e.decision, kind |-> e.kind,
          values |-> e.resolution.values, review |-> NeedsReview(e.resolution.status)]
    ELSE [fact |-> fact, state |-> "no_consistency_candidate", assessment |-> 0,
          basis |-> "none", decision |-> NoDecision, kind |-> "none",
          values |-> << >>, review |-> FALSE]

\* The values of a field are those of its resolved facts.
Shown(reviewed) ==
    FlattenSeq([i \in DOMAIN reviewed |->
        IF reviewed[i].state = "resolved" THEN reviewed[i].values ELSE << >>])

ResolvedIn(reviewed) == Cardinality({i \in DOMAIN reviewed : reviewed[i].state = "resolved"})
ReviewsIn(reviewed) == Cardinality({i \in DOMAIN reviewed : reviewed[i].review})
ReviewedField(raw, effective) ==
    LET reviewed == [i \in DOMAIN raw.facts |-> ReviewedFact(raw.facts[i], effective)] IN
    [raw |-> raw, reviewed |-> reviewed, values |-> Shown(reviewed),
     resolved |-> ResolvedIn(reviewed), reviews |-> ReviewsIn(reviewed)]

EachReviewed(records) ==
    UNION {UNION {Range(f.reviewed) : f \in Range(r.fields)} : r \in Range(records)}
Summary(records, Is(_)) == Cardinality({r \in EachReviewed(records) : Is(r)})
Unsettled(records) ==
    SumOver([i \in DOMAIN records |->
        Cardinality({j \in DOMAIN records[i].fields : records[i].fields[j].reviews > 0})])

\* project_reviewed_orchestration_ufl_to_dynamic_schema, of what was authenticated: a
\* fact that several fields match is counted once.
ReviewBinds(p, effective) ==
    \A r \in Range(p.records), e \in Range(effective) :
        \A f \in UNION {Range(x.facts) : x \in Range(r.fields)} : f.id = e.fact => Binds(f, e)

ReviewedProjection(p, effective) ==
    LET records == [i \in DOMAIN p.records |->
            [subject |-> p.records[i].subject, missing |-> p.records[i].missing,
             issues |-> p.records[i].issues,
             fields |-> [j \in DOMAIN p.records[i].fields |->
                           ReviewedField(p.records[i].fields[j], effective)]]] IN
    [kind |-> p.kind, records |-> records, count |-> Len(records),
     facts |-> Summary(records, LAMBDA r : TRUE),
     resolved |-> Summary(records, LAMBDA r : r.state = "resolved"),
     reviews |-> Summary(records, LAMBDA r : r.review),
     free |-> Summary(records, LAMBDA r : r.state = "no_consistency_candidate"),
     fieldReviews |-> Unsettled(records)]

\* _validate_reviewed_fact_shape
ReviewedFits(r) ==
    /\ IsInjective(FactValues(r.fact))
    /\ IF r.state = "resolved"
       THEN /\ ~r.review /\ r.assessment # 0 /\ r.decision # NoDecision
            /\ \/ r.basis = "human_selection" /\ r.kind \in {"select_one", "keep_multiple"}
               \/ r.basis = "human_confirmed_compatibility" /\ r.kind = "confirm_compatible"
            /\ r.values # << >> /\ IsInjective(r.values)
            /\ Range(r.values) \subseteq Range(FactValues(r.fact))
       ELSE /\ r.basis = "none" /\ r.values = << >>
            /\ \/ /\ r.state = "no_consistency_candidate"
                  /\ ~r.review /\ r.assessment = 0 /\ r.kind = "none" /\ r.decision = NoDecision
               \/ /\ r.state \in {"pending_review", "unreviewed_compatible"}
                  /\ r.review /\ r.assessment # 0 /\ r.kind = "none" /\ r.decision = NoDecision
               \/ /\ r.state = "deferred"
                  /\ r.review /\ r.assessment # 0 /\ r.kind = "defer" /\ r.decision # NoDecision

\* authenticate_dynamic_schema_reviewed_field
AuthenticField(f, subject, kind) ==
    /\ AuthenticRawField(f.raw, subject, kind)
    /\ f.raw.facts = [i \in DOMAIN f.reviewed |-> f.reviewed[i].fact]
    /\ \A r \in Range(f.reviewed) : ReviewedFits(r)
    /\ f.resolved = ResolvedIn(f.reviewed) /\ f.reviews = ReviewsIn(f.reviewed)
    /\ f.values = Shown(f.reviewed)

OneReviewEach(records) == OneToOne(EachReviewed(records), LAMBDA r : r.fact.id)

\* authenticate_dynamic_schema_review_projection
AuthenticReviewed(p, filter) ==
    /\ SubjectsFit(p.records, filter) /\ OneReviewEach(p.records)
    /\ \A r \in Range(p.records) :
         LET raw == [i \in DOMAIN r.fields |-> r.fields[i].raw] IN
         /\ PlacesRise([i \in DOMAIN raw |-> raw[i].field])
         /\ IsInjective([i \in DOMAIN raw |-> raw[i].field.key])
         /\ \A f \in Range(r.fields) : AuthenticField(f, r.subject, p.kind)
         /\ r.missing = MissingKeys(raw) /\ r.issues = IssuesOf(raw)
    /\ p.count = Len(p.records)
    /\ p.facts = Summary(p.records, LAMBDA r : TRUE)
    /\ p.resolved = Summary(p.records, LAMBDA r : r.state = "resolved")
    /\ p.reviews = Summary(p.records, LAMBDA r : r.review)
    /\ p.free = Summary(p.records, LAMBDA r : r.state = "no_consistency_candidate")
    /\ p.fieldReviews = Unsettled(p.records)

-----------------------------------------------------------------------------
(* The knowledge view. *)

\* (Mutant: a field with a resolved fact is resolved.)
KnowledgeStateByAny(f) ==
    LET states == {r.state : r \in Range(f.reviewed)} IN
    IF f.raw.missing THEN "missing"
    ELSE IF "resolved" \in states THEN "resolved"
    ELSE IF f.reviews > 0 THEN "review_required" ELSE "observation_only"

\* _build_knowledge_state
KnowledgeState(f) ==
    LET states == {r.state : r \in Range(f.reviewed)} IN
    IF f.raw.missing THEN "missing"
    ELSE IF \E r \in Range(f.reviewed) : r.review THEN "review_required"
    ELSE IF states = {"resolved"} THEN "resolved"
    ELSE IF states = {"no_consistency_candidate"} THEN "observation_only"
    ELSE "mixed_reviewed_observation"

KnowledgeStates == {"missing", "review_required", "resolved", "observation_only",
                    "mixed_reviewed_observation"}

\* _build_knowledge_field
KnowledgeField(f) ==
    [raw |-> f.raw, reviewed |-> f.reviewed, values |-> f.values, state |-> KnowledgeState(f),
     observed |-> SumOver([i \in DOMAIN f.reviewed |-> Len(FactValues(f.reviewed[i].fact))]),
     meanings |-> SumOver([i \in DOMAIN f.reviewed |-> Len(f.reviewed[i].fact.groups)]),
     issues |-> f.raw.issues # << >>]

\* _build_sections: groups in the order of their first field
GroupOf(f) == f.raw.field.group
Leaders(fields) ==
    {i \in DOMAIN fields : \A j \in 1..(i - 1) : GroupOf(fields[j]) # GroupOf(fields[i])}
SectionOf(fields, i) ==
    [group |-> GroupOf(fields[i]), place |-> fields[i].raw.field.place,
     fields |-> Where(fields, LAMBDA f : GroupOf(f) = GroupOf(fields[i]))]
Sections(fields) ==
    LET leaders == Sorted(Leaders(fields), <) IN
    [n \in DOMAIN leaders |-> SectionOf(fields, leaders[n])]

FieldsIn(record) == FlattenSeq([i \in DOMAIN record.sections |-> record.sections[i].fields])
Titles(fields) == Where(fields, LAMBDA f : f.raw.field.title)
TitleOf(fields) == IF Titles(fields) = << >> THEN 0 ELSE Titles(fields)[1].raw.field.key

ViewCounts(records) ==
    LET fields == FlattenSeq([i \in DOMAIN records |-> FieldsIn(records[i])]) IN
    [records |-> Len(records), fields |-> Len(fields),
     sections |-> SumOver([i \in DOMAIN records |-> Len(records[i].sections)]),
     states |-> [s \in KnowledgeStates |-> Cardinality({i \in DOMAIN fields : fields[i].state = s})]]

\* build_dynamic_schema_knowledge_view
KnowledgeRecord(r) ==
    LET fields == [i \in DOMAIN r.fields |-> KnowledgeField(r.fields[i])] IN
    [subject |-> r.subject, title |-> TitleOf(fields), issues |-> r.issues,
     review |-> \E f \in Range(r.fields) : f.reviews > 0, sections |-> Sections(fields)]
View(p) ==
    LET records == [i \in DOMAIN p.records |-> KnowledgeRecord(p.records[i])] IN
    [kind |-> p.kind, records |-> records, counts |-> ViewCounts(records)]

\* What a field of a view says of the field it was made of
AsReviewed(f) ==
    [raw |-> f.raw, reviewed |-> f.reviewed, values |-> f.values,
     resolved |-> ResolvedIn(f.reviewed), reviews |-> ReviewsIn(f.reviewed)]

\* authenticate_dynamic_schema_knowledge_view
AuthenticView(view, filter) ==
    /\ SubjectsFit(view.records, filter)
    /\ OneToOne(UNION {UNION {Range(f.reviewed) : f \in Range(FieldsIn(r))} : r \in Range(view.records)},
                LAMBDA r : r.fact.id)
    /\ \A r \in Range(view.records) :
         LET fields == FieldsIn(r) IN
         /\ Len(Titles(fields)) <= 1 /\ r.title = TitleOf(fields)
         /\ r.sections = Sections(fields)
         /\ \A f \in Range(fields) :
              /\ AuthenticField(AsReviewed(f), r.subject, view.kind)
              /\ f = KnowledgeField(AsReviewed(f)) /\ f.meanings = f.raw.values
         /\ r.review <=> \E f \in Range(fields) : f.state = "review_required"
         /\ r.issues = IssuesOf([i \in DOMAIN fields |-> fields[i].raw])
    /\ view.counts = ViewCounts(view.records)

-----------------------------------------------------------------------------
(* A view that is kept: the content of a version of the project. *)

Everything == [given |-> FALSE, keys |-> << >>]

Kept(view, kind, copied) ==
    [view |-> view, counts |-> view.counts, kind |-> kind, copied |-> copied]

\* authenticate_project_version_snapshot, _assert_snapshot_matches_knowledge_view
AuthenticVersion(version) ==
    /\ version.kind = "rollback" <=> version.copied # NoVersion
    /\ AuthenticView(version.view, Everything) /\ version.counts = version.view.counts
    /\ version.counts.fields = SumOver(version.counts.states)
==================================================================================
