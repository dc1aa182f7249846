------------------------------- MODULE FactPlanner -------------------------------
(***************************************************************************)
(* How the blocks of an extraction run become the requests of a fact       *)
(* extraction, and what the client of the provider makes of the replies to *)
(* one of them.  Nothing here has state.                                   *)
(*                                                                         *)
(* A block has its id, run, order (from 0), size, the characters it adds   *)
(* to a message, and whether it is a heading.  A config has the limits     *)
(* target, chars and blocks, the overlap and whether headings are shown;   *)
(* envelope are the characters of a message without blocks.  A batch names *)
(* its blocks by their positions, from 1.                                  *)
(***************************************************************************)
EXTENDS Naturals, Sequences, FiniteSets, SequencesExt, FiniteSetsExt,
        RowSequences

NoBlock == 0

\* The blocks of runs; a block adds to a message what its own text and place need.
SourceRows == [id: Nat, run: Nat, order: Nat, size: Nat \ {0}, heading: BOOLEAN]
Configs == [target: Nat, chars: Nat, blocks: Nat, overlap: Nat, headings: BOOLEAN, envelope: Nat]

\* FactExtractionPlannerConfig.validate_ranges
ConfigFits(config) ==
    /\ config.target \in 1..config.chars
    /\ config.overlap < config.blocks

\* _normalize_source_blocks: the blocks as they are ordered, or that they are refused.
InSourceOrder(blocks) ==
    LET places == Stably([i \in DOMAIN blocks |-> blocks[i].order]) IN
    [n \in DOMAIN places |-> blocks[places[n]]]
SourceFits(run, blocks) ==
    LET source == InSourceOrder(blocks) IN
    /\ blocks # << >>
    /\ \A i \in DOMAIN source : source[i].order = i - 1 /\ source[i].run = run
    /\ \A i, j \in DOMAIN source : source[i].id = source[j].id => i = j

\* (Mutant: the block just before is not looked at.)
HeadingBeforeLast(source, cursor) ==
    LET headings == {i \in 1..cursor : i + 1 < cursor /\ source[i].heading} IN
    IF headings = {} THEN NoBlock ELSE Max(headings)

\* _build_latest_heading_before
HeadingBefore(source, cursor) ==
    LET headings == {i \in 1..(cursor - 1) : source[i].heading} IN
    IF headings = {} THEN NoBlock ELSE Max(headings)

\* _build_batch_candidate: what the message would hold, and whether it may be sent.
CharsOf(source, indices, config) ==
    config.envelope
        + FoldFunctionOnSet(+, 0, [i \in DOMAIN source |-> source[i].size], indices)
BatchFits(source, indices, config) ==
    /\ Cardinality(indices) <= config.blocks
    /\ CharsOf(source, indices, config) <= config.chars

Distance(a, b) == IF a > b THEN a - b ELSE b - a

\* (Mutant: the message that first reaches the target is taken, however far it goes.)
EndNearTargetLate(source, base, cursor, config) ==
    LET Chars(e) == CharsOf(source, base \cup cursor..e, config)
        fitting == {e \in cursor..Len(source) :
                       BatchFits(source, base \cup cursor..e, config)}
        reached == {e \in fitting : Chars(e) >= config.target} IN
    IF fitting = {} THEN NoBlock
    ELSE IF reached = {} THEN Max(fitting) ELSE Min(reached)

\* _grow_batch_from_base: the last primary block, with these other blocks already in.
\* A message only grows, so those that fit are the shorter ones.
EndNearTarget(source, base, cursor, config) ==
    LET Chars(e) == CharsOf(source, base \cup cursor..e, config)
        fitting == {e \in cursor..Len(source) :
                       BatchFits(source, base \cup cursor..e, config)}
        reached == {e \in fitting : Chars(e) >= config.target}
        first == Min(reached)
        closer == Distance(config.target, Chars(first))
                    < Distance(config.target, Chars(first - 1)) IN
    IF fitting = {} THEN NoBlock
    ELSE IF reached = {} THEN Max(fitting)
    ELSE IF first = cursor \/ closer THEN first ELSE first - 1

\* previous_tail_indices: the last ones of a batch.
TailOf(final, count) == {i \in final : Cardinality({j \in final : j > i}) < count}

\* The order in which _plan_next_batch tries what surrounds the primary blocks: as
\* much overlap as possible, and for each with the heading before without.
Attempts(tail, heading) ==
    [overlap: {TailOf(tail, n) : n \in 0..Cardinality(tail)}, context: {{}, {heading} \ {NoBlock}}]
Sooner(a, b) ==
    \/ Cardinality(a.overlap) > Cardinality(b.overlap)
    \/ a.overlap = b.overlap /\ b.context \subseteq a.context

\* _plan_next_batch: the next batch, or none if the block at the cursor is too large.
PlanNext(source, cursor, previous, config) ==
    LET tail == TailOf(previous, config.overlap)
        heading == IF config.headings THEN HeadingBefore(source, cursor) ELSE NoBlock
        End(a) == EndNearTarget(source, a.overlap \cup a.context, cursor, config)
        working == {a \in Attempts(tail, heading) :
                       a.context \cap a.overlap = {} /\ End(a) # NoBlock}
        best == CHOOSE a \in working : \A b \in working : Sooner(a, b) IN
    IF working = {} THEN << >>
    ELSE <<[primary |-> cursor..End(best), overlap |-> best.overlap, context |-> best.context]>>

Final(batch) == batch.overlap \cup batch.context \cup batch.primary

\* One round of plan_fact_extraction_batches, given the next batch.
Extended(plan, next) ==
    IF next = << >> THEN [plan EXCEPT !.tooLarge = plan.cursor]
    ELSE [plan EXCEPT !.batches = @ \o next, !.cursor = Max(next[1].primary) + 1]

\* plan_fact_extraction_batches; tooLarge is the block for which planning fails.
Plan(source, config) ==
    LET Previous(batches) == IF batches = << >> THEN {} ELSE Final(Last(batches))
        Round(plan) ==
            IF plan.cursor > Len(source) \/ plan.tooLarge # NoBlock THEN plan
            ELSE Extended(plan, PlanNext(source, plan.cursor, Previous(plan.batches), config)) IN
    FoldLeft(LAMBDA plan, i : Round(plan), [batches |-> << >>, cursor |-> 1, tooLarge |-> NoBlock],
             source)

-----------------------------------------------------------------------------
(* Replies.  One has a status, 0 if the network failed, and of its body        *)
(* whether it is an object with a choice, the finish reason, whether there is  *)
(* content and whether the rest (id, model, usage) is sound.                   *)

Finishes == {"stop", "length", "content_filter", "insufficient_system_resource"}
ReplyRows == [status: Nat, object: BOOLEAN, finish: Finishes, content: BOOLEAN, sound: BOOLEAN]

\* _map_status_error
StatusCode(status) ==
    IF status \in {401, 403} THEN "authentication_failed"
    ELSE IF status = 408 THEN "request_timeout"
    ELSE IF status = 429 THEN "rate_limited"
    ELSE IF status >= 500 THEN "upstream_unavailable"
    ELSE "client_error"
Transient == {"network_error", "request_timeout", "rate_limited", "upstream_unavailable"}

\* _build_completion, in JSON mode as both agents use it.
BodyCode(reply) ==
    IF ~reply.object THEN "invalid"
    ELSE IF reply.finish = "length" THEN "incomplete"
    ELSE IF reply.finish = "insufficient_system_resource" THEN "upstream_unavailable"
    ELSE IF reply.finish # "stop" THEN "invalid"
    ELSE IF ~reply.content THEN "empty"
    ELSE IF ~reply.sound THEN "invalid" ELSE "completed"
ReplyCode(reply) ==
    IF reply.status = 0 THEN "network_error"
    ELSE IF reply.status # 200 THEN StatusCode(reply.status) ELSE BodyCode(reply)

\* _RetrySignal and the retryable errors
AskAgain(code) == code \in Transient \cup {"empty"}

\* (Mutant: what cannot be used is asked for again.)
CompleteUnlessUsable(replies, retries) ==
    LET Ends(i) == i = retries + 1 \/ ReplyCode(replies[i]) \in {"completed", "client_error"}
        n == Min({i \in 1..(retries + 1) : Ends(i)}) IN
    [attempts |-> n, code |-> ReplyCode(replies[n])]

\* OpenAICompatibleClient.complete, given the replies it would get.
Complete(replies, retries) ==
    LET Ends(i) == i = retries + 1 \/ ~AskAgain(ReplyCode(replies[i]))
        n == Min({i \in 1..(retries + 1) : Ends(i)}) IN
    [attempts |-> n, code |-> ReplyCode(replies[n])]

\* classify_fact_extraction_batch_failure and _RETRYABLE_FAILURE_CODES: the errors of
\* the transport, but for a refused key, let the batch be tried again.
BatchIsRetried(code) == code \in Transient \cup {"client_error"}
=============================================================================
