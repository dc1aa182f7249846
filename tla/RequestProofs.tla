------------------------------- MODULE RequestProofs ------------------------------
(* Proofs about the requests that FactPlanner and DuplicateGrouping build for the      *)
(* model: the blocks and the evidence of a request, the packing of candidates into     *)
(* batches, and the plan of the blocks of a source, for any blocks, candidates and     *)
(* limits.                                                                             *)
EXTENDS OperatorProofs, FactPlanner

-----------------------------------------------------------------------------
(* Answers and replies. *)

LEMMA RangeReversed ==
    ASSUME NEW E, NEW s \in Seq(E)
    PROVE  /\ Range(Reverse(s)) = Range(s) /\ Reverse(s) \in Seq(E) /\ Len(Reverse(s)) = Len(s)
           /\ \A i \in 1..Len(s) : Reverse(s)[i] = s[(Len(s) - i) + 1]
<1> DEFINE n == Len(s)
           t == Reverse(s)
<1>1. n \in Nat /\ DOMAIN s = 1..n
  OBVIOUS
<1>2. t = [i \in 1..n |-> s[(n - i) + 1]]
  BY DEF Reverse
<1>3. DOMAIN t = 1..n /\ \A i \in 1..n : t[i] = s[(n - i) + 1] /\ (n - i) + 1 \in 1..n
  BY <1>1, <1>2
<1>4. t \in [1..n -> E]
  <2>1. \A i \in 1..n : s[(n - i) + 1] \in E
    <3>. QED BY <1>1, <1>3
  <2>. HIDE DEF t, n
  <2>. QED BY <1>2, <2>1
<1>5. t \in Seq(E) /\ Len(t) = n
  BY <1>1, <1>4
<1>6. \A i \in 1..n : s[i] = t[(n - i) + 1] /\ (n - i) + 1 \in 1..n
  <2>1. \A i \in 1..n : (n - i) + 1 \in 1..n /\ (n - ((n - i) + 1)) + 1 = i
    BY <1>1
  <2>. QED BY <1>3, <2>1
<1>. HIDE DEF t, n
<1>7. Range(t) = Range(s)
  BY <1>1, <1>3, <1>6 DEF Range
<1>. QED BY <1>3, <1>5, <1>7 DEF t, n

LEMMA OrderIsLost ==
    ASSUME NEW batch, NEW E, NEW answer \in Seq(E)
    PROVE  Ordered(batch, answer) = Ordered(batch, Reverse(answer))
BY RangeReversed DEF Ordered, AssessmentOf

\* Candidates are of different facts, and the evidence of each is its own.
LEMMA EvidenceApart ==
    ASSUME NEW batch, CandidatesGiven(batch), NEW C \in Range(batch), NEW D \in Range(batch),
           FactOf(C) # FactOf(D)
    PROVE  LinksOf(C) \cap LinksOf(D) = {}
<1>1. \A v \in C : v.fact = FactOf(C)
  BY DEF CandidatesGiven, FactOf
<1>2. \A v \in D : v.fact = FactOf(D)
  BY DEF CandidatesGiven, FactOf
<1>3. \A v \in C, w \in D : v # w
  BY <1>1, <1>2
<1>4. \A v \in C, w \in D : v \in UNION Range(batch) /\ w \in UNION Range(batch)
  OBVIOUS
<1>5. \A v, w \in UNION Range(batch) : v # w => v.links \cap w.links = {}
  BY DEF CandidatesGiven, ValuesGiven
<1>6. \A v \in C, w \in D : v.links \cap w.links = {}
  BY <1>3, <1>4, <1>5
<1>. QED BY <1>6 DEF LinksOf

LEMMA CitesOwn ==
    ASSUME NEW batch, CandidatesGiven(batch), NEW answer, Acceptable(batch, answer),
           NEW a \in Range(answer), NEW C \in Range(batch), FactOf(C) # a.fact
    PROVE  Range(a.cites) \cap LinksOf(C) = {}
<1>1. \E D \in Range(batch) : FactOf(D) = a.fact
  BY DEF Acceptable
<1> DEFINE D == CandidateFor(batch, a.fact)
<1>2. D \in Range(batch) /\ FactOf(D) = a.fact
  BY <1>1 DEF CandidateFor
<1>3. Range(a.cites) \subseteq LinksOf(D)
  BY DEF Acceptable, CitesCandidate
<1>. HIDE DEF D
<1>4. LinksOf(C) \cap LinksOf(D) = {}
  BY <1>2, EvidenceApart
<1>. QED BY <1>3, <1>4

LEMMA MinIs ==
    ASSUME NEW S \in SUBSET Nat, S # {}
    PROVE  Min(S) \in S /\ \A y \in S : Min(S) <= y
BY LeastNumber DEF Min

\* A request ends with the first reply that ends it, or when no more may be asked for.
CompletesAt(replies, retries, n) ==
    /\ n \in 1..(retries + 1) /\ Complete(replies, retries).attempts = n
    /\ Complete(replies, retries).code = ReplyCode(replies[n])
    /\ n = retries + 1 \/ ~AskAgain(ReplyCode(replies[n]))
    /\ \A j \in 1..(n - 1) : AskAgain(ReplyCode(replies[j]))

LEMMA CompletesOnce ==
    ASSUME NEW replies, NEW retries \in Nat
    PROVE  \E n : CompletesAt(replies, retries, n)
<1> DEFINE Ends(i) == i = retries + 1 \/ ~AskAgain(ReplyCode(replies[i]))
           S == {i \in 1..(retries + 1) : Ends(i)}
           n == Min(S)
<1>1. /\ Complete(replies, retries).attempts = n
      /\ Complete(replies, retries).code = ReplyCode(replies[n])
  BY DEF Complete
<1>2. S \in SUBSET Nat /\ retries + 1 \in S
  OBVIOUS
<1>3. n \in S /\ \A y \in S : n <= y
  <2>. HIDE DEF S
  <2>. QED BY <1>2, MinIs
<1>. HIDE DEF n
<1>4. \A j \in 1..(n - 1) : AskAgain(ReplyCode(replies[j]))
  <2>. SUFFICES ASSUME NEW j \in 1..(n - 1), ~AskAgain(ReplyCode(replies[j])) PROVE FALSE
    OBVIOUS
  <2>1. j \in S
    BY <1>3
  <2>. QED BY <1>3, <2>1
<1>5. n \in 1..(retries + 1) /\ (n = retries + 1 \/ ~AskAgain(ReplyCode(replies[n])))
  BY <1>3
<1>. QED BY <1>1, <1>4, <1>5 DEF CompletesAt

LinkBlocks(links, blockOf) ==
    LET order == Sorted(links, <) IN [n \in DOMAIN order |-> blockOf[order[n]]]
CandidateBlocks(C, blockOf) ==
    FlattenSeq([j \in DOMAIN Members(C) |-> LinkBlocks(Members(C)[j].links, blockOf)])
BlocksAt(links, blockOf) == {blockOf[l] : l \in links}

LEMMA LinkBlocksAre ==
    ASSUME NEW links \in SUBSET Nat, IsFiniteSet(links), NEW blockOf, links \subseteq DOMAIN blockOf
    PROVE  /\ LinkBlocks(links, blockOf) \in Seq(Range(blockOf))
           /\ Range(LinkBlocks(links, blockOf)) = BlocksAt(links, blockOf)
<1> DEFINE order == Sorted(links, <)
           s == LinkBlocks(links, blockOf)
           n == Len(order)
<1>1. Lists(order, links) /\ order \in Seq(links)
  BY NumbersSorted
<1>2. s = [i \in DOMAIN order |-> blockOf[order[i]]]
  BY DEF LinkBlocks
<1>. HIDE DEF order, s
<1>3. n \in Nat /\ DOMAIN order = 1..n
  BY <1>1
<1>4. \A i \in 1..n : order[i] \in links /\ blockOf[order[i]] \in Range(blockOf)
  BY <1>1, <1>3 DEF Lists, Range
<1>5. \A x \in links : \E i \in 1..n : order[i] = x
  BY <1>1, <1>3 DEF Lists
<1>6. DOMAIN s = 1..n /\ \A i \in 1..n : s[i] = blockOf[order[i]]
  BY <1>2, <1>3
<1>7. s \in [1..n -> Range(blockOf)]
  <2>. HIDE DEF n
  <2>. QED BY <1>2, <1>3, <1>4
<1>8. s \in Seq(Range(blockOf))
  BY <1>3, <1>7
<1>9. Range(s) = BlocksAt(links, blockOf)
  <2>1. ASSUME NEW x \in Range(s) PROVE x \in BlocksAt(links, blockOf)
    <3>1. PICK i \in 1..n : s[i] = x
      BY <1>6 DEF Range
    <3>. QED BY <1>4, <1>6, <3>1 DEF BlocksAt
  <2>2. \A x \in BlocksAt(links, blockOf) : x \in Range(s)
    BY <1>5, <1>6 DEF Range, BlocksAt
  <2>. QED BY <2>1, <2>2
<1>. QED BY <1>8, <1>9 DEF s

LEMMA CandidateBlocksAre ==
    ASSUME NEW C \in SUBSET ValueRows, IsFiniteSet(C), \A v, w \in C : v.id = w.id => v = w,
           \A v \in C : IsFiniteSet(v.links), NEW blockOf, LinksOf(C) \subseteq DOMAIN blockOf
    PROVE  /\ CandidateBlocks(C, blockOf) \in Seq(Range(blockOf))
           /\ Range(CandidateBlocks(C, blockOf)) = BlocksAt(LinksOf(C), blockOf)
<1> DEFINE M == Members(C)
           n == Len(M)
           E == Range(blockOf)
           seqs == [j \in DOMAIN M |-> LinkBlocks(M[j].links, blockOf)]
<1>1. Lists(M, C) /\ M \in Seq(C)
  BY MembersList
<1>2. CandidateBlocks(C, blockOf) = FlattenSeq(seqs)
  BY DEF CandidateBlocks
<1>. HIDE DEF M
<1>3. n \in Nat /\ DOMAIN M = 1..n
  BY <1>1
<1>4. \A j \in 1..n : M[j] \in C /\ seqs[j] = LinkBlocks(M[j].links, blockOf)
  BY <1>1, <1>3 DEF Lists
<1>5. seqs = [j \in 1..n |-> seqs[j]]
  BY <1>3
<1>. HIDE DEF seqs, n, E
<1>6. \A v \in C : v.links \in SUBSET Nat /\ v.links \subseteq DOMAIN blockOf
  BY DEF ValueRows, LinksOf
<1>7. \A j \in 1..n : seqs[j] \in Seq(E) /\ Range(seqs[j]) = BlocksAt(M[j].links, blockOf)
  <2>. SUFFICES ASSUME NEW j \in 1..n
                PROVE  seqs[j] \in Seq(E) /\ Range(seqs[j]) = BlocksAt(M[j].links, blockOf)
    OBVIOUS
  <2>1. M[j].links \in SUBSET Nat /\ IsFiniteSet(M[j].links) /\ M[j].links \subseteq DOMAIN blockOf
    BY <1>4, <1>6
  <2>. QED BY <1>4, <2>1, LinkBlocksAre DEF E
<1>8. seqs \in [1..n -> Seq(E)]
  BY <1>5, <1>7
<1>9. seqs \in Seq(Seq(E)) /\ Len(seqs) = n
  BY <1>3, <1>8
<1>10. Range(FlattenSeq(seqs)) = RangesTo(seqs, n) /\ FlattenSeq(seqs) \in Seq(E)
  BY <1>9, FlattenRange
<1>11. RangesTo(seqs, n) = BlocksAt(LinksOf(C), blockOf)
  <2>1. \A x \in RangesTo(seqs, n) : x \in BlocksAt(LinksOf(C), blockOf)
    BY <1>4, <1>7 DEF RangesTo, BlocksAt, LinksOf
  <2>2. ASSUME NEW l \in LinksOf(C) PROVE blockOf[l] \in RangesTo(seqs, n)
    <3>1. PICK v \in C : l \in v.links
      BY DEF LinksOf
    <3>2. PICK j \in 1..n : M[j] = v
      BY <1>1, <1>3 DEF Lists
    <3>3. blockOf[l] \in Range(seqs[j])
      BY <1>7, <3>1, <3>2 DEF BlocksAt
    <3>. QED BY <3>3 DEF RangesTo
  <2>. QED BY <2>1, <2>2 DEF BlocksAt
<1>. QED BY <1>2, <1>10, <1>11 DEF E

BatchLinks(batch) == UNION {LinksOf(C) : C \in Range(batch)}

LEMMA BlocksNamedAre ==
    ASSUME NEW batch, CandidatesGiven(batch), NEW blockOf,
           \A C \in Range(batch) : LinksOf(C) \subseteq DOMAIN blockOf
    PROVE  /\ BlocksNamed(batch, blockOf) \in Seq(Range(blockOf))
           /\ Range(BlocksNamed(batch, blockOf)) = BlocksAt(BatchLinks(batch), blockOf)
<1> DEFINE n == Len(batch)
           E == Range(blockOf)
           seqs == [i \in DOMAIN batch |-> CandidateBlocks(batch[i], blockOf)]
<1>1. BlocksNamed(batch, blockOf) = FlattenSeq(seqs)
  BY DEF BlocksNamed, CandidateBlocks, LinkBlocks
<1>2. batch \in Seq(SUBSET ValueRows)
  BY DEF CandidatesGiven
<1>3. n \in Nat /\ DOMAIN batch = 1..n /\ \A i \in 1..n : batch[i] \in Range(batch)
  BY <1>2 DEF Range
<1>4. \A C \in Range(batch) : \E i \in 1..n : C = batch[i]
  BY <1>3 DEF Range
<1>5. seqs = [i \in 1..n |-> seqs[i]] /\ \A i \in 1..n : seqs[i] = CandidateBlocks(batch[i], blockOf)
  BY <1>3
<1>. HIDE DEF seqs, n, E
<1>6. \A C \in Range(batch) :
         /\ C \in SUBSET ValueRows /\ IsFiniteSet(C) /\ \A v \in C : IsFiniteSet(v.links)
         /\ \A v, w \in C : v.id = w.id => v = w
  <2>. SUFFICES ASSUME NEW C \in Range(batch)
                PROVE  /\ C \in SUBSET ValueRows /\ IsFiniteSet(C) /\ \A v \in C : IsFiniteSet(v.links)
                       /\ \A v, w \in C : v.id = w.id => v = w
    OBVIOUS
  <2> DEFINE U == UNION Range(batch)
  <2>1. C \subseteq U
    OBVIOUS
  <2>2. ValuesGiven(U)
    BY DEF CandidatesGiven
  <2>. HIDE DEF U
  <2>3. IsFiniteSet(C)
    BY <2>1, <2>2, FS_Subset DEF ValuesGiven
  <2>. QED BY <2>1, <2>2, <2>3 DEF ValuesGiven
<1>7. \A i \in 1..n : seqs[i] \in Seq(E) /\ Range(seqs[i]) = BlocksAt(LinksOf(batch[i]), blockOf)
  <2>. SUFFICES ASSUME NEW i \in 1..n
                PROVE  seqs[i] \in Seq(E) /\ Range(seqs[i]) = BlocksAt(LinksOf(batch[i]), blockOf)
    OBVIOUS
  <2> DEFINE C == batch[i]
  <2>1. C \in Range(batch)
    BY <1>3
  <2>. HIDE DEF C
  <2>2. /\ C \in SUBSET ValueRows /\ IsFiniteSet(C) /\ \A v \in C : IsFiniteSet(v.links)
        /\ \A v, w \in C : v.id = w.id => v = w
        /\ LinksOf(C) \subseteq DOMAIN blockOf
    BY <1>6, <2>1
  <2>3. /\ CandidateBlocks(C, blockOf) \in Seq(Range(blockOf))
        /\ Range(CandidateBlocks(C, blockOf)) = BlocksAt(LinksOf(C), blockOf)
    BY <2>2, CandidateBlocksAre
  <2>. QED BY <1>5, <2>3 DEF C, E
<1>8. seqs \in [1..n -> Seq(E)]
  BY <1>5, <1>7
<1>9. seqs \in Seq(Seq(E)) /\ Len(seqs) = n
  BY <1>3, <1>8
<1>10. Range(FlattenSeq(seqs)) = RangesTo(seqs, n) /\ FlattenSeq(seqs) \in Seq(E)
  BY <1>9, FlattenRange
<1>11. RangesTo(seqs, n) = BlocksAt(BatchLinks(batch), blockOf)
  <2>1. ASSUME NEW x \in RangesTo(seqs, n) PROVE x \in BlocksAt(BatchLinks(batch), blockOf)
    <3>1. PICK i \in 1..n : x \in Range(seqs[i])
      BY DEF RangesTo
    <3>2. PICK l \in LinksOf(batch[i]) : x = blockOf[l]
      BY <1>7, <3>1 DEF BlocksAt
    <3>3. l \in BatchLinks(batch)
      BY <1>3 DEF BatchLinks
    <3>. QED BY <3>2, <3>3 DEF BlocksAt
  <2>2. ASSUME NEW l \in BatchLinks(batch) PROVE blockOf[l] \in RangesTo(seqs, n)
    <3>1. PICK i \in 1..n : l \in LinksOf(batch[i])
      BY <1>4 DEF BatchLinks
    <3>2. blockOf[l] \in Range(seqs[i])
      BY <1>7, <3>1 DEF BlocksAt
    <3>. QED BY <3>2 DEF RangesTo
  <2>. QED BY <2>1, <2>2 DEF BlocksAt
<1>. QED BY <1>1, <1>10, <1>11 DEF E

LEMMA BlocksOfBatch ==
    ASSUME NEW batch, CandidatesGiven(batch), NEW blockOf,
           \A C \in Range(batch) : LinksOf(C) \subseteq DOMAIN blockOf
    PROVE  /\ BlocksOf(batch, blockOf) \in Seq(Range(blockOf)) /\ IsInjective(BlocksOf(batch, blockOf))
           /\ Range(BlocksOf(batch, blockOf)) = BlocksAt(BatchLinks(batch), blockOf)
<1> DEFINE seq == BlocksNamed(batch, blockOf)
<1>1. BlocksOf(batch, blockOf) = EachOnce(seq)
  BY DEF BlocksOf, EachOnce, Noted
<1>2. seq \in Seq(Range(blockOf)) /\ Range(seq) = BlocksAt(BatchLinks(batch), blockOf)
  BY BlocksNamedAre
<1>. HIDE DEF seq
<1>. QED BY <1>1, <1>2, EachIsNoted

\* An input with the blocks of a batch and their contents.
MadeOf(named, content) == [i \in DOMAIN named |-> [block |-> named[i], content |-> content[named[i]]]]

LEMMA InputTells ==
    ASSUME NEW E, NEW named \in Seq(E), NEW batch, NEW blockOf, named = BlocksOf(batch, blockOf),
           NEW before, NEW content
    PROVE  /\ Materialized(MadeOf(named, before), batch, blockOf, content) <=>
                \A b \in Range(named) : before[b] = content[b]
           /\ \A i \in DOMAIN named :
                ~Materialized(RemoveAt(MadeOf(named, before), i), batch, blockOf, content)
<1> DEFINE made == MadeOf(named, before)
           n == Len(named)
<1>1. n \in Nat /\ DOMAIN named = 1..n /\ named = [i \in 1..n |-> named[i]]
  OBVIOUS
<1>2. /\ made = [i \in 1..n |-> [block |-> named[i], content |-> before[named[i]]]]
      /\ DOMAIN made = 1..n
      /\ \A i \in 1..n : made[i].block = named[i] /\ made[i].content = before[named[i]]
  BY <1>1 DEF MadeOf
<1>. HIDE DEF made, n
<1>3. [i \in DOMAIN made |-> made[i].block] = named
  BY <1>1, <1>2
<1>4. \A b \in Range(named) : \E i \in 1..n : named[i] = b
  BY <1>1 DEF Range
<1>5. \A i \in 1..n : named[i] \in Range(named)
  BY <1>1 DEF Range
<1>6. Materialized(made, batch, blockOf, content) <=> \A b \in Range(named) : before[b] = content[b]
  BY <1>2, <1>3, <1>4, <1>5 DEF Materialized
<1>7. ASSUME NEW i \in DOMAIN named PROVE ~Materialized(RemoveAt(made, i), batch, blockOf, content)
  <2> DEFINE R == {made[j] : j \in 1..n}
             left == RemoveAt(made, i)
  <2>1. made \in Seq(R) /\ Len(made) = n
    <3>1. made \in [1..n -> R]
      BY <1>2
    <3>. QED BY <1>1, <1>2, <3>1
  <2>2. left \in Seq(R) /\ Len(left) = n - 1
    <3>1. i \in 1..Len(made)
      BY <1>1, <2>1
    <3>. HIDE DEF R
    <3>. QED BY <2>1, <3>1, RemovedIs
  <2>. HIDE DEF R, left
  <2>3. DOMAIN left = 1..(n - 1)
    BY <2>2
  <2>4. n \notin 1..(n - 1) /\ n \in 1..n
    BY <1>1
  <2>5. DOMAIN [j \in DOMAIN left |-> left[j].block] # DOMAIN named
    BY <1>1, <2>3, <2>4
  <2>. QED BY <2>5 DEF Materialized, left
<1>. QED BY <1>6, <1>7 DEF made

-----------------------------------------------------------------------------
(* The blocks of a run. *)

ComesBefore(blocks, i, j) ==
    \/ blocks[i].order < blocks[j].order
    \/ blocks[i].order = blocks[j].order /\ i < j
Places(blocks) == Stably([i \in DOMAIN blocks |-> blocks[i].order])

LEMMA PlacesInOrder ==
    ASSUME NEW blocks \in Seq(SourceRows)
    PROVE  /\ Lists(Places(blocks), 1..Len(blocks))
           /\ \A k, l \in 1..Len(blocks) : k < l => ComesBefore(blocks, Places(blocks)[k], Places(blocks)[l])
<1> DEFINE n == Len(blocks)
           D == 1..n
           key == [i \in DOMAIN blocks |-> blocks[i].order]
<1>1. n \in Nat /\ DOMAIN blocks = D /\ \A i \in D : blocks[i] \in SourceRows
  OBVIOUS
<1>2. \A i \in D : key[i] = blocks[i].order
  BY <1>1
<1>3. DOMAIN key = 1..n
  BY <1>1
<1>4. Places(blocks) = Stably(key)
  BY DEF Places
<1>. HIDE DEF n, key
<1>5. \A i \in D : blocks[i].order \in Nat
  <2>. HIDE DEF D
  <2>. QED BY <1>1 DEF SourceRows
<1>6. \A i \in 1..n : key[i] \in Nat
  BY <1>2, <1>5
<1> DEFINE s == Stably(key)
<1>7. Lists(s, 1..n) /\ \A k, l \in 1..n : k < l => KeyBefore(key, s[k], s[l])
  BY <1>1, <1>3, <1>6, StablyIs
<1>. HIDE DEF s
<1>8. \A k \in D : s[k] \in D
  BY <1>1, <1>7, CountTo DEF Lists
<1>9. \A k, l \in D : k < l => ComesBefore(blocks, s[k], s[l])
  BY <1>2, <1>7, <1>8 DEF KeyBefore, ComesBefore
<1>. QED BY <1>4, <1>7, <1>9 DEF n, s

\* Blocks that are those of the run: their orders are the numbers from 0, each once.
InPlaces(blocks, n) ==
    /\ n # 0
    /\ \A i \in 1..n : blocks[i].order \in 0..(n - 1) /\ blocks[i].run = 1
    /\ \A i, j \in 1..n : blocks[i].order = blocks[j].order => i = j
    /\ \A i, j \in 1..n : blocks[i].id = blocks[j].id => i = j

\* The source has every block at its order.
AtOrder(source, blocks, n) ==
    /\ DOMAIN source = 1..n /\ source = [k \in 1..n |-> source[k]]
    /\ \A k \in 1..n : source[k].order = k - 1 /\ \E i \in 1..n : source[k] = blocks[i]

\* The source lists the blocks, p telling the place of each.
Arranges(p, source, blocks, n) ==
    /\ DOMAIN source = 1..n /\ source = [k \in 1..n |-> source[k]]
    /\ \A k \in 1..n : p[k] \in 1..n /\ source[k] = blocks[p[k]]
    /\ \A i \in 1..n : \E k \in 1..n : p[k] = i
    /\ \A k, l \in 1..n : p[k] = p[l] => k = l
    /\ \A k, l \in 1..n : k < l => ComesBefore(blocks, p[k], p[l])

LEMMA SourceListed ==
    ASSUME NEW blocks \in Seq(SourceRows), NEW n \in Nat, n = Len(blocks)
    PROVE  Arranges(Places(blocks), InSourceOrder(blocks), blocks, n)
<1> DEFINE p == Places(blocks)
           source == InSourceOrder(blocks)
<1>1. Lists(p, 1..n) /\ \A k, l \in 1..n : k < l => ComesBefore(blocks, p[k], p[l])
  BY PlacesInOrder
<1>2. source = [k \in DOMAIN p |-> blocks[p[k]]]
  BY DEF InSourceOrder, Places, ComesBefore
<1>3. Cardinality(1..n) = n
  BY CountTo
<1>. HIDE DEF p, source
<1>4. DOMAIN p = 1..n
  BY <1>1, <1>3 DEF Lists
<1>5. /\ \A k \in 1..n : p[k] \in 1..n
      /\ \A i \in 1..n : \E k \in 1..n : p[k] = i
      /\ \A k, l \in 1..n : p[k] = p[l] => k = l
  BY <1>1, <1>4 DEF Lists
<1>6. \A k \in 1..n : source[k] = blocks[p[k]]
  BY <1>2, <1>4
<1>7. DOMAIN source = 1..n /\ source = [k \in 1..n |-> source[k]]
  BY <1>2, <1>4
<1>8. Arranges(p, source, blocks, n)
  BY <1>1, <1>5, <1>6, <1>7 DEF Arranges
<1>. QED BY <1>8 DEF p, source

LEMMA PlacedInOrder ==
    ASSUME NEW blocks \in Seq(SourceRows), NEW n \in Nat, n = Len(blocks), InPlaces(blocks, n)
    PROVE  AtOrder(InSourceOrder(blocks), blocks, n)
<1> DEFINE source == InSourceOrder(blocks)
           p == Places(blocks)
           f == [i \in 1..n |-> blocks[i].order]
           order == [k \in 1..n |-> source[k].order]
           up == [k \in 1..n |-> k - 1]
           D == 1..n
           P == {f[i] : i \in D}
           N == 0..(n - 1)
<1>0. Arranges(p, source, blocks, n)
  BY SourceListed
<1>. HIDE DEF p, source
<1>1. /\ \A k \in D : p[k] \in D /\ source[k] = blocks[p[k]]
      /\ \A i \in D : \E k \in D : p[k] = i
      /\ \A k, l \in D : p[k] = p[l] => k = l
      /\ \A k, l \in D : k < l => ComesBefore(blocks, p[k], p[l])
  BY <1>0 DEF Arranges
<1>2. \A i \in D : f[i] = blocks[i].order /\ f[i] \in N
  BY DEF InPlaces
<1>3. \A i, j \in D : f[i] = f[j] => i = j
  BY DEF InPlaces
<1>4. P = N
  <2>1. IsFiniteSet(D) /\ Cardinality(D) = n
    BY CountTo
  <2>2. Cardinality(P) = n
    <3>. HIDE DEF f, D
    <3>. QED BY <1>3, <2>1, ManyAs
  <2>3. IsFiniteSet(N) /\ Cardinality(N) = n
    <3>1. 0 \in Int /\ n - 1 \in Int
      OBVIOUS
    <3>2. IsFiniteSet(0..(n - 1)) /\ Cardinality(0..(n - 1)) = IF 0 > n - 1 THEN 0 ELSE (n - 1) - 0 + 1
      BY <3>1, FS_Interval
    <3>. QED BY <3>2
  <2>4. P \subseteq N
    BY <1>2
  <2>. HIDE DEF P, N
  <2>. QED BY <2>2, <2>3, <2>4, FS_Subset
<1>. HIDE DEF f
<1>5. \A k \in D : order[k] = f[p[k]]
  <2>1. \A k \in D : order[k] = source[k].order
    OBVIOUS
  <2>. HIDE DEF D, order
  <2>. QED BY <1>1, <1>2, <2>1
<1>6. Enumerates(order, P, n)
  <2>1. DOMAIN order = 1..n /\ order = [k \in 1..n |-> order[k]]
    OBVIOUS
  <2>5. \A i \in D : f[i] \in P
    OBVIOUS
  <2>6. \A x \in P : \E i \in D : f[i] = x
    OBVIOUS
  <2>. HIDE DEF order, P, D
  <2>2. \A k \in D : order[k] \in P
    BY <1>1, <1>5, <2>5
  <2>3. \A x \in P : \E k \in D : order[k] = x
    BY <1>1, <1>5, <2>6
  <2>4. \A k, l \in D : k < l => order[k] < order[l]
    <3>. SUFFICES ASSUME NEW k \in D, NEW l \in D, k < l PROVE order[k] < order[l]
      OBVIOUS
    <3>0. k # l
      BY DEF D
    <3>1. p[k] # p[l] /\ ComesBefore(blocks, p[k], p[l]) /\ p[k] \in D /\ p[l] \in D
      BY <1>1, <3>0
    <3>2. f[p[k]] # f[p[l]]
      BY <1>3, <3>1
    <3>3. f[p[k]] < f[p[l]]
      BY <1>2, <3>1, <3>2 DEF ComesBefore
    <3>. QED BY <1>5, <3>3
  <2>. QED BY <2>1, <2>2, <2>3, <2>4 DEF Enumerates, D
<1>7. Enumerates(up, N, n)
  <2>1. \A x \in N : x + 1 \in 1..n /\ up[x + 1] = x
    OBVIOUS
  <2>2. DOMAIN up = 1..n /\ up = [k \in 1..n |-> up[k]] /\ \A k \in 1..n : up[k] = k - 1 /\ up[k] \in N
    OBVIOUS
  <2>3. \A k, l \in 1..n : k < l => up[k] < up[l]
    OBVIOUS
  <2>. HIDE DEF up, N
  <2>. QED BY <2>1, <2>2, <2>3 DEF Enumerates
<1>8. order = up
  <2>1. N \in SUBSET Nat
    OBVIOUS
  <2>. HIDE DEF order, up, N, P
  <2>2. Enumerates(order, N, n)
    BY <1>4, <1>6
  <2>3. Sorted(N, <) = order
    BY <2>1, <2>2, SortedUnique
  <2>4. Sorted(N, <) = up
    BY <1>7, <2>1, SortedUnique
  <2>. QED BY <2>3, <2>4
<1>9. \A k \in 1..n : source[k].order = k - 1
  <2>1. \A k \in 1..n : order[k] = source[k].order /\ up[k] = k - 1
    OBVIOUS
  <2>. HIDE DEF order, up
  <2>. QED BY <1>8, <2>1
<1>. HIDE DEF source
<1>10. DOMAIN source = 1..n /\ source = [k \in 1..n |-> source[k]]
  BY <1>0 DEF Arranges
<1>11. \A k \in 1..n : \E i \in 1..n : source[k] = blocks[i]
  BY <1>1
<1>. QED BY <1>9, <1>10, <1>11 DEF AtOrder, source

LEMMA FitsInPlaces ==
    ASSUME NEW blocks \in Seq(SourceRows), NEW n \in Nat, n = Len(blocks)
    PROVE  SourceFits(1, blocks) <=> InPlaces(blocks, n)
<1> DEFINE source == InSourceOrder(blocks)
           p == Places(blocks)
           D == 1..n
<1>0. Arranges(p, source, blocks, n)
  BY SourceListed
<1>. HIDE DEF p, source
<1>1. /\ \A k \in D : p[k] \in D /\ source[k] = blocks[p[k]]
      /\ \A i \in D : \E k \in D : p[k] = i
      /\ \A k, l \in D : p[k] = p[l] => k = l
      /\ \A k, l \in D : k < l => ComesBefore(blocks, p[k], p[l])
  BY <1>0 DEF Arranges
<1>2. DOMAIN source = D
  BY <1>0 DEF Arranges
<1>3. blocks = << >> <=> n = 0
  OBVIOUS
<1>4. SourceFits(1, blocks) <=>
        /\ blocks # << >>
        /\ \A i \in DOMAIN source : source[i].order = i - 1 /\ source[i].run = 1
        /\ \A i, j \in DOMAIN source : source[i].id = source[j].id => i = j
  BY DEF SourceFits, source
<1>5. ASSUME InPlaces(blocks, n) PROVE SourceFits(1, blocks)
  <2>1. AtOrder(source, blocks, n)
    BY <1>5, PlacedInOrder DEF source
  <2>6. /\ \A i \in D : blocks[i].run = 1
        /\ \A i, j \in D : blocks[i].id = blocks[j].id => i = j
    BY <1>5 DEF InPlaces
  <2>2. \A k \in D : source[k].order = k - 1
    BY <2>1 DEF AtOrder
  <2>. HIDE DEF D
  <2>3. \A k \in D : source[k].run = 1
    BY <1>1, <2>6
  <2>4. \A k, l \in D : source[k].id = source[l].id => k = l
    BY <1>1, <2>6
  <2>5. n # 0
    BY <1>5 DEF InPlaces
  <2>. QED BY <1>2, <1>3, <1>4, <2>2, <2>3, <2>4, <2>5
<1>6. ASSUME SourceFits(1, blocks) PROVE InPlaces(blocks, n)
  <2>. HIDE DEF source
  <2>1. /\ n # 0
        /\ \A k \in D : source[k].order = k - 1 /\ source[k].run = 1
        /\ \A k, l \in D : source[k].id = source[l].id => k = l
    BY <1>2, <1>3, <1>4, <1>6
  <2>2. \A k \in D : blocks[p[k]].order = k - 1 /\ blocks[p[k]].run = 1
    <3>. HIDE DEF D
    <3>. QED BY <1>1, <2>1
  <2>3. \A i \in D : blocks[i].order \in 0..(n - 1) /\ blocks[i].run = 1
    <3>1. \A k \in D : k - 1 \in 0..(n - 1)
      OBVIOUS
    <3>. HIDE DEF D
    <3>. QED BY <1>1, <2>2, <3>1
  <2>4. \A i, j \in D : blocks[i].order = blocks[j].order => i = j
    <3>. SUFFICES ASSUME NEW i \in D, NEW j \in D, blocks[i].order = blocks[j].order PROVE i = j
      OBVIOUS
    <3>1. PICK k \in D : p[k] = i
      BY <1>1
    <3>2. PICK l \in D : p[l] = j
      BY <1>1
    <3>3. k - 1 = l - 1
      BY <2>2, <3>1, <3>2
    <3>. QED BY <3>1, <3>2, <3>3
  <2>5. \A i, j \in D : blocks[i].id = blocks[j].id => i = j
    <3>. SUFFICES ASSUME NEW i \in D, NEW j \in D, blocks[i].id = blocks[j].id PROVE i = j
      OBVIOUS
    <3>1. PICK k \in D : p[k] = i
      BY <1>1
    <3>2. PICK l \in D : p[l] = j
      BY <1>1
    <3>. HIDE DEF D
    <3>3. k = l
      BY <1>1, <2>1, <3>1, <3>2
    <3>. QED BY <3>1, <3>2, <3>3
  <2>. QED BY <2>1, <2>3, <2>4, <2>5 DEF InPlaces
<1>. QED BY <1>5, <1>6

LEMMA TurnedInPlaces ==
    ASSUME NEW a, NEW b, NEW n \in Nat, \A i \in 1..n : b[i] = a[n - i + 1], InPlaces(a, n)
    PROVE  InPlaces(b, n)
<1>1. /\ n # 0
      /\ \A i \in 1..n : a[i].order \in 0..(n - 1) /\ a[i].run = 1
      /\ \A i, j \in 1..n : a[i].order = a[j].order => i = j
      /\ \A i, j \in 1..n : a[i].id = a[j].id => i = j
  BY DEF InPlaces
<1> DEFINE D == 1..n
           turn == [i \in D |-> n - i + 1]
<1>2. \A i \in D : turn[i] \in D /\ b[i] = a[turn[i]]
  OBVIOUS
<1>3. \A i, j \in D : turn[i] = turn[j] => i = j
  OBVIOUS
<1>. HIDE DEF D, turn
<1>4. \A i \in D : b[i].order \in 0..(n - 1) /\ b[i].run = 1
  BY <1>1, <1>2 DEF D
<1>5. \A i, j \in D : b[i].order = b[j].order => i = j
  <2>1. \A i, j \in D : a[i].order = a[j].order => i = j
    BY <1>1 DEF D
  <2>. QED BY <1>2, <1>3, <2>1
<1>6. \A i, j \in D : b[i].id = b[j].id => i = j
  <2>1. \A i, j \in D : a[i].id = a[j].id => i = j
    BY <1>1 DEF D
  <2>. QED BY <1>2, <1>3, <2>1
<1>. QED BY <1>1, <1>4, <1>5, <1>6 DEF InPlaces, D

LEMMA OneOrder ==
    ASSUME NEW a, NEW b, NEW s, NEW t, NEW n \in Nat, InPlaces(a, n),
           AtOrder(s, a, n), AtOrder(t, b, n), \A j \in 1..n : \E i \in 1..n : b[j] = a[i]
    PROVE  s = t
<1> DEFINE D == 1..n
<1>1. /\ DOMAIN s = D /\ s = [k \in D |-> s[k]] /\ DOMAIN t = D /\ t = [k \in D |-> t[k]]
      /\ \A k \in D : s[k].order = k - 1 /\ \E i \in D : s[k] = a[i]
      /\ \A k \in D : t[k].order = k - 1 /\ \E i \in D : t[k] = b[i]
  BY DEF AtOrder
<1>2. \A i, j \in D : a[i].order = a[j].order => i = j
  BY DEF InPlaces
<1>3. \A j \in D : \E i \in D : b[j] = a[i]
  OBVIOUS
<1>. HIDE DEF D
<1>4. ASSUME NEW k \in D PROVE s[k] = t[k]
  <2>1. PICK i \in D : s[k] = a[i]
    BY <1>1
  <2>2. PICK j \in D : t[k] = b[j]
    BY <1>1
  <2>3. PICK l \in D : b[j] = a[l]
    BY <1>3
  <2>5. a[i].order = k - 1
    BY <1>1, <2>1
  <2>6. a[l].order = k - 1
    BY <1>1, <2>2, <2>3
  <2>4. a[i].order = a[l].order
    BY <2>5, <2>6
  <2>. QED BY <1>2, <2>1, <2>2, <2>3, <2>4
<1>. QED BY <1>1, <1>4

\* Blocks of a run without one of them.
Skips(b, a, i, n) ==
    /\ \A p \in 1..(n - 1) : b[p] = a[After1(i, p)] /\ After1(i, p) \in (1..n) \ {i}
    /\ \A p, q \in 1..(n - 1) : After1(i, p) = After1(i, q) => p = q

LEMMA LeftInPlaces ==
    ASSUME NEW a, NEW b, NEW s, NEW n \in Nat, NEW i \in 1..n, n > 1, InPlaces(a, n),
           AtOrder(s, a, n),
           Skips(b, a, i, n)
    PROVE  InPlaces(b, n - 1) <=> a[i].order = n - 1
<1> DEFINE D == 1..n
           L == 1..(n - 1)
<1>1. /\ \A k \in D : a[k].order \in 0..(n - 1) /\ a[k].run = 1
      /\ \A k, l \in D : a[k].order = a[l].order => k = l
      /\ \A k, l \in D : a[k].id = a[l].id => k = l
  BY DEF InPlaces
<1>2. /\ \A p \in L : b[p] = a[After1(i, p)] /\ After1(i, p) \in D /\ After1(i, p) # i
      /\ \A p, q \in L : After1(i, p) = After1(i, q) => p = q
  BY DEF Skips
<1>3. n \in D /\ n - 1 \in Nat /\ n - 1 # 0
  OBVIOUS
<1>4. PICK k \in D : a[k].order = n - 1
  <2>1. s[n].order = n - 1 /\ \E k \in D : s[n] = a[k]
    BY <1>3 DEF AtOrder
  <2>. QED BY <2>1
<1>5. ASSUME a[i].order = n - 1 PROVE InPlaces(b, n - 1)
  <2>1. \A p \in L : b[p].order \in 0..((n - 1) - 1) /\ b[p].run = 1
    <3>. SUFFICES ASSUME NEW p \in L PROVE b[p].order \in 0..((n - 1) - 1) /\ b[p].run = 1
      OBVIOUS
    <3>. HIDE DEF D, L
    <3>1. b[p].order # n - 1
      BY <1>1, <1>2, <1>5 DEF D
    <3>2. b[p].order \in 0..(n - 1) /\ b[p].run = 1
      BY <1>1, <1>2
    <3>. QED BY <1>3, <3>1, <3>2
  <2>2. \A p, q \in L : b[p].order = b[q].order => p = q
    <3>. HIDE DEF D, L
    <3>. QED BY <1>1, <1>2
  <2>3. \A p, q \in L : b[p].id = b[q].id => p = q
    <3>. HIDE DEF D, L
    <3>. QED BY <1>1, <1>2
  <2>. QED BY <1>3, <2>1, <2>2, <2>3 DEF InPlaces
<1>6. ASSUME InPlaces(b, n - 1) PROVE a[i].order = n - 1
  <2>. SUFFICES ASSUME i # k PROVE FALSE
    BY <1>4
  <2>1. PICK p \in L : After1(i, p) = k
    <3>1. CASE k < i
      <4>1. k \in L /\ After1(i, k) = k
        BY <3>1 DEF After1
      <4>. QED BY <4>1
    <3>2. CASE ~(k < i)
      <4>1. k - 1 \in L /\ After1(i, k - 1) = k
        BY <3>2 DEF After1
      <4>. QED BY <4>1
    <3>. QED BY <3>1, <3>2
  <2>2. b[p].order = n - 1
    BY <1>2, <1>4, <2>1
  <2>3. b[p].order \in 0..((n - 1) - 1)
    BY <1>6 DEF InPlaces
  <2>. QED BY <1>3, <2>2, <2>3
<1>. QED BY <1>5, <1>6

\* Whether blocks are those of a run, and their order, do not depend on the order in
\* which they are given; without one of them, only those before the last one are.
LEMMA SourceChecked ==
    ASSUME NEW blocks \in Seq(SourceRows)
    PROVE  /\ SourceFits(1, Reverse(blocks)) <=> SourceFits(1, blocks)
           /\ SourceFits(1, blocks) => InSourceOrder(Reverse(blocks)) = InSourceOrder(blocks)
           /\ \A i \in 1..Len(blocks) : SourceFits(1, blocks) /\ Len(blocks) > 1 =>
                (SourceFits(1, RemoveAt(blocks, i)) <=> blocks[i].order = Len(blocks) - 1)
<1> DEFINE n == Len(blocks)
           turned == Reverse(blocks)
           D == 1..n
<1>1. n \in Nat
  OBVIOUS
<1>2. turned \in Seq(SourceRows) /\ Len(turned) = n /\ \A i \in D : turned[i] = blocks[n - i + 1]
  BY RangeReversed DEF Reverse
<1>. HIDE DEF turned, n
<1>3. \A i \in D : n - i + 1 \in D /\ n - (n - i + 1) + 1 = i
  BY <1>1
<1>4. \A i \in D : blocks[i] = turned[n - i + 1]
  <2>1. \A i \in D : turned[n - i + 1] = blocks[n - (n - i + 1) + 1]
    BY <1>2, <1>3
  <2>. QED BY <1>3, <2>1
<1>5. InPlaces(blocks, n) => InPlaces(turned, n)
  BY <1>1, <1>2, TurnedInPlaces
<1>6. InPlaces(turned, n) => InPlaces(blocks, n)
  BY <1>1, <1>4, TurnedInPlaces
<1>7. SourceFits(1, blocks) <=> InPlaces(blocks, n)
  BY <1>1, FitsInPlaces DEF n
<1>8. SourceFits(1, turned) <=> InPlaces(turned, n)
  BY <1>1, <1>2, FitsInPlaces
<1>9. ASSUME InPlaces(blocks, n) PROVE AtOrder(InSourceOrder(blocks), blocks, n)
  BY <1>1, <1>9, PlacedInOrder DEF n
<1>10. ASSUME InPlaces(blocks, n) PROVE InSourceOrder(turned) = InSourceOrder(blocks)
  <2> DEFINE s == InSourceOrder(blocks)
             t == InSourceOrder(turned)
  <2>1. AtOrder(s, blocks, n)
    BY <1>9, <1>10
  <2>2. AtOrder(t, turned, n)
    BY <1>1, <1>2, <1>5, <1>10, PlacedInOrder
  <2>3. \A j \in 1..n : \E i \in 1..n : turned[j] = blocks[i]
    BY <1>2, <1>3
  <2>. HIDE DEF s, t
  <2>4. s = t
    BY <1>1, <1>10, <2>1, <2>2, <2>3, OneOrder
  <2>. QED BY <2>4 DEF s, t
<1>11. ASSUME NEW i \in 1..n, InPlaces(blocks, n), n > 1
       PROVE  SourceFits(1, RemoveAt(blocks, i)) <=> blocks[i].order = n - 1
  <2> DEFINE left == RemoveAt(blocks, i)
  <2>1. /\ left \in Seq(SourceRows) /\ Len(left) = n - 1
        /\ \A p \in 1..(n - 1) : left[p] = blocks[After1(i, p)] /\ After1(i, p) \in (1..n) \ {i}
        /\ \A p, q \in 1..(n - 1) : After1(i, p) = After1(i, q) => p = q
    BY <1>11, RemovedIs DEF n
  <2>6. Skips(left, blocks, i, n)
    BY <2>1 DEF Skips
  <2>. HIDE DEF left
  <2>2. n - 1 \in Nat
    BY <1>1, <1>11
  <2>3. SourceFits(1, left) <=> InPlaces(left, n - 1)
    BY <2>1, <2>2, FitsInPlaces
  <2>4. AtOrder(InSourceOrder(blocks), blocks, n)
    BY <1>9, <1>11
  <2>5. InPlaces(left, n - 1) <=> blocks[i].order = n - 1
    BY <1>1, <1>11, <2>6, <2>4, LeftInPlaces
  <2>. QED BY <2>3, <2>5 DEF left
<1>. QED BY <1>5, <1>6, <1>7, <1>8, <1>10, <1>11 DEF n, turned

-----------------------------------------------------------------------------
(* Packing candidates into batches. *)

OneEmpty == << << >> >>
PackingStays(T, E, config) == \A s \in T, e \in E : Packed(s, e, config) \in T

LEMMA PackedOneByOne ==
    ASSUME NEW E, NEW seq \in Seq(E), NEW T, OneEmpty \in T, NEW config, PackingStays(T, E, config)
    PROVE  \E acc \in [0..Len(seq) -> T] :
              /\ acc[0] = OneEmpty /\ CheckBatches(seq, config) = acc[Len(seq)]
              /\ \A k \in 0..(Len(seq) - 1) : acc[k + 1] = Packed(acc[k], seq[k + 1], config)
<1> DEFINE n == Len(seq)
           F == [p \in T \X (1..n) |-> Packed(p[1], seq[p[2]], config)]
           Body(g) == [s \in SUBSET DOMAIN seq |->
                         IF s = {} THEN OneEmpty ELSE Packed(g[s \ {Max(s)}], seq[Max(s)], config)]
           fold == CHOOSE h : h = Body(h)
           acc == [k \in 0..n |-> fold[1..k]]
<1>1. CheckBatches(seq, config) = fold[DOMAIN seq]
  BY DEF CheckBatches, FoldLeft, MapThenFoldSet, OneEmpty
<1>2. n \in Nat /\ DOMAIN seq = 1..n /\ \A i \in 1..n : seq[i] \in E
  OBVIOUS
<1>3. F \in [T \X (1..n) -> T]
  <2>. HIDE DEF n
  <2>1. ASSUME NEW p \in T \X (1..n) PROVE Packed(p[1], seq[p[2]], config) \in T
    <3>1. p[1] \in T /\ p[2] \in 1..n
      OBVIOUS
    <3>2. seq[p[2]] \in E
      BY <1>2, <3>1
    <3>. QED BY <3>1, <3>2 DEF PackingStays
  <2>. QED BY <2>1
<1>4. PICK h \in [SUBSET (1..n) -> T] : FoldsTo(h, n, OneEmpty, F)
  <2>. HIDE DEF F, n
  <2>. QED BY <1>2, <1>3, FoldExists
<1>5. \A s \in SUBSET (1..n) : s # {} => Max(s) \in s /\ Max(s) \in 1..n /\ s \ {Max(s)} \in SUBSET (1..n)
  <2>1. \A s \in SUBSET (1..n) : s # {} => Max(s) \in s
    <3>. HIDE DEF n
    <3>. QED BY <1>2, MaxIs
  <2>. QED BY <2>1
<1>6. \A p \in T \X (1..n) : F[p] = Packed(p[1], seq[p[2]], config)
  OBVIOUS
<1>. HIDE DEF F
<1>7. ASSUME NEW s \in SUBSET (1..n)
      PROVE  h[s] = IF s = {} THEN OneEmpty ELSE Packed(h[s \ {Max(s)}], seq[Max(s)], config)
  <2>1. CASE s = {}
    BY <2>1, <1>4 DEF FoldsTo
  <2>2. CASE s # {}
    <3>1. h[s] = F[<<h[s \ {Max(s)}], Max(s)>>]
      BY <2>2, <1>4 DEF FoldsTo
    <3>2. h[s \ {Max(s)}] \in T /\ Max(s) \in 1..n
      <4>. HIDE DEF n
      <4>. QED BY <1>4, <1>5, <2>2
    <3>3. <<h[s \ {Max(s)}], Max(s)>> \in T \X (1..n)
      BY <3>2
    <3>4. F[<<h[s \ {Max(s)}], Max(s)>>] = Packed(h[s \ {Max(s)}], seq[Max(s)], config)
      <4>. HIDE DEF n
      <4>. QED BY <1>6, <3>3
    <3>. QED BY <2>2, <3>1, <3>4
  <2>. QED BY <2>1, <2>2
<1>8. h = Body(h)
  <2>. HIDE DEF n
  <2>. QED BY <1>2, <1>4, <1>7
<1>9. fold = Body(fold)
  <2>. HIDE DEF Body
  <2>. QED BY <1>8
<1>. HIDE DEF fold
<1>10. ASSUME NEW s \in SUBSET (1..n)
       PROVE  fold[s] = IF s = {} THEN OneEmpty ELSE Packed(fold[s \ {Max(s)}], seq[Max(s)], config)
  <2>. HIDE DEF n
  <2>. QED BY <1>2, <1>9
<1>11. \A k \in 0..n : acc[k] = fold[1..k] /\ 1..k \in SUBSET (1..n)
  OBVIOUS
<1>12. acc[0] = OneEmpty
  <2>1. 1..0 = {} /\ 0 \in 0..n
    BY <1>2
  <2>. QED BY <1>10, <1>11, <2>1
<1>13. ASSUME NEW k \in 0..(n - 1) PROVE acc[k + 1] = Packed(acc[k], seq[k + 1], config)
  <2>1. Max(1..(k + 1)) = k + 1 /\ (1..(k + 1)) \ {k + 1} = 1..k
    BY MaxOfInterval
  <2>a. n \in Nat
    BY <1>2
  <2>2. 1..(k + 1) # {} /\ k \in 0..n /\ k + 1 \in 0..n /\ 1..(k + 1) \in SUBSET (1..n)
    <3>. HIDE DEF n
    <3>1. k \in Nat /\ k + 1 \in Nat /\ ~(k + 1 > n)
      BY <2>a
    <3>2. 1 \in 1..(k + 1) /\ k \in 0..n /\ k + 1 \in 0..n
      BY <2>a, <3>1
    <3>3. \A i \in 1..(k + 1) : i \in 1..n
      BY <2>a, <3>1
    <3>. QED BY <3>2, <3>3
  <2>3. fold[1..(k + 1)] = Packed(fold[(1..(k + 1)) \ {Max(1..(k + 1))}], seq[Max(1..(k + 1))], config)
    BY <1>10, <2>2
  <2>4. fold[1..(k + 1)] = Packed(fold[1..k], seq[k + 1], config)
    BY <2>1, <2>3
  <2>5. acc[k] = fold[1..k] /\ acc[k + 1] = fold[1..(k + 1)]
    BY <1>11, <2>2
  <2>. QED BY <2>4, <2>5
<1>14. \A k \in 0..(n - 1) : acc[k] \in T => acc[k + 1] \in T
  <2>1. \A k \in 0..(n - 1) : k + 1 \in 1..n
    BY <1>2
  <2>. HIDE DEF acc, n
  <2>. QED BY <1>2, <1>13, <2>1 DEF PackingStays
<1>15. \A k \in 0..n : acc[k] \in T
  <2>. HIDE DEF acc, n
  <2>. QED BY <1>2, <1>12, <1>14, StatesStay
<1>16. acc \in [0..n -> T]
  <2>1. acc = [k \in 0..n |-> acc[k]]
    OBVIOUS
  <2>. HIDE DEF acc, n
  <2>. QED BY <1>15, <2>1
<1>17. acc[n] = fold[DOMAIN seq]
  BY <1>2
<1>. HIDE DEF acc
<1>. QED BY <1>1, <1>12, <1>13, <1>16, <1>17

\* One candidate more in a batch.
LEMMA CharsAdded ==
    ASSUME NEW E, \A C \in E : Chars(C) \in Nat, NEW b \in Seq(E), NEW C \in E
    PROVE  CharsIn(b) \in Nat /\ CharsIn(Append(b, C)) = CharsIn(b) + Chars(C)
<1> DEFINE n == Len(b)
           D == 1..n
           L == 1..(n + 1)
           more == Append(b, C)
           w == [i \in D |-> Chars(b[i])]
           v == [i \in L |-> Chars(more[i])]
<1>1. n \in Nat /\ DOMAIN b = D /\ \A i \in D : b[i] \in E
  OBVIOUS
<1>2. more \in Seq(E) /\ Len(more) = n + 1 /\ DOMAIN more = L /\ more[n + 1] = C /\ \A i \in D : more[i] = b[i]
  OBVIOUS
<1>3. IsFiniteSet(D) /\ IsFiniteSet(L)
  BY <1>1, CountTo
<1>4. L \ {n + 1} = D /\ n + 1 \in L /\ D \subseteq L
  BY <1>1
<1>. HIDE DEF more
<1>5. CharsIn(b) = Total(w, D)
  BY <1>1 DEF CharsIn, Total
<1>6. CharsIn(more) = Total(v, L)
  BY <1>2 DEF CharsIn, Total
<1>7. \A i \in L : more[i] \in E
  <2>. HIDE DEF n
  <2>. QED BY <1>1, <1>2
<1>8. \A i \in L : v[i] = Chars(more[i])
  OBVIOUS
<1>9. \A i \in D : w[i] = Chars(b[i])
  OBVIOUS
<1>. HIDE DEF w, v, D, L, n
<1>10. Weighs(w, D)
  BY <1>1, <1>3, <1>9 DEF Weighs
<1>11. Weighs(v, L)
  BY <1>3, <1>7, <1>8 DEF Weighs
<1>12. L \in SUBSET L /\ D \in SUBSET D
  OBVIOUS
<1>13. Total(v, L) = v[n + 1] + Total(v, L \ {n + 1})
  BY <1>4, <1>11, <1>12, TotalStep
<1>14. \A i \in D : v[i] = w[i]
  BY <1>2, <1>4, <1>8, <1>9
<1>15. Total(v, D) = Total(w, D)
  BY <1>10, <1>14, TotalAgrees
<1>16. Total(w, D) \in Nat
  BY <1>10, <1>12, TotalStep
<1>17. v[n + 1] = Chars(C) /\ Chars(C) \in Nat
  BY <1>2, <1>4, <1>8
<1>18. CharsIn(more) = Chars(C) + CharsIn(b)
  BY <1>4, <1>5, <1>6, <1>13, <1>15, <1>17
<1>19. CharsIn(b) \in Nat
  BY <1>5, <1>16
<1>20. CharsIn(more) = CharsIn(b) + Chars(C)
  BY <1>17, <1>18, <1>19
<1>. QED BY <1>19, <1>20 DEF more

LEMMA CharsOfNone == CharsIn(<< >>) = 0
<1> DEFINE none == << >>
           w == [i \in DOMAIN none |-> Chars(none[i])]
<1>1. DOMAIN none = {}
  OBVIOUS
<1>2. CharsIn(none) = Total(w, {})
  BY <1>1 DEF CharsIn, Total
<1>3. IsFiniteSet({})
  BY FS_EmptySet
<1>. HIDE DEF w, none
<1>4. Weighs(w, {})
  BY <1>3 DEF Weighs
<1>5. Total(w, {}) = 0
  BY <1>4, TotalStep
<1>. QED BY <1>2, <1>5 DEF none

LEMMA FlattenMore ==
    ASSUME NEW E, NEW a \in Seq(E), NEW b \in Seq(E), NEW x \in E
    PROVE  a \o Append(b, x) = Append(a \o b, x)
<1> DEFINE s == a \o Append(b, x)
           t == Append(a \o b, x)
<1>1. s \in Seq(E) /\ t \in Seq(E) /\ Len(s) = Len(t)
  OBVIOUS
<1>2. ASSUME NEW i \in 1..Len(s) PROVE s[i] = t[i]
  <2> DEFINE m == Len(a)
             n == Len(b)
             c == Append(b, x)
             d == a \o b
  <2>1. m \in Nat /\ n \in Nat /\ Len(s) = m + n + 1
    OBVIOUS
  <2>2. c \in Seq(E) /\ d \in Seq(E) /\ Len(c) = n + 1 /\ Len(d) = m + n
    OBVIOUS
  <2>3. CASE i <= m
    <3>1. s[i] = a[i] /\ t[i] = d[i] /\ d[i] = a[i]
      BY <2>3
    <3>. QED BY <3>1
  <2>4. CASE ~(i <= m) /\ i <= m + n
    <3>1. i - m \in 1..n /\ i \in 1..(m + n)
      BY <2>1, <2>4
    <3>2. s[i] = c[i - m] /\ c[i - m] = b[i - m] /\ t[i] = d[i] /\ d[i] = b[i - m]
      BY <2>1, <2>4, <3>1
    <3>. QED BY <3>2
  <2>5. CASE i = m + n + 1
    <3>1. s[i] = c[n + 1] /\ c[n + 1] = x /\ t[i] = x
      BY <2>1, <2>5
    <3>. QED BY <3>1
  <2>. QED BY <2>1, <2>3, <2>4, <2>5
<1>. HIDE DEF s, t
<1>3. s = t
  BY <1>1, <1>2
<1>. QED BY <1>3 DEF s, t

LEMMA AppendIs ==
    ASSUME NEW S, NEW s \in Seq(S), NEW e \in S, NEW t \in Seq(S), Len(t) = Len(s) + 1,
           t[Len(s) + 1] = e, \A i \in 1..Len(s) : t[i] = s[i]
    PROVE  t = Append(s, e)
<1> DEFINE r == Append(s, e)
<1>1. r \in Seq(S) /\ Len(r) = Len(t) /\ \A i \in 1..Len(s) : r[i] = s[i]
  OBVIOUS
<1>2. r[Len(s) + 1] = e
  OBVIOUS
<1>3. \A i \in 1..Len(t) : i \in 1..Len(s) \/ i = Len(s) + 1
  OBVIOUS
<1>. HIDE DEF r
<1>4. \A i \in 1..Len(t) : t[i] = r[i]
  BY <1>1, <1>2, <1>3
<1>5. t = r
  BY <1>1, <1>4
<1>. QED BY <1>5 DEF r

ToLast(seqs, x) == [seqs EXCEPT ![Len(seqs)] = Append(@, x)]
LongerLast(t, seqs, x, E) ==
    /\ t \in Seq(Seq(E)) /\ Len(t) = Len(seqs) /\ t[Len(seqs)] = Append(seqs[Len(seqs)], x)
    /\ \A i \in 1..(Len(seqs) - 1) : t[i] = seqs[i]
    /\ FlattenSeq(t) = Append(FlattenSeq(seqs), x)
LEMMA LastExtended ==
    ASSUME NEW E, NEW seqs \in Seq(Seq(E)), Len(seqs) # 0, NEW x \in E
    PROVE  LongerLast(ToLast(seqs, x), seqs, x, E)
<1> DEFINE t == ToLast(seqs, x)
            n == Len(seqs)
           front == SubSeq(seqs, 1, n - 1)
           last == seqs[n]
           S == Seq(E)
<1>1. n \in Nat /\ n >= 1 /\ last \in S /\ DOMAIN seqs = 1..n
  OBVIOUS
<1>0. seqs \in Seq(S)
  OBVIOUS
<1>2. front \in Seq(S) /\ Len(front) = n - 1 /\ \A i \in 1..(n - 1) : front[i] = seqs[i]
  <2>. HIDE DEF S
  <2>. QED BY <1>0, <1>1
<1>3. Append(last, x) \in S
  BY <1>1
<1>. HIDE DEF S
<1>4. t \in Seq(S) /\ Len(t) = n /\ t[n] = Append(last, x) /\ \A i \in 1..(n - 1) : t[i] = seqs[i]
  <2>1. \A i \in 1..n : seqs[i] \in S
    BY DEF S
  <2>2. DOMAIN t = 1..n /\ \A i \in 1..n : t[i] = IF i = n THEN Append(last, x) ELSE seqs[i]
    BY <1>1 DEF ToLast
  <2>3. t = [i \in 1..n |-> t[i]]
    BY <1>1 DEF ToLast
  <2>. HIDE DEF last, n
  <2>4. \A i \in 1..n : t[i] \in S
    BY <1>3, <2>1, <2>2
  <2>5. t \in [1..n -> S]
    BY <2>3, <2>4
  <2>6. t \in Seq(S) /\ Len(t) = n
    <3>1. n \in Nat
      BY <1>1
    <3>. QED BY <2>5, <3>1, TableIsSeq
  <2>7. n \in 1..n /\ \A i \in 1..(n - 1) : i \in 1..n /\ i # n
    BY <1>1
  <2>. QED BY <2>2, <2>6, <2>7
<1>. HIDE DEF last, front, n, t
<1>5. t = Append(front, Append(last, x))
  <2>1. Len(t) = Len(front) + 1 /\ Len(front) + 1 = n /\ Len(front) = n - 1
    BY <1>1, <1>2, <1>4
  <2>2. \A i \in 1..Len(front) : t[i] = front[i]
    BY <1>2, <1>4, <2>1
  <2>3. t[Len(front) + 1] = Append(last, x)
    BY <1>4, <2>1
  <2>. QED BY <1>2, <1>3, <1>4, <2>1, <2>2, <2>3, AppendIs
<1>6. seqs = Append(front, last)
  <2>1. Len(seqs) = Len(front) + 1 /\ Len(front) + 1 = n /\ Len(front) = n - 1
    BY <1>1, <1>2 DEF n
  <2>2. \A i \in 1..Len(front) : seqs[i] = front[i]
    BY <1>2, <2>1
  <2>3. seqs[Len(front) + 1] = last
    BY <2>1 DEF last
  <2>4. seqs \in Seq(S)
    BY DEF S
  <2>. QED BY <1>1, <1>2, <2>1, <2>2, <2>3, <2>4, AppendIs
<1>7. FlattenSeq(t) = FlattenSeq(front) \o Append(last, x)
  BY <1>2, <1>3, <1>5, FlattenAppend DEF S
<1>8. FlattenSeq(seqs) = FlattenSeq(front) \o last
  BY <1>1, <1>2, <1>6, FlattenAppend DEF S
<1>9. FlattenSeq(front) \in S
  BY <1>2, FlattenRange DEF S
<1>10. FlattenSeq(front) \o Append(last, x) = Append(FlattenSeq(front) \o last, x)
  <2> DEFINE f == FlattenSeq(front)
  <2>. HIDE DEF f
  <2>1. f \o Append(last, x) = Append(f \o last, x)
    BY <1>1, <1>9, FlattenMore DEF S, f
  <2>. QED BY <2>1 DEF f
<1>. QED BY <1>4, <1>7, <1>8, <1>10 DEF S, n, last, t, LongerLast

\* No batch is too large, and none was closed without need.
TightBatches(b, config) ==
    /\ \A i \in 1..Len(b) : Len(b[i]) <= config.candidates /\ CharsIn(b[i]) <= config.chars
    /\ \A i \in 1..(Len(b) - 1) :
         /\ b[i + 1] # << >>
         /\ \/ Len(b[i]) >= config.candidates
            \/ CharsIn(b[i]) + Chars(b[i + 1][1]) > config.chars

\* No candidate is too large for a batch.
ChecksFit(E, config) ==
    /\ config \in [candidates: Nat \ {0}, chars: Nat]
    /\ \A C \in E : Chars(C) \in Nat /\ Chars(C) <= config.chars

LEMMA PackedStaysTight ==
    ASSUME NEW E, NEW config, ChecksFit(E, config),
           NEW b \in Seq(Seq(E)), Len(b) # 0, NEW C \in E
    PROVE  /\ Packed(b, C, config) \in Seq(Seq(E)) /\ Len(Packed(b, C, config)) # 0
           /\ TightBatches(b, config) =>
                /\ TightBatches(Packed(b, C, config), config)
                /\ FlattenSeq(Packed(b, C, config)) = Append(FlattenSeq(b), C)
<1> DEFINE n == Len(b)
           last == b[n]
           t == Packed(b, C, config)
           S == Seq(E)
           most == config.candidates
           limit == config.chars
<1>0. most \in Nat /\ most >= 1 /\ limit \in Nat /\ Chars(C) \in Nat /\ Chars(C) <= limit
  BY DEF ChecksFit
<1>1. n \in Nat /\ n >= 1 /\ last \in S /\ b \in Seq(S) /\ \A i \in 1..n : b[i] \in S
  OBVIOUS
<1>2. Last(b) = last
  BY DEF Last
<1>3. CharsIn(last) \in Nat /\ CharsIn(Append(last, C)) = CharsIn(last) + Chars(C)
  <2>1. \A c \in E : Chars(c) \in Nat
    BY DEF ChecksFit
  <2>. HIDE DEF last
  <2>. QED BY <1>1, <2>1, CharsAdded
<1>4. Full(last, C, config) <=> \/ Len(last) >= most
                                \/ last # << >> /\ CharsIn(last) + Chars(C) > limit
  BY DEF Full
<1>5. /\ Full(last, C, config) => t = Append(b, <<C>>)
      /\ ~Full(last, C, config) => t = [b EXCEPT ![n] = Append(@, C)]
  BY <1>2 DEF Packed
<1>. HIDE DEF t
<1>6. CASE Full(last, C, config)
  <2> DEFINE one == <<C>>
  <2>1. one \in S /\ Len(one) = 1 /\ one[1] = C /\ one # << >> /\ one = Append(<< >>, C)
    OBVIOUS
  <2>2. CharsIn(one) = Chars(C)
    <3>1. << >> \in S
      OBVIOUS
    <3>3. \A c \in E : Chars(c) \in Nat
      BY DEF ChecksFit
    <3>2. CharsIn(Append(<< >>, C)) = CharsIn(<< >>) + Chars(C)
      BY <3>1, <3>3, CharsAdded
    <3>. QED BY <1>0, <2>1, <3>2, CharsOfNone
  <2>. HIDE DEF one, S
  <2>3. t = Append(b, one)
    BY <1>5, <1>6 DEF one
  <2>4. t \in Seq(S) /\ Len(t) = n + 1 /\ t[n + 1] = one /\ \A i \in 1..n : t[i] = b[i]
    BY <1>1, <2>1, <2>3
  <2>5. Len(t) # 0
    BY <1>1, <2>4
  <2>6. FlattenSeq(t) = Append(FlattenSeq(b), C)
    <3>1. FlattenSeq(t) = FlattenSeq(b) \o one
      BY <2>1, <2>3, FlattenAppend DEF S
    <3>2. FlattenSeq(b) \in Seq(E)
      BY <1>1, FlattenRange DEF S
    <3>. QED BY <3>1, <3>2 DEF one
  <2>7. ASSUME TightBatches(b, config) PROVE TightBatches(t, config)
    <3>1. \A i \in 1..n : Len(b[i]) <= most /\ CharsIn(b[i]) <= limit
      BY <2>7 DEF TightBatches
    <3>2. \A i \in 1..(n - 1) : b[i + 1] # << >> /\ (Len(b[i]) >= most \/ CharsIn(b[i]) + Chars(b[i + 1][1]) > limit)
      BY <2>7 DEF TightBatches
    <3>3. Len(last) >= most \/ CharsIn(last) + Chars(C) > limit
      BY <1>4, <1>6
    <3>. HIDE DEF last, n, most, limit
    <3>4. ASSUME NEW i \in 1..(n + 1) PROVE Len(t[i]) <= most /\ CharsIn(t[i]) <= limit
      <4>1. CASE i = n + 1
        BY <1>0, <2>1, <2>2, <2>4, <4>1
      <4>2. CASE i # n + 1
        <5>1. i \in 1..n
          BY <1>1, <4>2
        <5>. QED BY <2>4, <3>1, <5>1
      <4>. QED BY <4>1, <4>2
    <3>5. ASSUME NEW i \in 1..n
          PROVE  t[i + 1] # << >> /\ (Len(t[i]) >= most \/ CharsIn(t[i]) + Chars(t[i + 1][1]) > limit)
      <4>1. CASE i = n
        <5>1. t[i] = last /\ t[i + 1] = one
          BY <2>4, <4>1 DEF last
        <5>. QED BY <2>1, <3>3, <5>1
      <4>2. CASE i # n
        <5>1. i \in 1..(n - 1) /\ i + 1 \in 1..n
          BY <1>1, <4>2
        <5>2. t[i] = b[i] /\ t[i + 1] = b[i + 1]
          BY <2>4, <5>1
        <5>. QED BY <3>2, <5>1, <5>2
      <4>. QED BY <4>1, <4>2
    <3>6. Len(t) = n + 1 /\ Len(t) - 1 = n
      BY <1>1, <2>4
    <3>. QED BY <3>4, <3>5, <3>6 DEF TightBatches, most, limit
  <2>. QED BY <2>4, <2>5, <2>6, <2>7 DEF S, t
<1>7. CASE ~Full(last, C, config)
  <2> DEFINE full == Append(last, C)
  <2>1. t = [b EXCEPT ![n] = Append(@, C)]
    BY <1>5, <1>7
  <2>2. /\ t \in Seq(S) /\ Len(t) = n /\ t[n] = full
        /\ \A i \in 1..(n - 1) : t[i] = b[i]
        /\ FlattenSeq(t) = Append(FlattenSeq(b), C)
    <3>1. t = ToLast(b, C)
      BY <2>1 DEF ToLast
    <3>. HIDE DEF n, last, S, full
    <3>2. Len(b) # 0
      BY <1>1 DEF n
    <3>3. LongerLast(t, b, C, E)
      BY <3>1, <3>2, LastExtended
    <3>. QED BY <3>3 DEF n, last, S, full, LongerLast
  <2>9. last \in Seq(E) /\ C \in E
    BY <1>1
  <2>3. full \in S /\ Len(full) = Len(last) + 1 /\ Len(last) \in Nat /\ full # << >>
    <3>. HIDE DEF last
    <3>1. Append(last, C) \in Seq(E) /\ Len(Append(last, C)) = Len(last) + 1 /\ Len(last) \in Nat
      BY <2>9
    <3>2. full # << >>
      <4>1. Len(full) = Len(last) + 1 /\ Len(last) \in Nat
        BY <3>1
      <4>2. Len(full) # Len(<< >>)
        <5>. HIDE DEF full
        <5>. QED BY <4>1
      <4>. QED BY <4>2
    <3>. QED BY <3>1, <3>2
  <2>4. last # << >> => full[1] = last[1]
    BY <1>1
  <2>5. last = << >> => CharsIn(last) = 0
    BY CharsOfNone
  <2>. HIDE DEF full, S, n, most, limit
  <2>6. Len(full) <= most /\ CharsIn(full) <= limit
    <3>1. ~(Len(last) >= most) /\ ~(last # << >> /\ CharsIn(last) + Chars(C) > limit)
      BY <1>4, <1>7
    <3>2. CharsIn(full) = CharsIn(last) + Chars(C)
      BY <1>3 DEF full
    <3>. HIDE DEF last
    <3>3. CharsIn(full) <= limit
      BY <1>0, <1>3, <2>5, <3>1, <3>2
    <3>. QED BY <1>0, <2>3, <3>1, <3>3
  <2>7. ASSUME TightBatches(b, config) PROVE TightBatches(t, config)
    <3>1. \A i \in 1..n : Len(b[i]) <= most /\ CharsIn(b[i]) <= limit
      BY <2>7 DEF TightBatches, n, most, limit
    <3>2. \A i \in 1..(n - 1) : b[i + 1] # << >> /\ (Len(b[i]) >= most \/ CharsIn(b[i]) + Chars(b[i + 1][1]) > limit)
      BY <2>7 DEF TightBatches, n, most, limit
    <3>4. ASSUME NEW i \in 1..n PROVE Len(t[i]) <= most /\ CharsIn(t[i]) <= limit
      <4>1. CASE i = n
        BY <2>2, <2>6, <4>1
      <4>2. CASE i # n
        <5>1. i \in 1..(n - 1)
          BY <1>1, <4>2
        <5>. QED BY <2>2, <3>1, <5>1
      <4>. QED BY <4>1, <4>2
    <3>5. ASSUME NEW i \in 1..(n - 1)
          PROVE  t[i + 1] # << >> /\ (Len(t[i]) >= most \/ CharsIn(t[i]) + Chars(t[i + 1][1]) > limit)
      <4>0. t[i] = b[i]
        BY <2>2
      <4>1. CASE i + 1 = n
        <5>1. t[i + 1] = full /\ b[i + 1] = last
          BY <2>2, <4>1 DEF last
        <5>2. last # << >> /\ (Len(b[i]) >= most \/ CharsIn(b[i]) + Chars(last[1]) > limit)
          BY <3>2, <5>1
        <5>. QED BY <2>3, <2>4, <4>0, <5>1, <5>2
      <4>2. CASE i + 1 # n
        <5>1. i + 1 \in 1..(n - 1)
          BY <1>1, <4>2
        <5>2. t[i + 1] = b[i + 1]
          BY <2>2, <5>1
        <5>. QED BY <3>2, <4>0, <5>2
      <4>. QED BY <4>1, <4>2
    <3>6. Len(t) = n
      BY <2>2
    <3>. QED BY <3>4, <3>5, <3>6 DEF TightBatches, most, limit
  <2>8. Len(t) # 0
    BY <1>1, <2>2
  <2>. QED BY <2>2, <2>7, <2>8 DEF S, t
<1>. QED BY <1>6, <1>7

LEMMA PackedTight ==
    ASSUME NEW E, NEW config, ChecksFit(E, config), NEW seq \in Seq(E)
    PROVE  /\ CheckBatches(seq, config) \in Seq(Seq(E))
           /\ FlattenSeq(CheckBatches(seq, config)) = seq
           /\ TightBatches(CheckBatches(seq, config), config)
<1> DEFINE n == Len(seq)
           none == << >>
           empty == OneEmpty
           T == {b \in Seq(Seq(E)) : Len(b) # 0}
<1>1. n \in Nat /\ \A i \in 1..n : seq[i] \in E
  OBVIOUS
<1>2. empty \in Seq(Seq(E)) /\ Len(empty) = 1 /\ empty[1] = none /\ none \in Seq(E)
  BY DEF OneEmpty
<1>3. empty \in T
  <2>1. Len(empty) # 0
    BY <1>2
  <2>. HIDE DEF empty
  <2>. QED BY <1>2, <2>1
<1>4. PackingStays(T, E, config)
  <2>. SUFFICES ASSUME NEW b \in T, NEW C \in E PROVE Packed(b, C, config) \in T
    BY DEF PackingStays
  <2>1. b \in Seq(Seq(E)) /\ Len(b) # 0
    OBVIOUS
  <2>2. Packed(b, C, config) \in Seq(Seq(E)) /\ Len(Packed(b, C, config)) # 0
    BY <2>1, PackedStaysTight
  <2>. QED BY <2>2
<1>5. OneEmpty \in T
  BY <1>3
<1>6. PICK acc \in [0..n -> T] :
        /\ acc[0] = OneEmpty /\ CheckBatches(seq, config) = acc[n]
        /\ \A k \in 0..(n - 1) : acc[k + 1] = Packed(acc[k], seq[k + 1], config)
  <2>. HIDE DEF T
  <2>. QED BY <1>4, <1>5, PackedOneByOne
<1>7. acc[0] = empty
  BY <1>6
<1> DEFINE Good(k) == /\ TightBatches(acc[k], config)
                      /\ FlattenSeq(acc[k]) \in Seq(E) /\ Len(FlattenSeq(acc[k])) = k
                      /\ \A i \in 1..k : FlattenSeq(acc[k])[i] = seq[i]
           Done == {k \in 0..n : Good(k)}
<1>8. 0 \in Done
  <2>1. FlattenSeq(empty) = none
    <3>1. FlattenSeq(empty) = empty[1]
      <4>. HIDE DEF empty
      <4>. QED BY <1>2, FlattenOne
    <3>. QED BY <1>2, <3>1
  <2>2. TightBatches(empty, config)
    <3>1. config.candidates \in Nat /\ config.chars \in Nat /\ Len(none) = 0
      BY DEF ChecksFit
    <3>2. CharsIn(none) = 0
      BY CharsOfNone
    <3>. HIDE DEF empty, none
    <3>3. \A i \in 1..Len(empty) : empty[i] = none
      BY <1>2
    <3>. QED BY <1>2, <3>1, <3>2, <3>3 DEF TightBatches
  <2>3. none \in Seq(E) /\ Len(none) = 0 /\ 0 \in 0..n
    BY <1>1
  <2>. HIDE DEF empty, none
  <2>4. Good(0)
    BY <1>7, <2>1, <2>2, <2>3
  <2>. QED BY <2>3, <2>4
<1>9. ASSUME NEW k \in 0..(n - 1), k \in Done PROVE k + 1 \in Done
  <2> DEFINE b == acc[k]
             C == seq[k + 1]
             t == acc[k + 1]
             f == FlattenSeq(b)
  <2>1. k \in Nat /\ k + 1 \in 1..n /\ k + 1 \in 0..n /\ k \in 0..n
    BY <1>1
  <2>2. b \in Seq(Seq(E)) /\ Len(b) # 0 /\ C \in E /\ t = Packed(b, C, config)
    <3>1. b \in T
      <4>. HIDE DEF T
      <4>. QED BY <1>6, <2>1
    <3>. QED BY <1>1, <1>6, <2>1, <3>1
  <2>3. /\ TightBatches(b, config) /\ f \in Seq(E) /\ Len(f) = k /\ \A i \in 1..k : f[i] = seq[i]
    BY <1>9
  <2>. HIDE DEF b, C, t, f, T, Done, empty, none
  <2>4. TightBatches(t, config) /\ FlattenSeq(t) = Append(f, C)
    <3>1. /\ TightBatches(Packed(b, C, config), config)
          /\ FlattenSeq(Packed(b, C, config)) = Append(FlattenSeq(b), C)
      <4>1. b \in Seq(Seq(E)) /\ Len(b) # 0 /\ C \in E
        BY <2>2
      <4>2. TightBatches(b, config) =>
              /\ TightBatches(Packed(b, C, config), config)
              /\ FlattenSeq(Packed(b, C, config)) = Append(FlattenSeq(b), C)
        BY <4>1, PackedStaysTight
      <4>. QED BY <2>3, <4>2
    <3>. QED BY <2>2, <3>1 DEF f
  <2>5. /\ Append(f, C) \in Seq(E) /\ Len(Append(f, C)) = k + 1 /\ Append(f, C)[k + 1] = C
        /\ \A i \in 1..k : Append(f, C)[i] = f[i]
    BY <2>2, <2>3
  <2>6. \A i \in 1..(k + 1) : Append(f, C)[i] = seq[i]
    <3>1. \A i \in 1..(k + 1) : i \in 1..k \/ i = k + 1
      BY <2>1
    <3>2. C = seq[k + 1]
      BY DEF C
    <3>. QED BY <2>3, <2>5, <3>1, <3>2
  <2>7. Good(k + 1)
    BY <2>4, <2>5, <2>6 DEF t
  <2>. QED BY <2>1, <2>7 DEF Done
<1>10. 0..n \subseteq Done
  <2>. HIDE DEF Done, n
  <2>. QED BY <1>1, <1>8, <1>9, Induction
<1>11. Good(n)
  <2>1. n \in 0..n
    BY <1>1
  <2>. HIDE DEF n
  <2>. QED BY <1>10, <2>1
<1>12. acc[n] \in Seq(Seq(E))
  <2>1. n \in 0..n
    BY <1>1
  <2>2. acc[n] \in T
    <3>. HIDE DEF T, n
    <3>. QED BY <1>6, <2>1
  <2>. QED BY <2>2
<1> DEFINE f == FlattenSeq(acc[n])
<1>13. f = seq
  <2>1. f \in Seq(E) /\ Len(f) = Len(seq) /\ \A i \in 1..Len(f) : f[i] = seq[i]
    BY <1>11
  <2>. HIDE DEF f, n
  <2>. QED BY <2>1
<1>. HIDE DEF n, f
<1>. QED BY <1>6, <1>11, <1>12, <1>13 DEF f

LEMMA CharsNatural ==
    ASSUME NEW C \in SUBSET ValueRows, IsFiniteSet(C)
    PROVE  Chars(C) \in Nat
<1> DEFINE w == [v \in C |-> v.chars]
<1>1. \A v \in C : w[v] \in Nat
  BY DEF ValueRows
<1>2. Chars(C) = Total(w, C)
  BY DEF Chars, Total
<1>. HIDE DEF w
<1>3. Weighs(w, C)
  BY <1>1 DEF Weighs
<1>4. C \in SUBSET C
  OBVIOUS
<1>. QED BY <1>2, <1>3, <1>4, TotalStep

LEMMA CandidatesFit ==
    ASSUME NEW bundles, CandidatesGiven(bundles), NEW config \in [candidates: Nat \ {0}, chars: Nat],
           Plannable(bundles, config)
    PROVE  bundles \in Seq(Range(bundles)) /\ ChecksFit(Range(bundles), config)
<1> DEFINE E == Range(bundles)
<1>1. bundles \in Seq(SUBSET ValueRows) /\ IsFiniteSet(UNION E)
  BY DEF CandidatesGiven, ValuesGiven
<1>2. \A C \in E : C \in SUBSET ValueRows
  BY <1>1 DEF Range
<1>3. bundles \in Seq(E)
  BY <1>1 DEF Range
<1>4. \A C \in E : Chars(C) <= config.chars
  BY DEF Plannable
<1>5. ASSUME NEW C \in E PROVE Chars(C) \in Nat
  <2>1. IsFiniteSet(C)
    <3>1. C \subseteq UNION E
      OBVIOUS
    <3>. HIDE DEF E
    <3>. QED BY <1>1, <3>1, FS_Subset
  <2>. HIDE DEF E
  <2>2. C \in SUBSET ValueRows
    BY <1>2
  <2>. QED BY <2>1, <2>2, CharsNatural
<1>. QED BY <1>3, <1>4, <1>5 DEF ChecksFit

\* The first candidate of a batch would not have fitted into the one before.
LEMMA NoneFitsBefore ==
    ASSUME NEW E, NEW config, ChecksFit(E, config), NEW b \in Seq(Seq(E)), TightBatches(b, config),
           NEW i \in 1..(Len(b) - 1)
    PROVE  /\ b[i + 1] # << >>
           /\ ~(Len(Append(b[i], b[i + 1][1])) <= config.candidates
                 /\ CharsIn(Append(b[i], b[i + 1][1])) <= config.chars)
<1> DEFINE s == b[i]
           t == b[i + 1]
           C == t[1]
           S == Seq(E)
<1>1. \A c \in E : Chars(c) \in Nat
  BY DEF ChecksFit
<1>2. config.candidates \in Nat /\ config.chars \in Nat
  BY DEF ChecksFit
<1>3. t # << >> /\ (Len(s) >= config.candidates \/ CharsIn(s) + Chars(C) > config.chars)
  BY DEF TightBatches
<1>4. s \in S /\ t \in S
  <2>1. b \in Seq(S) /\ i \in 1..Len(b) /\ i + 1 \in 1..Len(b)
    OBVIOUS
  <2>. HIDE DEF S
  <2>. QED BY <2>1
<1>5. C \in E
  <2>. HIDE DEF t
  <2>. QED BY <1>3, <1>4
<1>. HIDE DEF s, t, C
<1>6. CharsIn(s) \in Nat /\ CharsIn(Append(s, C)) = CharsIn(s) + Chars(C)
  BY <1>1, <1>4, <1>5, CharsAdded
<1>7. Len(Append(s, C)) = Len(s) + 1 /\ Len(s) \in Nat
  BY <1>4, <1>5
<1>8. Chars(C) \in Nat
  BY <1>1, <1>5
<1>9. ~(Len(Append(s, C)) <= config.candidates /\ CharsIn(Append(s, C)) <= config.chars)
  BY <1>2, <1>3, <1>6, <1>7, <1>8
<1>. QED BY <1>3, <1>9 DEF s, t, C

-----------------------------------------------------------------------------
(* What a request holds. *)

LEMMA GreatestIs ==
    ASSUME NEW S \in SUBSET Nat, NEW m \in S, \A y \in S : y <= m
    PROVE  Max(S) = m
<1>1. m \in S /\ \A y \in S : m >= y
  OBVIOUS
<1>2. \A x \in S : (\A y \in S : x >= y) => x = m
  BY <1>1
<1>. QED BY <1>1, <1>2 DEF Max

LEMMA LeastIs ==
    ASSUME NEW S \in SUBSET Nat, NEW m \in S, \A y \in S : m <= y
    PROVE  Min(S) = m
<1>1. m \in S /\ \A y \in S : m <= y
  OBVIOUS
<1>2. \A x \in S : (\A y \in S : x <= y) => x = m
  BY <1>1
<1>. QED BY <1>1, <1>2 DEF Min

\* A set of blocks never has more characters than one that has them all, and fewer
\* than one that has another block, too.
LEMMA CharsGrow ==
    ASSUME NEW source \in Seq(SourceRows), NEW config \in Configs,
           NEW S \in SUBSET (1..Len(source))
    PROVE  /\ CharsOf(source, S, config) \in Nat /\ IsFiniteSet(S)
           /\ \A T \in SUBSET S :
                /\ CharsOf(source, T, config) \in Nat
                /\ CharsOf(source, T, config) <= CharsOf(source, S, config)
           /\ \A x \in S : CharsOf(source, S \ {x}, config) < CharsOf(source, S, config)
<1> DEFINE n == Len(source)
           D == 1..n
           w == [i \in DOMAIN source |-> source[i].size]
           e == config.envelope
<1>1. n \in Nat /\ DOMAIN source = D /\ \A i \in D : source[i] \in SourceRows
  OBVIOUS
<1>2. e \in Nat
  BY DEF Configs
<1>3. \A T : CharsOf(source, T, config) = e + Total(w, T)
  BY DEF CharsOf, Total
<1>4. \A i \in D : w[i] \in Nat /\ w[i] # 0
  <2>1. \A i \in D : w[i] = source[i].size
    BY <1>1
  <2>. HIDE DEF w, D
  <2>. QED BY <1>1, <2>1 DEF SourceRows
<1>5. IsFiniteSet(D)
  BY <1>1, CountTo
<1>6. IsFiniteSet(S)
  BY <1>5, FS_Subset
<1>. HIDE DEF w, e, n, D
<1>7. S \in SUBSET D
  BY DEF D, n
<1>8. Weighs(w, S)
  BY <1>4, <1>6, <1>7 DEF Weighs
<1>9. S \in SUBSET S
  OBVIOUS
<1>10. \A T \in SUBSET S : Total(w, T) <= Total(w, S) /\ Total(w, T) \in Nat /\ Total(w, S) \in Nat
  BY <1>8, <1>9, TotalGrows
<1>11. \A x \in S : Total(w, S) = w[x] + Total(w, S \ {x})
  BY <1>8, <1>9, TotalStep
<1>12. \A x \in S : Total(w, S \ {x}) < Total(w, S)
  <2>. SUFFICES ASSUME NEW x \in S PROVE Total(w, S \ {x}) < Total(w, S)
    OBVIOUS
  <2>1. w[x] \in Nat /\ w[x] # 0
    BY <1>4, <1>7
  <2>2. S \ {x} \in SUBSET S
    OBVIOUS
  <2>3. Total(w, S \ {x}) \in Nat
    BY <1>10, <2>2
  <2>4. Total(w, S) = w[x] + Total(w, S \ {x})
    BY <1>11
  <2>. QED BY <2>1, <2>3, <2>4
<1>13. \A T \in SUBSET S : CharsOf(source, T, config) \in Nat /\ CharsOf(source, T, config) <= CharsOf(source, S, config)
  BY <1>2, <1>3, <1>10
<1>14. \A x \in S : CharsOf(source, S \ {x}, config) < CharsOf(source, S, config)
  <2>. SUFFICES ASSUME NEW x \in S PROVE CharsOf(source, S \ {x}, config) < CharsOf(source, S, config)
    OBVIOUS
  <2>1. S \ {x} \in SUBSET S
    OBVIOUS
  <2>2. Total(w, S \ {x}) \in Nat /\ Total(w, S) \in Nat /\ Total(w, S \ {x}) < Total(w, S)
    BY <1>10, <1>12, <2>1
  <2>. QED BY <1>2, <1>3, <2>2
<1>. QED BY <1>6, <1>9, <1>13, <1>14

LEMMA LessFits ==
    ASSUME NEW source \in Seq(SourceRows), NEW config \in Configs,
           NEW S \in SUBSET (1..Len(source)), NEW T \in SUBSET S, BatchFits(source, S, config)
    PROVE  BatchFits(source, T, config)
<1>1. /\ IsFiniteSet(S) /\ CharsOf(source, S, config) \in Nat
      /\ CharsOf(source, T, config) \in Nat
      /\ CharsOf(source, T, config) <= CharsOf(source, S, config)
  BY CharsGrow
<1>2. IsFiniteSet(T) /\ Cardinality(T) <= Cardinality(S)
  BY <1>1, FS_Subset
<1>3. Cardinality(T) \in Nat /\ Cardinality(S) \in Nat
  BY <1>1, <1>2, FS_CardinalityType
<1>4. config.blocks \in Nat /\ config.chars \in Nat
  BY DEF Configs
<1>. QED BY <1>1, <1>2, <1>3, <1>4 DEF BatchFits

\* Where the primary blocks may end.
Upto(base, cursor, e) == base \cup cursor..e
OffTarget(source, indices, config) == Distance(config.target, CharsOf(source, indices, config))

LEMMA LongerHasMore ==
    ASSUME NEW source \in Seq(SourceRows), NEW config \in Configs, NEW cursor \in 1..Len(source),
           NEW base \in SUBSET (1..(cursor - 1)), NEW e \in cursor..Len(source)
    PROVE  /\ Upto(base, cursor, e) \in SUBSET (1..Len(source))
           /\ CharsOf(source, Upto(base, cursor, e), config) \in Nat
           /\ Upto(base, cursor, cursor) = base \cup {cursor}
           /\ cursor < e =>
                /\ e - 1 \in cursor..Len(source)
                /\ Upto(base, cursor, e - 1) = Upto(base, cursor, e) \ {e}
                /\ CharsOf(source, Upto(base, cursor, e - 1), config)
                     < CharsOf(source, Upto(base, cursor, e), config)
                /\ BatchFits(source, Upto(base, cursor, e), config)
                     => BatchFits(source, Upto(base, cursor, e - 1), config)
<1> DEFINE n == Len(source)
           S == Upto(base, cursor, e)
           T == Upto(base, cursor, e - 1)
<1>1. n \in Nat /\ cursor \in Nat /\ e \in Nat /\ 1 <= cursor /\ cursor <= e /\ e <= n
  OBVIOUS
<1>2. \A i \in base : i \in Nat /\ 1 <= i /\ i < cursor
  OBVIOUS
<1>3. S \in SUBSET (1..n)
  BY <1>1, <1>2 DEF Upto
<1>4. Upto(base, cursor, cursor) = base \cup {cursor}
  BY <1>1 DEF Upto
<1>5. ASSUME cursor < e PROVE e - 1 \in cursor..n /\ T = S \ {e} /\ e \in S
  <2>1. e - 1 \in cursor..n
    BY <1>1, <1>5
  <2>2. e \notin base /\ e \in cursor..e
    BY <1>1, <1>2
  <2>3. cursor..(e - 1) = (cursor..e) \ {e}
    BY <1>1
  <2>4. T = S \ {e}
    BY <2>2, <2>3 DEF Upto
  <2>. QED BY <2>1, <2>2, <2>4 DEF Upto
<1>. HIDE DEF S, T
<1>6. S \in SUBSET (1..Len(source))
  BY <1>3
<1>7. CharsOf(source, S, config) \in Nat /\ \A x \in S : CharsOf(source, S \ {x}, config) < CharsOf(source, S, config)
  BY <1>6, CharsGrow
<1>8. ASSUME BatchFits(source, S, config), cursor < e PROVE BatchFits(source, T, config)
  <2>1. T \in SUBSET S
    BY <1>5, <1>8
  <2>. QED BY <1>6, <1>8, <2>1, LessFits
<1>. QED BY <1>4, <1>5, <1>6, <1>7, <1>8 DEF S, T, n

\* A message that may be sent and ends where it is nearest to the target.
EndsNear(source, base, cursor, config, e) ==
    /\ e \in cursor..Len(source) /\ BatchFits(source, Upto(base, cursor, e), config)
    /\ e < Len(source) /\ BatchFits(source, Upto(base, cursor, e + 1), config) =>
         OffTarget(source, Upto(base, cursor, e + 1), config)
            >= OffTarget(source, Upto(base, cursor, e), config)
    /\ cursor < e => OffTarget(source, Upto(base, cursor, e), config)
                        < OffTarget(source, Upto(base, cursor, e - 1), config)

LEMMA EndIs ==
    ASSUME NEW source \in Seq(SourceRows), NEW config \in Configs, NEW cursor \in 1..Len(source),
           NEW base \in SUBSET (1..(cursor - 1))
    PROVE  IF BatchFits(source, base \cup {cursor}, config)
           THEN /\ EndsNear(source, base, cursor, config, EndNearTarget(source, base, cursor, config))
                /\ EndNearTarget(source, base, cursor, config) # NoBlock
           ELSE EndNearTarget(source, base, cursor, config) = NoBlock
<1> DEFINE n == Len(source)
           R == cursor..n
           end == EndNearTarget(source, base, cursor, config)
           C == [e \in R |-> CharsOf(source, Upto(base, cursor, e), config)]
           target == config.target
           fitting == {e \in R : BatchFits(source, Upto(base, cursor, e), config)}
           reached == {e \in fitting : C[e] >= target}
           first == Min(reached)
           closer == Distance(target, C[first]) < Distance(target, C[first - 1])
<1>1. n \in Nat /\ cursor \in Nat /\ 1 <= cursor /\ cursor <= n /\ R \subseteq 1..n /\ R \subseteq Nat /\ cursor \in R
  OBVIOUS
<1>2. target \in Nat
  BY DEF Configs
<1>3. \A e \in R : /\ C[e] = CharsOf(source, Upto(base, cursor, e), config) /\ C[e] \in Nat
                   /\ cursor < e => /\ e - 1 \in R /\ C[e - 1] < C[e]
                                    /\ e \in fitting => e - 1 \in fitting
  <2>1. \A e \in R : C[e] = CharsOf(source, Upto(base, cursor, e), config)
    OBVIOUS
  <2>2. \A e \in R : /\ CharsOf(source, Upto(base, cursor, e), config) \in Nat
                     /\ cursor < e => /\ e - 1 \in R
                                      /\ CharsOf(source, Upto(base, cursor, e - 1), config)
                                           < CharsOf(source, Upto(base, cursor, e), config)
                                      /\ BatchFits(source, Upto(base, cursor, e), config)
                                            => BatchFits(source, Upto(base, cursor, e - 1), config)
    BY LongerHasMore
  <2>. HIDE DEF C, R
  <2>. QED BY <2>1, <2>2
<1>4. Upto(base, cursor, cursor) = base \cup {cursor}
  BY DEF Upto
<1>5. end = IF fitting = {} THEN NoBlock
            ELSE IF reached = {} THEN Max(fitting)
            ELSE IF first = cursor \/ closer THEN first ELSE first - 1
  <2>1. CASE fitting = {}
    BY <2>1 DEF EndNearTarget, Upto
  <2>2. CASE fitting # {}
    <3>1. reached = {e \in fitting : CharsOf(source, Upto(base, cursor, e), config) >= target}
      OBVIOUS
    <3>2. CASE reached = {}
      BY <2>2, <3>1, <3>2 DEF EndNearTarget, Upto
    <3>3. CASE reached # {}
      <4>1. first \in reached
        BY <1>1, <3>3, MinIs
      <4>2. first \in R
        BY <4>1
      <4>3. first # cursor => first - 1 \in R
        BY <1>1, <1>3, <4>2
      <4>4. C[first] = CharsOf(source, Upto(base, cursor, first), config)
        BY <4>2
      <4>5. first # cursor => C[first - 1] = CharsOf(source, Upto(base, cursor, first - 1), config)
        BY <4>3
      <4>. QED BY <2>2, <3>1, <3>3, <4>4, <4>5 DEF EndNearTarget, Upto
    <3>. QED BY <3>2, <3>3
  <2>. QED BY <2>1, <2>2
<1>. HIDE DEF end, C, target, closer, first
<1>6. \A e \in fitting : cursor \in fitting
  <2>1. \A k \in 0..n : cursor + k \in fitting => cursor \in fitting
    <3> DEFINE Down == {k \in 0..n : cursor + k \in fitting => cursor \in fitting}
    <3>1. 0 \in Down
      BY <1>1
    <3>2. ASSUME NEW k \in 0..(n - 1), k \in Down PROVE k + 1 \in Down
      <4>1. cursor + (k + 1) \in fitting => cursor + k \in fitting
        <5>. SUFFICES ASSUME cursor + (k + 1) \in fitting PROVE cursor + k \in fitting
          OBVIOUS
        <5>1. cursor + (k + 1) \in R /\ cursor < cursor + (k + 1) /\ (cursor + (k + 1)) - 1 = cursor + k
          BY <1>1
        <5>. QED BY <1>3, <5>1
      <4>2. k + 1 \in 0..n
        BY <1>1
      <4>. QED BY <3>2, <4>1, <4>2
    <3>3. 0..n \subseteq Down
      <4>. HIDE DEF Down
      <4>. QED BY <1>1, <3>1, <3>2, Induction
    <3>. QED BY <3>3
  <2>2. ASSUME NEW e \in fitting PROVE cursor \in fitting
    <3>1. e - cursor \in 0..n /\ cursor + (e - cursor) = e
      BY <1>1
    <3>. QED BY <2>1, <3>1
  <2>. QED BY <2>2
<1>7. BatchFits(source, base \cup {cursor}, config) <=> cursor \in fitting
  BY <1>1, <1>4
<1>8. CASE ~BatchFits(source, base \cup {cursor}, config)
  <2>1. fitting = {}
    BY <1>6, <1>7, <1>8
  <2>. QED BY <1>5, <1>8, <2>1 DEF end
<1>9. CASE BatchFits(source, base \cup {cursor}, config)
  <2> DEFINE Ends(e) == /\ e \in fitting
                        /\ e + 1 \in fitting => Distance(target, C[e + 1]) >= Distance(target, C[e])
                        /\ cursor < e => Distance(target, C[e]) < Distance(target, C[e - 1])
  <2>0. fitting # {} /\ fitting \subseteq R /\ fitting \in SUBSET Nat
    BY <1>1, <1>7, <1>9
  <2>1. \A e \in R : C[e] < target /\ cursor < e => Distance(target, C[e]) < Distance(target, C[e - 1])
    <3>. SUFFICES ASSUME NEW e \in R, C[e] < target, cursor < e
                  PROVE  Distance(target, C[e]) < Distance(target, C[e - 1])
      OBVIOUS
    <3>1. C[e] \in Nat /\ C[e - 1] \in Nat /\ C[e - 1] < C[e]
      BY <1>3
    <3>2. Distance(target, C[e]) = target - C[e] /\ Distance(target, C[e - 1]) = target - C[e - 1]
      BY <1>2, <3>1 DEF Distance
    <3>. QED BY <1>2, <3>1, <3>2
  <2>2. ASSUME reached = {} PROVE Ends(end)
    <3>1. end = Max(fitting)
      BY <1>5, <2>0, <2>2
    <3>2. end \in fitting /\ \A e \in fitting : e <= end
      <4>1. fitting \in SUBSET (1..n)
        BY <1>1
      <4>. HIDE DEF fitting
      <4>. QED BY <1>1, <2>0, <3>1, <4>1, MaxIs
    <3>3. end + 1 \notin fitting
      <4>1. end \in Nat
        BY <2>0, <3>2
      <4>. QED BY <3>2, <4>1
    <3>4. C[end] < target
      <4>1. ~(C[end] >= target) /\ C[end] \in Nat
        BY <1>3, <2>0, <2>2, <3>2
      <4>. QED BY <1>2, <4>1
    <3>. QED BY <2>0, <2>1, <3>2, <3>3, <3>4
  <2>3. ASSUME reached # {} PROVE Ends(end)
    <3>1. first \in reached /\ \A e \in reached : first <= e
      BY <1>1, <2>3, MinIs DEF first
    <3>2. first \in R /\ first \in fitting /\ C[first] >= target /\ C[first] \in Nat /\ first \in Nat
      BY <1>1, <1>3, <3>1
    <3>3. CASE first = cursor \/ closer
      <4>1. end = first
        BY <1>5, <2>0, <2>3, <3>3
      <4>2. first + 1 \in fitting => Distance(target, C[first + 1]) >= Distance(target, C[first])
        <5>. SUFFICES ASSUME first + 1 \in fitting
                      PROVE  Distance(target, C[first + 1]) >= Distance(target, C[first])
          OBVIOUS
        <5>1. first + 1 \in R /\ cursor < first + 1 /\ (first + 1) - 1 = first
          BY <1>1, <3>2
        <5>2. C[first + 1] \in Nat /\ C[first] < C[first + 1]
          BY <1>3, <5>1
        <5>. QED BY <1>2, <3>2, <5>2 DEF Distance
      <4>3. cursor < first => Distance(target, C[first]) < Distance(target, C[first - 1])
        BY <1>1, <3>2, <3>3 DEF closer
      <4>. QED BY <3>2, <4>1, <4>2, <4>3
    <3>4. CASE ~(first = cursor \/ closer)
      <4>1. end = first - 1
        BY <1>5, <2>0, <2>3, <3>4
      <4>2. cursor < first
        BY <1>1, <3>2, <3>4
      <4>3. first - 1 \in R /\ C[first - 1] < C[first] /\ first - 1 \in fitting /\ C[first - 1] \in Nat
        BY <1>3, <3>2, <4>2
      <4>4. C[first - 1] < target
        <5>1. first - 1 \notin reached
          BY <3>1, <3>2
        <5>2. ~(C[first - 1] >= target)
          BY <4>3, <5>1
        <5>. QED BY <1>2, <4>3, <5>2
      <4>5. Distance(target, C[first]) >= Distance(target, C[first - 1])
        <5>1. ~(Distance(target, C[first]) < Distance(target, C[first - 1]))
          BY <3>4 DEF closer
        <5>2. Distance(target, C[first]) \in Int /\ Distance(target, C[first - 1]) \in Int
          BY <1>2, <3>2, <4>3 DEF Distance
        <5>. QED BY <5>1, <5>2
      <4>6. (first - 1) + 1 = first
        BY <3>2
      <4>. QED BY <2>1, <4>1, <4>3, <4>4, <4>5, <4>6
    <3>. QED BY <3>3, <3>4
  <2>4. Ends(end)
    BY <2>2, <2>3
  <2>5. end \in R /\ end # NoBlock
    BY <1>1, <2>0, <2>4 DEF NoBlock
  <2>6. BatchFits(source, Upto(base, cursor, end), config)
    BY <2>4
  <2>7. C[end] = CharsOf(source, Upto(base, cursor, end), config)
    BY <1>3, <2>5
  <2>8. ASSUME end < n, BatchFits(source, Upto(base, cursor, end + 1), config)
        PROVE  OffTarget(source, Upto(base, cursor, end + 1), config)
                  >= OffTarget(source, Upto(base, cursor, end), config)
    <3>1. end + 1 \in R
      BY <1>1, <2>5, <2>8
    <3>2. end + 1 \in fitting
      BY <2>8, <3>1
    <3>3. C[end + 1] = CharsOf(source, Upto(base, cursor, end + 1), config)
      BY <1>3, <3>1
    <3>. QED BY <2>4, <2>7, <3>2, <3>3 DEF OffTarget, target
  <2>9. ASSUME cursor < end
        PROVE  OffTarget(source, Upto(base, cursor, end), config)
                  < OffTarget(source, Upto(base, cursor, end - 1), config)
    <3>1. end - 1 \in R
      BY <1>3, <2>5, <2>9
    <3>2. C[end - 1] = CharsOf(source, Upto(base, cursor, end - 1), config)
      BY <1>3, <3>1
    <3>. QED BY <2>4, <2>7, <2>9, <3>2 DEF OffTarget, target
  <2>10. EndsNear(source, base, cursor, config, end)
    BY <2>5, <2>6, <2>8, <2>9 DEF EndsNear
  <2>. QED BY <1>9, <2>5, <2>10 DEF end
<1>. QED BY <1>8, <1>9

-----------------------------------------------------------------------------
(* The last ones of a set of blocks. *)

Upper(U, S) == U \subseteq S /\ \A i \in U, j \in S : i < j => j \in U

LEMMA TailIsUpper ==
    ASSUME NEW S \in SUBSET Nat, IsFiniteSet(S), NEW k \in Nat
    PROVE  Upper(TailOf(S, k), S) /\ TailOf(S, 0) = {}
<1> DEFINE Over(i) == {j \in S : j > i}
<1>1. \A i : IsFiniteSet(Over(i)) /\ Cardinality(Over(i)) \in Nat
  <2>. SUFFICES ASSUME NEW i PROVE IsFiniteSet(Over(i)) /\ Cardinality(Over(i)) \in Nat
    OBVIOUS
  <2>1. Over(i) \subseteq S
    OBVIOUS
  <2>. HIDE DEF Over
  <2>. QED BY <2>1, FS_Subset, FS_CardinalityType
<1>2. ASSUME NEW i \in S, NEW j \in S, i < j PROVE Cardinality(Over(j)) <= Cardinality(Over(i))
  <2>1. Over(j) \subseteq Over(i)
    <3>. SUFFICES ASSUME NEW x \in S, x > j PROVE x > i
      OBVIOUS
    <3>1. x \in Nat /\ i \in Nat /\ j \in Nat
      OBVIOUS
    <3>. QED BY <1>2, <3>1
  <2>. HIDE DEF Over
  <2>. QED BY <1>1, <2>1, FS_Subset
<1>3. \A i, m : i \in TailOf(S, m) <=> i \in S /\ Cardinality(Over(i)) < m
  BY DEF TailOf
<1>. HIDE DEF Over
<1>4. ASSUME NEW i \in TailOf(S, k), NEW j \in S, i < j PROVE j \in TailOf(S, k)
  <2>1. i \in S /\ Cardinality(Over(i)) < k
    BY <1>3
  <2>2. Cardinality(Over(j)) <= Cardinality(Over(i))
    BY <1>2, <1>4, <2>1
  <2>3. Cardinality(Over(j)) < k
    BY <1>1, <2>1, <2>2
  <2>. QED BY <1>3, <2>3
<1>5. TailOf(S, 0) = {}
  <2>1. \A i : ~(Cardinality(Over(i)) < 0)
    BY <1>1
  <2>. QED BY <1>3, <2>1
<1>6. TailOf(S, k) \subseteq S
  BY <1>3
<1>. QED BY <1>4, <1>5, <1>6 DEF Upper

LEMMA UpperInTail ==
    ASSUME NEW S \in SUBSET Nat, IsFiniteSet(S), NEW U, Upper(U, S), NEW k \in Nat,
           Cardinality(U) <= k
    PROVE  U \subseteq TailOf(S, k)
<1> DEFINE Over(i) == {j \in S : j > i}
<1>1. U \subseteq S /\ \A i \in U, j \in S : i < j => j \in U
  BY DEF Upper
<1>2. IsFiniteSet(U)
  BY <1>1, FS_Subset
<1>3. ASSUME NEW i \in U PROVE i \in TailOf(S, k)
  <2>1. Over(i) \subseteq U \ {i}
    <3>. SUFFICES ASSUME NEW x \in S, x > i PROVE x \in U /\ x # i
      OBVIOUS
    <3>1. x \in Nat /\ i \in Nat
      BY <1>1
    <3>2. i < x /\ x # i
      BY <3>1
    <3>. QED BY <1>1, <3>2
  <2>2. IsFiniteSet(U \ {i}) /\ Cardinality(U \ {i}) = Cardinality(U) - 1 /\ Cardinality(U) \in Nat \ {0}
    BY <1>2, SmallerByOne
  <2>3. i \in TailOf(S, k) <=> i \in S /\ Cardinality(Over(i)) < k
    BY DEF TailOf
  <2>. HIDE DEF Over
  <2>4. Cardinality(Over(i)) <= Cardinality(U \ {i}) /\ Cardinality(Over(i)) \in Nat
    BY <2>1, <2>2, FS_Subset, FS_CardinalityType
  <2>5. Cardinality(Over(i)) < k
    BY <2>2, <2>4
  <2>. QED BY <1>1, <2>3, <2>5
<1>. QED BY <1>3

LEMMA UpperIsTail ==
    ASSUME NEW S \in SUBSET Nat, IsFiniteSet(S), NEW U, Upper(U, S)
    PROVE  U = TailOf(S, Cardinality(U)) /\ Cardinality(U) \in 0..Cardinality(S)
<1> DEFINE Over(i) == {j \in S : j > i}
           k == Cardinality(U)
<1>1. U \subseteq S /\ \A i \in U, j \in S : i < j => j \in U
  BY DEF Upper
<1>2. IsFiniteSet(U) /\ k \in Nat /\ Cardinality(S) \in Nat /\ k <= Cardinality(S)
  BY <1>1, FS_Subset, FS_CardinalityType
<1>3. U \subseteq TailOf(S, k)
  <2>1. k <= k
    BY <1>2
  <2>. QED BY <1>2, <2>1, UpperInTail
<1>4. ASSUME NEW i \in S, i \notin U PROVE i \notin TailOf(S, k)
  <2>1. U \subseteq Over(i)
    <3>. SUFFICES ASSUME NEW u \in U PROVE u \in S /\ u > i
      OBVIOUS
    <3>1. u \in Nat /\ i \in Nat /\ u \in S
      BY <1>1
    <3>2. ~(u < i) /\ u # i
      BY <1>1, <1>4
    <3>. QED BY <3>1, <3>2
  <2>2. Over(i) \subseteq S
    OBVIOUS
  <2>3. i \in TailOf(S, k) <=> i \in S /\ Cardinality(Over(i)) < k
    BY DEF TailOf
  <2>. HIDE DEF Over
  <2>4. IsFiniteSet(Over(i))
    BY <2>2, FS_Subset
  <2>5. k <= Cardinality(Over(i)) /\ Cardinality(Over(i)) \in Nat
    BY <2>1, <2>4, FS_Subset, FS_CardinalityType
  <2>. QED BY <1>2, <2>3, <2>5
<1>5. TailOf(S, k) \subseteq S
  BY DEF TailOf
<1>6. U = TailOf(S, k)
  BY <1>3, <1>4, <1>5
<1>. QED BY <1>2, <1>6

LEMMA UpperOfUpper ==
    ASSUME NEW S \in SUBSET Nat, NEW T, NEW U, Upper(T, S), Upper(U, T)
    PROVE  Upper(U, S)
BY DEF Upper

\* One more of them is the greatest that is left.
LEMMA UpperAndOne ==
    ASSUME NEW S \in SUBSET Nat, IsFiniteSet(S), NEW U, Upper(U, S), NEW i \in S \ U,
           \A j \in S \ U : j <= i, NEW k \in Nat, Cardinality(U) < k
    PROVE  /\ Upper(U \cup {i}, TailOf(S, k))
           /\ Cardinality(U \cup {i}) = Cardinality(U) + 1 /\ Cardinality(U) \in Nat
<1>1. U \subseteq S /\ \A x \in U, j \in S : x < j => j \in U
  BY DEF Upper
<1>2. IsFiniteSet(U) /\ Cardinality(U) \in Nat
  BY <1>1, FS_Subset, FS_CardinalityType
<1>3. Cardinality(U \cup {i}) = Cardinality(U) + 1
  BY <1>2, FS_AddElement
<1>4. Upper(U \cup {i}, S)
  <2>1. \A j \in S : i < j => j \in U
    <3>. SUFFICES ASSUME NEW j \in S, i < j, j \notin U PROVE FALSE
      OBVIOUS
    <3>1. j <= i /\ j \in Nat /\ i \in Nat
      OBVIOUS
    <3>. QED BY <3>1
  <2>. QED BY <1>1, <2>1 DEF Upper
<1>5. Cardinality(U \cup {i}) <= k
  BY <1>2, <1>3
<1>6. U \cup {i} \subseteq TailOf(S, k)
  BY <1>4, <1>5, UpperInTail
<1>7. TailOf(S, k) \subseteq S
  BY DEF TailOf
<1>. QED BY <1>2, <1>3, <1>4, <1>6, <1>7 DEF Upper

-----------------------------------------------------------------------------
(* The next request. *)

HeadingFor(source, cursor, config) ==
    IF config.headings THEN HeadingBefore(source, cursor) ELSE NoBlock
Working(source, cursor, previous, config) ==
    {a \in Attempts(TailOf(previous, config.overlap), HeadingFor(source, cursor, config)) :
        /\ a.context \cap a.overlap = {}
        /\ EndNearTarget(source, a.overlap \cup a.context, cursor, config) # NoBlock}
BestOf(working) == CHOOSE a \in working : \A b \in working : Sooner(a, b)

LEMMA NextUnfolded ==
    ASSUME NEW source, NEW cursor, NEW previous, NEW config, NEW working,
           working = Working(source, cursor, previous, config)
    PROVE  PlanNext(source, cursor, previous, config) =
             IF working = {} THEN << >>
             ELSE <<[primary |-> cursor..EndNearTarget(source, BestOf(working).overlap \cup BestOf(working).context,
                                                       cursor, config),
                     overlap |-> BestOf(working).overlap, context |-> BestOf(working).context]>>
BY DEF PlanNext, Working, BestOf, HeadingFor

LEMMA HeadingIsBefore ==
    ASSUME NEW source, NEW cursor \in Nat \ {0}, NEW config
    PROVE  HeadingFor(source, cursor, config) \in 0..(cursor - 1)
<1> DEFINE S == {i \in 1..(cursor - 1) : source[i].heading}
<1>1. CASE S = {}
  <2>1. HeadingBefore(source, cursor) = NoBlock
    BY <1>1 DEF HeadingBefore
  <2>2. HeadingFor(source, cursor, config) = 0
    BY <2>1 DEF HeadingFor, NoBlock
  <2>. QED BY <2>2
<1>2. CASE S # {}
  <2>1. HeadingBefore(source, cursor) = Max(S)
    BY <1>2 DEF HeadingBefore
  <2>2. cursor - 1 \in Nat /\ S \in SUBSET (1..(cursor - 1))
    BY <1>2
  <2>3. Max(S) \in S
    <3>. HIDE DEF S
    <3>. QED BY <1>2, <2>2, MaxIs
  <2>4. Max(S) \in 0..(cursor - 1) /\ 0 \in 0..(cursor - 1)
    BY <2>2, <2>3
  <2>. QED BY <2>1, <2>4 DEF HeadingFor, NoBlock
<1>. QED BY <1>1, <1>2

\* The attempts that work are those whose first message fits.
LEMMA AttemptsWork ==
    ASSUME NEW source \in Seq(SourceRows), NEW config \in Configs, NEW cursor \in 1..Len(source),
           NEW previous \in SUBSET (1..(cursor - 1))
    PROVE  \A a : a \in Working(source, cursor, previous, config) <=>
             /\ a = [overlap |-> a.overlap, context |-> a.context]
             /\ Upper(a.overlap, TailOf(previous, config.overlap))
             /\ \/ a.context = {}
                \/ a.context = {HeadingFor(source, cursor, config)} \ {NoBlock}
             /\ a.context \cap a.overlap = {}
             /\ BatchFits(source, (a.overlap \cup a.context) \cup {cursor}, config)
<1> DEFINE tail == TailOf(previous, config.overlap)
           h == HeadingFor(source, cursor, config)
           Tails == {TailOf(tail, n) : n \in 0..Cardinality(tail)}
           Contexts == {{}, {h} \ {NoBlock}}
<1>1. cursor \in Nat \ {0} /\ cursor - 1 \in Nat /\ config.overlap \in Nat
  BY DEF Configs
<1>2. tail \subseteq previous /\ previous \in SUBSET Nat /\ tail \in SUBSET Nat
  <2>1. tail \subseteq previous
    BY DEF TailOf
  <2>2. previous \in SUBSET Nat
    OBVIOUS
  <2>. HIDE DEF tail
  <2>. QED BY <2>1, <2>2
<1>3. IsFiniteSet(tail)
  <2>1. IsFiniteSet(1..(cursor - 1))
    BY <1>1, CountTo
  <2>2. tail \subseteq 1..(cursor - 1)
    BY <1>2
  <2>. HIDE DEF tail
  <2>. QED BY <2>1, <2>2, FS_Subset
<1>4. h \in 0..(cursor - 1)
  BY <1>1, HeadingIsBefore
<1>. HIDE DEF tail, h
<1>5. \A U : U \in Tails <=> Upper(U, tail)
  <2>1. \A n \in 0..Cardinality(tail) : Upper(TailOf(tail, n), tail)
    BY <1>2, <1>3, TailIsUpper
  <2>2. ASSUME NEW U, Upper(U, tail) PROVE U \in Tails
    <3>1. U = TailOf(tail, Cardinality(U)) /\ Cardinality(U) \in 0..Cardinality(tail)
      BY <1>2, <1>3, <2>2, UpperIsTail
    <3>. QED BY <3>1
  <2>. QED BY <2>1, <2>2
<1>6. ASSUME NEW U, Upper(U, tail), NEW X \in Contexts
      PROVE  /\ U \cup X \in SUBSET (1..(cursor - 1))
             /\ EndNearTarget(source, U \cup X, cursor, config) # NoBlock
                  <=> BatchFits(source, (U \cup X) \cup {cursor}, config)
  <2>1. U \in SUBSET (1..(cursor - 1))
    BY <1>2, <1>6 DEF Upper
  <2>2. X \in SUBSET (1..(cursor - 1))
    BY <1>4 DEF NoBlock
  <2> DEFINE base == U \cup X
  <2>3. base \in SUBSET (1..(cursor - 1))
    BY <2>1, <2>2
  <2>. HIDE DEF base
  <2>4. EndNearTarget(source, base, cursor, config) # NoBlock
          <=> BatchFits(source, base \cup {cursor}, config)
    BY <2>3, EndIs
  <2>. QED BY <2>3, <2>4 DEF base
<1>7. \A a : a \in [overlap: Tails, context: Contexts] <=>
               /\ a = [overlap |-> a.overlap, context |-> a.context]
               /\ a.overlap \in Tails /\ a.context \in Contexts
  <2>. HIDE DEF Tails, Contexts
  <2>. QED OBVIOUS
<1>8. Attempts(tail, h) = [overlap: Tails, context: Contexts]
  BY DEF Attempts
<1>9. \A X : X \in Contexts <=> X = {} \/ X = {h} \ {NoBlock}
  OBVIOUS
<1>. HIDE DEF Tails, Contexts
<1>10. ASSUME NEW a
       PROVE  a \in Working(source, cursor, previous, config) <=>
                /\ a = [overlap |-> a.overlap, context |-> a.context]
                /\ Upper(a.overlap, tail)
                /\ a.context = {} \/ a.context = {h} \ {NoBlock}
                /\ a.context \cap a.overlap = {}
                /\ BatchFits(source, (a.overlap \cup a.context) \cup {cursor}, config)
  <2>1. a \in Working(source, cursor, previous, config) <=>
           /\ a \in Attempts(tail, h)
           /\ a.context \cap a.overlap = {}
           /\ EndNearTarget(source, a.overlap \cup a.context, cursor, config) # NoBlock
    BY DEF Working, tail, h
  <2>2. a \in Attempts(tail, h) <=>
           /\ a = [overlap |-> a.overlap, context |-> a.context]
           /\ Upper(a.overlap, tail)
           /\ a.context \in Contexts
    BY <1>5, <1>7, <1>8
  <2>3. Upper(a.overlap, tail) /\ a.context \in Contexts =>
           (EndNearTarget(source, a.overlap \cup a.context, cursor, config) # NoBlock
              <=> BatchFits(source, (a.overlap \cup a.context) \cup {cursor}, config))
    BY <1>6
  <2>4. a.context \in Contexts <=> a.context = {} \/ a.context = {h} \ {NoBlock}
    BY <1>9
  <2>. QED BY <2>1, <2>2, <2>3, <2>4
<1>. QED BY <1>10 DEF tail, h

\* One of them is the best.
LEMMA BestIs ==
    ASSUME NEW W, NEW T \in SUBSET Nat, IsFiniteSet(T), NEW X,
           \A a \in W : Upper(a.overlap, T) /\ (a.context = {} \/ a.context = X), W # {}
    PROVE  BestOf(W) \in W /\ \A b \in W : Sooner(BestOf(W), b)
<1> DEFINE n == Cardinality(T)
           K == {Cardinality(a.overlap) : a \in W}
           k == Max(K)
<1>1. \A a \in W : a.overlap = TailOf(T, Cardinality(a.overlap)) /\ Cardinality(a.overlap) \in 0..n
  BY UpperIsTail
<1>2. n \in Nat
  BY FS_CardinalityType
<1>. HIDE DEF n
<1>3. K \in SUBSET (0..n) /\ K # {}
  BY <1>1
<1>4. PICK m \in K : \A l \in K : l <= m
  <2> DEFINE G == {n - l : l \in K}
  <2>0. \A l \in K : l \in Nat /\ l <= n /\ n - l \in Nat /\ n - l \in G
    BY <1>2, <1>3
  <2>1. G \in SUBSET Nat /\ G # {}
    BY <1>3, <2>0
  <2>2. PICK g \in G : \A y \in G : g <= y
    <3>. HIDE DEF G
    <3>. QED BY <2>1, LeastNumber
  <2>3. PICK m \in K : g = n - m
    BY <2>2
  <2>4. \A l \in K : n - m <= n - l
    BY <2>0, <2>2, <2>3
  <2>. HIDE DEF K, G
  <2>5. \A l \in K : l <= m
    <3>. SUFFICES ASSUME NEW l \in K PROVE l <= m
      OBVIOUS
    <3>1. n - m <= n - l /\ l \in Nat /\ m \in Nat
      BY <2>0, <2>3, <2>4
    <3>. QED BY <1>2, <3>1
  <2>. QED BY <2>3, <2>5
<1>5. \A a \in W : Cardinality(a.overlap) \in Nat /\ Cardinality(a.overlap) <= m /\ m \in Nat
  BY <1>1, <1>2, <1>3, <1>4
<1> DEFINE top == {a \in W : Cardinality(a.overlap) = m}
<1>6. top # {} /\ \A a, b \in top : a.overlap = b.overlap
  BY <1>1, <1>4
<1>. HIDE DEF K
<1>7. PICK a \in top : \A b \in top : b.context \subseteq a.context
  <2>1. CASE \E a \in top : a.context = X
    BY <2>1
  <2>2. CASE ~\E a \in top : a.context = X
    BY <1>6, <2>2
  <2>. QED BY <2>1, <2>2
<1>8. ASSUME NEW b \in W PROVE Sooner(a, b)
  <2>1. CASE b \in top
    BY <1>6, <1>7, <2>1 DEF Sooner
  <2>2. CASE b \notin top
    <3>1. Cardinality(b.overlap) # m /\ Cardinality(a.overlap) = m
      BY <1>7, <1>8, <2>2
    <3>2. Cardinality(a.overlap) > Cardinality(b.overlap)
      BY <1>5, <1>8, <3>1
    <3>. QED BY <3>2 DEF Sooner
  <2>. QED BY <2>1, <2>2
<1>9. \E c \in W : \A b \in W : Sooner(c, b)
  BY <1>7, <1>8
<1>. QED BY <1>9 DEF BestOf

\* The next request: where it ends, and that what surrounds its primary blocks is a
\* whole end of the request before and the heading, as much of them as there is room for.
KeepsOverlap(b, source, cursor, previous, config) ==
    \A i \in previous \ b.overlap :
        /\ \A j \in previous \ b.overlap : j <= i
        /\ Cardinality(b.overlap) < config.overlap
        => ~BatchFits(source, (b.overlap \cup {i}) \cup {cursor}, config)
KeepsHeading(b, source, cursor, config) ==
    LET h == HeadingFor(source, cursor, config) IN
    h # NoBlock /\ h \notin b.overlap \cup b.context
        => ~BatchFits(source, (b.overlap \cup {h}) \cup {cursor}, config)
PlannedNext(b, source, cursor, previous, config) ==
    /\ b = [primary |-> b.primary, overlap |-> b.overlap, context |-> b.context]
    /\ Upper(b.overlap, previous)
    /\ b.context = {} \/ b.context = {HeadingFor(source, cursor, config)} \ {NoBlock}
    /\ \E e \in cursor..Len(source) :
         b.primary = cursor..e /\ EndsNear(source, b.overlap \cup b.context, cursor, config, e)
    /\ KeepsOverlap(b, source, cursor, previous, config)
    /\ KeepsHeading(b, source, cursor, config)

LEMMA NextIs ==
    ASSUME NEW source \in Seq(SourceRows), NEW config \in Configs, NEW cursor \in 1..Len(source),
           NEW previous \in SUBSET (1..(cursor - 1))
    PROVE  IF BatchFits(source, {cursor}, config)
           THEN \E b : /\ PlanNext(source, cursor, previous, config) = <<b>>
                       /\ PlannedNext(b, source, cursor, previous, config)
           ELSE PlanNext(source, cursor, previous, config) = << >>
<1> DEFINE tail == TailOf(previous, config.overlap)
           h == HeadingFor(source, cursor, config)
           H == {h} \ {NoBlock}
           W == Working(source, cursor, previous, config)
           best == BestOf(W)
           Works(a) == /\ a = [overlap |-> a.overlap, context |-> a.context]
                       /\ Upper(a.overlap, tail)
                       /\ a.context = {} \/ a.context = H
                       /\ a.context \cap a.overlap = {}
                       /\ BatchFits(source, (a.overlap \cup a.context) \cup {cursor}, config)
<1>1. cursor \in Nat \ {0} /\ cursor - 1 \in Nat /\ config.overlap \in Nat /\ Len(source) \in Nat
  BY DEF Configs
<1>2. previous \in SUBSET Nat /\ IsFiniteSet(previous)
  <2>1. IsFiniteSet(1..(cursor - 1))
    BY <1>1, CountTo
  <2>2. IsFiniteSet(previous)
    BY <2>1, FS_Subset
  <2>3. previous \in SUBSET Nat
    OBVIOUS
  <2>. QED BY <2>2, <2>3
<1>3. Upper(tail, previous) /\ tail \subseteq previous
  BY <1>1, <1>2, TailIsUpper DEF Upper
<1>4. tail \in SUBSET Nat /\ IsFiniteSet(tail)
  <2>. HIDE DEF tail
  <2>. QED BY <1>2, <1>3, FS_Subset
<1>5. \A a : a \in W <=> Works(a)
  BY AttemptsWork
<1>6. h \in 0..(cursor - 1)
  BY <1>1, HeadingIsBefore
<1>. HIDE DEF W, tail, h, best
<1>7. H \in SUBSET (1..(cursor - 1))
  BY <1>6 DEF NoBlock
<1>. HIDE DEF H
<1>8. ASSUME NEW a \in W
      PROVE  /\ a.overlap \in SUBSET previous /\ Upper(a.overlap, previous)
             /\ a.overlap \cup a.context \in SUBSET (1..(cursor - 1))
             /\ (a.overlap \cup a.context) \cup {cursor} \in SUBSET (1..Len(source))
  <2>1. Upper(a.overlap, tail) /\ (a.context = {} \/ a.context = H)
    BY <1>5
  <2>2. Upper(a.overlap, previous)
    BY <1>2, <1>3, <2>1, UpperOfUpper
  <2>3. a.overlap \in SUBSET previous
    BY <2>2 DEF Upper
  <2>4. a.overlap \cup a.context \in SUBSET (1..(cursor - 1))
    BY <1>7, <2>1, <2>3
  <2>5. \A i \in 1..(cursor - 1) : i \in 1..Len(source)
    BY <1>1
  <2>. QED BY <2>2, <2>3, <2>4, <2>5
<1>9. BatchFits(source, {cursor}, config) <=> W # {}
  <2>1. ASSUME BatchFits(source, {cursor}, config) PROVE W # {}
    <3> DEFINE none == [overlap |-> {}, context |-> {}]
    <3>1. none.overlap = {} /\ none.context = {} /\ (({} \cup {}) \cup {cursor}) = {cursor}
      OBVIOUS
    <3>2. Upper({}, tail)
      BY DEF Upper
    <3>3. none = [overlap |-> none.overlap, context |-> none.context]
      OBVIOUS
    <3>. HIDE DEF none
    <3>4. Works(none)
      BY <2>1, <3>1, <3>2, <3>3
    <3>. QED BY <1>5, <3>4
  <2>2. ASSUME NEW a \in W PROVE BatchFits(source, {cursor}, config)
    <3> DEFINE S == (a.overlap \cup a.context) \cup {cursor}
    <3>1. BatchFits(source, S, config) /\ S \in SUBSET (1..Len(source)) /\ {cursor} \in SUBSET S
      BY <1>5, <1>8
    <3>. HIDE DEF S
    <3>. QED BY <3>1, LessFits
  <2>. QED BY <2>1, <2>2
<1> DEFINE end == EndNearTarget(source, best.overlap \cup best.context, cursor, config)
           b == [primary |-> cursor..end, overlap |-> best.overlap, context |-> best.context]
<1>10. PlanNext(source, cursor, previous, config) = IF W = {} THEN << >> ELSE <<b>>
  BY NextUnfolded DEF W, best
<1>11. CASE ~BatchFits(source, {cursor}, config)
  BY <1>9, <1>10, <1>11
<1>12. CASE BatchFits(source, {cursor}, config)
  <2>1. best \in W /\ \A a \in W : Sooner(best, a)
    <3>1. \A a \in W : Upper(a.overlap, tail) /\ (a.context = {} \/ a.context = H)
      BY <1>5
    <3>. QED BY <1>4, <1>9, <1>12, <3>1, BestIs DEF best
  <2> DEFINE base == best.overlap \cup best.context
  <2>2. base \in SUBSET (1..(cursor - 1)) /\ BatchFits(source, base \cup {cursor}, config)
    BY <1>5, <1>8, <2>1
  <2>3. /\ b.primary = cursor..end /\ b.overlap = best.overlap /\ b.context = best.context
        /\ b = [primary |-> b.primary, overlap |-> b.overlap, context |-> b.context]
    OBVIOUS
  <2>4. EndsNear(source, base, cursor, config, end)
    <3>. HIDE DEF base
    <3>. QED BY <2>2, EndIs DEF base
  <2>5. end \in cursor..Len(source)
    BY <2>4 DEF EndsNear
  <2>. HIDE DEF b, end
  <2>6. Upper(b.overlap, previous) /\ (b.context = {} \/ b.context = H)
    BY <1>5, <1>8, <2>1, <2>3
  <2>7. KeepsOverlap(b, source, cursor, previous, config)
    <3>. SUFFICES ASSUME NEW i \in previous \ b.overlap, \A j \in previous \ b.overlap : j <= i,
                         Cardinality(b.overlap) < config.overlap,
                         BatchFits(source, (b.overlap \cup {i}) \cup {cursor}, config)
                  PROVE  FALSE
      BY DEF KeepsOverlap
    <3> DEFINE U == b.overlap \cup {i}
               a == [overlap |-> U, context |-> {}]
    <3>1. Upper(U, tail) /\ Cardinality(U) = Cardinality(b.overlap) + 1 /\ Cardinality(b.overlap) \in Nat
      BY <1>1, <1>2, <2>6, UpperAndOne DEF tail
    <3>2. a.overlap = U /\ a.context = {} /\ a = [overlap |-> a.overlap, context |-> a.context]
      OBVIOUS
    <3>3. (U \cup {}) \cup {cursor} = U \cup {cursor}
      OBVIOUS
    <3>. HIDE DEF a
    <3>4. Works(a)
      BY <3>1, <3>2, <3>3
    <3>5. Sooner(best, a)
      BY <1>5, <2>1, <3>4
    <3>6. Cardinality(best.overlap) = Cardinality(b.overlap) /\ best.overlap = b.overlap
      BY <2>3
    <3>7. b.overlap # U
      OBVIOUS
    <3>8. ~(Cardinality(b.overlap) > Cardinality(U))
      <4>. HIDE DEF U
      <4>. QED BY <3>1
    <3>. QED BY <3>2, <3>5, <3>6, <3>7, <3>8 DEF Sooner
  <2>8. KeepsHeading(b, source, cursor, config)
    <3>. SUFFICES ASSUME h # NoBlock, h \notin b.overlap \cup b.context,
                         BatchFits(source, (b.overlap \cup {h}) \cup {cursor}, config)
                  PROVE  FALSE
      BY DEF KeepsHeading, h
    <3> DEFINE a == [overlap |-> b.overlap, context |-> H]
    <3>0. H = {h}
      BY DEF H
    <3>1. a.overlap = b.overlap /\ a.context = H /\ a = [overlap |-> a.overlap, context |-> a.context]
      OBVIOUS
    <3>. HIDE DEF a
    <3>2. Upper(b.overlap, tail)
      BY <1>5, <2>1, <2>3
    <3>3. Works(a)
      BY <3>0, <3>1, <3>2
    <3>4. Sooner(best, a)
      BY <1>5, <2>1, <3>3
    <3>5. Cardinality(b.overlap) \in Nat
      <4>1. b.overlap \subseteq previous
        BY <2>6 DEF Upper
      <4>. QED BY <1>2, <4>1, FS_Subset, FS_CardinalityType
    <3>6. ~(Cardinality(best.overlap) > Cardinality(a.overlap))
      BY <2>3, <3>1, <3>5
    <3>7. a.context \subseteq best.context
      BY <3>4, <3>6 DEF Sooner
    <3>. QED BY <2>3, <3>0, <3>1, <3>7
  <2>9. PlannedNext(b, source, cursor, previous, config)
    BY <2>3, <2>4, <2>5, <2>6, <2>7, <2>8 DEF PlannedNext, H, h
  <2>10. PlanNext(source, cursor, previous, config) = <<b>>
    BY <1>9, <1>10, <1>12
  <2>. QED BY <1>12, <2>9, <2>10
<1>. QED BY <1>11, <1>12

-----------------------------------------------------------------------------
(* The plan, round by round. *)

PreviousOf(batches) == IF batches = << >> THEN {} ELSE Final(Last(batches))
NextPlan(plan, source, config) ==
    IF plan.cursor > Len(source) \/ plan.tooLarge # NoBlock THEN plan
    ELSE Extended(plan, PlanNext(source, plan.cursor, PreviousOf(plan.batches), config))
FirstPlan == [batches |-> << >>, cursor |-> 1, tooLarge |-> NoBlock]
PlanningStays(T, source, config) == \A plan \in T : NextPlan(plan, source, config) \in T

LEMMA PlannedRoundByRound ==
    ASSUME NEW E, NEW seq \in Seq(E), NEW T, FirstPlan \in T, NEW config, PlanningStays(T, seq, config)
    PROVE  \E acc \in [0..Len(seq) -> T] :
              /\ acc[0] = FirstPlan /\ Plan(seq, config) = acc[Len(seq)]
              /\ \A k \in 0..(Len(seq) - 1) : acc[k + 1] = NextPlan(acc[k], seq, config)
<1> DEFINE n == Len(seq)
           F == [p \in T \X (1..n) |-> NextPlan(p[1], seq, config)]
           Body(g) == [s \in SUBSET DOMAIN seq |->
                         IF s = {} THEN FirstPlan ELSE NextPlan(g[s \ {Max(s)}], seq, config)]
           fold == CHOOSE h : h = Body(h)
           acc == [k \in 0..n |-> fold[1..k]]
<1>1. Plan(seq, config) = fold[DOMAIN seq]
  BY DEF Plan, FoldLeft, MapThenFoldSet, FirstPlan, NextPlan, PreviousOf
<1>2. n \in Nat /\ DOMAIN seq = 1..n /\ \A i \in 1..n : seq[i] \in E
  OBVIOUS
<1>3. F \in [T \X (1..n) -> T]
  <2>. HIDE DEF n
  <2>1. ASSUME NEW p \in T \X (1..n) PROVE NextPlan(p[1], seq, config) \in T
    <3>1. p[1] \in T /\ p[2] \in 1..n
      OBVIOUS
    <3>2. seq[p[2]] \in E
      BY <1>2, <3>1
    <3>. QED BY <3>1, <3>2 DEF PlanningStays
  <2>. QED BY <2>1
<1>4. PICK h \in [SUBSET (1..n) -> T] : FoldsTo(h, n, FirstPlan, F)
  <2>. HIDE DEF F, n
  <2>. QED BY <1>2, <1>3, FoldExists
<1>5. \A s \in SUBSET (1..n) : s # {} => Max(s) \in s /\ Max(s) \in 1..n /\ s \ {Max(s)} \in SUBSET (1..n)
  <2>1. \A s \in SUBSET (1..n) : s # {} => Max(s) \in s
    <3>. HIDE DEF n
    <3>. QED BY <1>2, MaxIs
  <2>. QED BY <2>1
<1>6. \A p \in T \X (1..n) : F[p] = NextPlan(p[1], seq, config)
  OBVIOUS
<1>. HIDE DEF F
<1>7. ASSUME NEW s \in SUBSET (1..n)
      PROVE  h[s] = IF s = {} THEN FirstPlan ELSE NextPlan(h[s \ {Max(s)}], seq, config)
  <2>1. CASE s = {}
    BY <2>1, <1>4 DEF FoldsTo
  <2>2. CASE s # {}
    <3>1. h[s] = F[<<h[s \ {Max(s)}], Max(s)>>]
      BY <2>2, <1>4 DEF FoldsTo
    <3>2. h[s \ {Max(s)}] \in T /\ Max(s) \in 1..n
      <4>. HIDE DEF n
      <4>. QED BY <1>4, <1>5, <2>2
    <3>3. <<h[s \ {Max(s)}], Max(s)>> \in T \X (1..n)
      BY <3>2
    <3>4. F[<<h[s \ {Max(s)}], Max(s)>>] = NextPlan(h[s \ {Max(s)}], seq, config)
      <4>. HIDE DEF n
      <4>. QED BY <1>6, <3>3
    <3>. QED BY <2>2, <3>1, <3>4
  <2>. QED BY <2>1, <2>2
<1>8. h = Body(h)
  <2>. HIDE DEF n
  <2>. QED BY <1>2, <1>4, <1>7
<1>9. fold = Body(fold)
  <2>. HIDE DEF Body
  <2>. QED BY <1>8
<1>. HIDE DEF fold
<1>10. ASSUME NEW s \in SUBSET (1..n)
       PROVE  fold[s] = IF s = {} THEN FirstPlan ELSE NextPlan(fold[s \ {Max(s)}], seq, config)
  <2>. HIDE DEF n
  <2>. QED BY <1>2, <1>9
<1>11. \A k \in 0..n : acc[k] = fold[1..k] /\ 1..k \in SUBSET (1..n)
  OBVIOUS
<1>12. acc[0] = FirstPlan
  <2>1. 1..0 = {} /\ 0 \in 0..n
    BY <1>2
  <2>. QED BY <1>10, <1>11, <2>1
<1>13. ASSUME NEW k \in 0..(n - 1) PROVE acc[k + 1] = NextPlan(acc[k], seq, config)
  <2>1. Max(1..(k + 1)) = k + 1 /\ (1..(k + 1)) \ {k + 1} = 1..k
    BY MaxOfInterval
  <2>a. n \in Nat
    BY <1>2
  <2>2. 1..(k + 1) # {} /\ k \in 0..n /\ k + 1 \in 0..n /\ 1..(k + 1) \in SUBSET (1..n)
    <3>. HIDE DEF n
    <3>1. k \in Nat /\ k + 1 \in Nat /\ ~(k + 1 > n)
      BY <2>a
    <3>2. 1 \in 1..(k + 1) /\ k \in 0..n /\ k + 1 \in 0..n
      BY <2>a, <3>1
    <3>3. \A i \in 1..(k + 1) : i \in 1..n
      BY <2>a, <3>1
    <3>. QED BY <3>2, <3>3
  <2>3. fold[1..(k + 1)] = NextPlan(fold[(1..(k + 1)) \ {Max(1..(k + 1))}], seq, config)
    BY <1>10, <2>2
  <2>4. fold[1..(k + 1)] = NextPlan(fold[1..k], seq, config)
    BY <2>1, <2>3
  <2>5. acc[k] = fold[1..k] /\ acc[k + 1] = fold[1..(k + 1)]
    BY <1>11, <2>2
  <2>. QED BY <2>4, <2>5
<1>14. \A k \in 0..(n - 1) : acc[k] \in T => acc[k + 1] \in T
  <2>1. \A k \in 0..(n - 1) : k + 1 \in 1..n
    BY <1>2
  <2>. HIDE DEF acc, n
  <2>. QED BY <1>2, <1>13, <2>1 DEF PlanningStays
<1>15. \A k \in 0..n : acc[k] \in T
  <2>. HIDE DEF acc, n
  <2>. QED BY <1>2, <1>12, <1>14, StatesStay
<1>16. acc \in [0..n -> T]
  <2>1. acc = [k \in 0..n |-> acc[k]]
    OBVIOUS
  <2>. HIDE DEF acc, n
  <2>. QED BY <1>15, <2>1
<1>17. acc[n] = fold[DOMAIN seq]
  BY <1>2
<1>. HIDE DEF acc
<1>. QED BY <1>1, <1>12, <1>13, <1>16, <1>17

\* What holds of a plan after every round.
HeadingAt(source, c) == Max({0} \cup {j \in 1..(c - 1) : source[j].heading})
HeadingShown(b, c, source) ==
    \A i \in Final(b) : i < c /\ source[i].heading => HeadingAt(source, c) \in Final(b)
BeforeBatch(bs, m) == IF m = 1 THEN {} ELSE Final(bs[m - 1])
Stands(b, c, e, source, previous, config) ==
    /\ b.primary = c..e /\ previous \subseteq 1..(c - 1)
    /\ Upper(b.overlap, previous)
    /\ b.context = {} \/ b.context = {HeadingFor(source, c, config)} \ {NoBlock}
    /\ EndsNear(source, b.overlap \cup b.context, c, config, e)
    /\ KeepsOverlap(b, source, c, previous, config)
    /\ KeepsHeading(b, source, c, config)
    /\ HeadingShown(b, c, source)
SoundBatches(bs, source, config) ==
    \A m \in 1..Len(bs) : \E c \in 1..Len(source) : \E e \in c..Len(source) :
        Stands(bs[m], c, e, source, BeforeBatch(bs, m), config)
Covered(bs, cursor) ==
    /\ \A m \in 1..Len(bs) : bs[m].primary # {} /\ bs[m].primary \subseteq 1..(cursor - 1)
    /\ \A i \in 1..(cursor - 1) : \E m \in 1..Len(bs) : i \in bs[m].primary
InTurn(bs) ==
    \A k, m \in 1..Len(bs) : k < m => \A i \in bs[k].primary, j \in bs[m].primary : i < j
Ready(bs, cursor, source) ==
    /\ BeforeBatch(bs, Len(bs) + 1) \subseteq 1..(cursor - 1)
    /\ Len(bs) # 0 => \E c \in 1..(cursor - 1) :
         bs[Len(bs)].primary = c..(cursor - 1) /\ HeadingShown(bs[Len(bs)], c, source)

LEMMA HeadingAtIs ==
    ASSUME NEW source, NEW c \in Nat \ {0}
    PROVE  /\ HeadingAt(source, c) \in 0..(c - 1)
           /\ HeadingAt(source, c) # 0 => source[HeadingAt(source, c)].heading
           /\ \A j \in 1..(c - 1) : source[j].heading => j <= HeadingAt(source, c)
           /\ HeadingBefore(source, c) = HeadingAt(source, c)
<1> DEFINE S == {j \in 1..(c - 1) : source[j].heading}
           S0 == {0} \cup S
<1>1. c - 1 \in Nat /\ S \in SUBSET (1..(c - 1)) /\ S0 \in SUBSET Nat
  OBVIOUS
<1>2. HeadingAt(source, c) = Max(S0)
  BY DEF HeadingAt
<1>3. HeadingBefore(source, c) = IF S = {} THEN 0 ELSE Max(S)
  BY DEF HeadingBefore, NoBlock
<1>4. CASE S = {}
  <2>1. S0 = {0}
    BY <1>4
  <2>. HIDE DEF S0
  <2>2. Max(S0) = 0
    BY <1>1, <2>1, GreatestIs
  <2>3. \A j \in 1..(c - 1) : ~source[j].heading
    BY <1>4
  <2>. QED BY <1>1, <1>2, <1>3, <1>4, <2>2, <2>3
<1>5. CASE S # {}
  <2> DEFINE m == Max(S)
  <2>1. m \in S /\ \A y \in S : y <= m
    <3>. HIDE DEF S
    <3>. QED BY <1>1, <1>5, MaxIs
  <2>. HIDE DEF m
  <2>2. m \in S0 /\ \A y \in S0 : y <= m
    BY <1>1, <2>1
  <2>. HIDE DEF S0
  <2>3. Max(S0) = m
    BY <1>1, <2>2, GreatestIs
  <2>4. m \in 0..(c - 1) /\ source[m].heading
    BY <2>1
  <2>5. \A j \in 1..(c - 1) : source[j].heading => j <= m
    BY <2>1
  <2>. QED BY <1>2, <1>3, <1>5, <2>3, <2>4, <2>5 DEF m
<1>. QED BY <1>4, <1>5

\* A request after another one, which shows its heading.
LEMMA ShowsAgain ==
    ASSUME NEW source, NEW config, NEW c \in Nat \ {0}, NEW p \in 1..(c - 1),
           NEW b, NEW before, before.primary = p..(c - 1), HeadingShown(before, p, source),
           Final(before) \subseteq 1..(c - 1), Upper(b.overlap, Final(before)),
           b.primary = c..Max(b.primary),
           b.context = {} \/ b.context = {HeadingFor(source, c, config)} \ {NoBlock}
    PROVE  HeadingShown(b, c, source)
<1> DEFINE h == HeadingAt(source, c)
           F == Final(before)
<1>1. c \in Nat /\ p \in Nat \ {0} /\ p < c
  OBVIOUS
<1>2. /\ h \in 0..(c - 1)
      /\ h # 0 => source[h].heading
      /\ \A j \in 1..(c - 1) : source[j].heading => j <= h
      /\ HeadingBefore(source, c) = h
  BY <1>1, HeadingAtIs
<1>3. HeadingAt(source, p) \in 0..(p - 1) /\ \A j \in 1..(p - 1) : source[j].heading => j <= HeadingAt(source, p)
  BY <1>1, HeadingAtIs
<1>4. HeadingAt(source, p) # 0 => source[HeadingAt(source, p)].heading
  BY <1>1, HeadingAtIs
<1>. SUFFICES ASSUME NEW i \in Final(b), i < c, source[i].heading PROVE h \in Final(b)
  BY DEF HeadingShown
<1>. HIDE DEF h
<1>5. Final(b) = b.overlap \cup b.context \cup b.primary /\ F = before.overlap \cup before.context \cup before.primary
  BY DEF Final
<1>. HIDE DEF F
<1>6. CASE i \in b.context
  <2>1. b.context = {h}
    BY <1>2, <1>6 DEF HeadingFor, NoBlock
  <2>. QED BY <1>5, <2>1
<1>7. CASE i \in b.overlap
  <2>1. i \in F /\ i \in 1..(c - 1) /\ b.overlap \subseteq F /\ \A x \in b.overlap, j \in F : x < j => j \in b.overlap
    BY <1>7 DEF Upper, F
  <2>2. i <= h /\ h # 0 /\ source[h].heading
    <3>1. i <= h
      BY <1>2, <2>1
    <3>2. i \in Nat /\ 1 <= i /\ h \in Nat
      BY <1>1, <1>2, <2>1
    <3>3. h # 0
      BY <3>1, <3>2
    <3>. QED BY <1>2, <3>1, <3>3
  <2>3. CASE i = h
    BY <1>5, <1>7, <2>3
  <2>4. CASE i # h
    <3>1. i < h /\ h \in 1..(c - 1)
      <4>1. i \in Nat /\ h \in Nat /\ h <= c - 1
        BY <1>1, <1>2, <2>1
      <4>2. i < h /\ 1 <= h
        BY <2>2, <2>4, <4>1
      <4>. QED BY <1>1, <4>1, <4>2
    <3>2. h \in F
      <4>1. CASE p <= h
        <5>1. h \in p..(c - 1)
          BY <1>1, <3>1, <4>1
        <5>. QED BY <1>5, <5>1
      <4>2. CASE ~(p <= h)
        <5>1. h \in 1..(p - 1) /\ i < p
          BY <1>1, <2>1, <3>1, <4>2
        <5>2. HeadingAt(source, p) \in F
          BY <2>1, <5>1 DEF HeadingShown, F
        <5>3. h <= HeadingAt(source, p) /\ HeadingAt(source, p) \in 1..(p - 1)
          BY <1>1, <1>3, <2>2, <5>1
        <5>4. HeadingAt(source, p) <= h
          <6>1. HeadingAt(source, p) # 0 /\ HeadingAt(source, p) \in 1..(c - 1)
            BY <1>1, <5>3
          <6>. QED BY <1>2, <1>4, <6>1
        <5>5. HeadingAt(source, p) = h
          BY <1>1, <5>1, <5>3, <5>4
        <5>. QED BY <5>2, <5>5
      <4>. QED BY <4>1, <4>2
    <3>3. h \in b.overlap
      BY <1>7, <2>1, <3>1, <3>2
    <3>. QED BY <1>5, <3>3
  <2>. QED BY <2>3, <2>4
<1>8. i \notin b.primary
  <2>1. \A x \in c..Max(b.primary) : ~(x < c)
    BY <1>1
  <2>. QED BY <2>1
<1>. QED BY <1>5, <1>6, <1>7, <1>8 DEF h

\* The first one repeats nothing.
LEMMA ShowsFirst ==
    ASSUME NEW source, NEW config, NEW b, Upper(b.overlap, {}),
           b.context = {} \/ b.context = {HeadingFor(source, 1, config)} \ {NoBlock},
           b.primary = 1..Max(b.primary)
    PROVE  HeadingShown(b, 1, source)
<1>1. b.overlap = {}
  BY DEF Upper
<1>2. HeadingFor(source, 1, config) = NoBlock
  <2>1. {i \in 1..(1 - 1) : source[i].heading} = {}
    OBVIOUS
  <2>. QED BY <2>1 DEF HeadingFor, HeadingBefore
<1>3. Final(b) = b.primary
  BY <1>1, <1>2 DEF Final
<1>4. \A x \in 1..Max(b.primary) : ~(x < 1)
  OBVIOUS
<1>. QED BY <1>3, <1>4 DEF HeadingShown

LEMMA BoundsOfPrimary ==
    ASSUME NEW c \in Nat, NEW e \in Nat, c <= e
    PROVE  Max(c..e) = e /\ Min(c..e) = c /\ c..e # {}
<1>1. c..e \in SUBSET Nat /\ c \in c..e /\ e \in c..e /\ \A i \in c..e : c <= i /\ i <= e
  OBVIOUS
<1>2. Max(c..e) = e
  BY <1>1, GreatestIs
<1>3. Min(c..e) = c
  BY <1>1, LeastIs
<1>. QED BY <1>1, <1>2, <1>3

LEMMA NextStands ==
    ASSUME NEW source \in Seq(SourceRows), NEW config \in Configs, NEW cursor \in 1..Len(source),
           NEW E, NEW bs \in Seq(E), Ready(bs, cursor, source), Len(bs) = 0 => cursor = 1,
           NEW b, PlannedNext(b, source, cursor, BeforeBatch(bs, Len(bs) + 1), config)
    PROVE  \E e \in cursor..Len(source) :
              /\ Stands(b, cursor, e, source, BeforeBatch(bs, Len(bs) + 1), config)
              /\ Final(b) \subseteq 1..e
<1> DEFINE previous == BeforeBatch(bs, Len(bs) + 1)
           l == Len(bs)
           h == HeadingFor(source, cursor, config)
<1>1. cursor \in Nat \ {0} /\ l \in Nat /\ previous \subseteq 1..(cursor - 1) /\ Len(source) \in Nat
  BY DEF Ready
<1>2. /\ Upper(b.overlap, previous)
      /\ b.context = {} \/ b.context = {h} \ {NoBlock}
      /\ KeepsOverlap(b, source, cursor, previous, config)
      /\ KeepsHeading(b, source, cursor, config)
  BY DEF PlannedNext
<1>3. PICK e \in cursor..Len(source) :
         b.primary = cursor..e /\ EndsNear(source, b.overlap \cup b.context, cursor, config, e)
  BY DEF PlannedNext
<1>4. e \in Nat /\ cursor <= e
  BY <1>1, <1>3
<1>5. Max(b.primary) = e /\ b.primary = cursor..Max(b.primary)
  BY <1>1, <1>3, <1>4, BoundsOfPrimary
<1>6. l = 0 => previous = {}
  BY DEF BeforeBatch
<1>7. l # 0 => previous = Final(bs[l])
  <2>. SUFFICES ASSUME l # 0 PROVE previous = Final(bs[l])
    OBVIOUS
  <2>1. (l + 1) - 1 = l /\ l + 1 # 1
    BY <1>1
  <2>. QED BY <2>1 DEF BeforeBatch
<1>8. l # 0 => \E c \in 1..(cursor - 1) : bs[l].primary = c..(cursor - 1) /\ HeadingShown(bs[l], c, source)
  BY DEF Ready
<1>9. h \in 0..(cursor - 1)
  BY <1>1, HeadingIsBefore
<1>10. l = 0 => cursor = 1
  OBVIOUS
<1>. HIDE DEF previous, l, h
<1>11. HeadingShown(b, cursor, source)
  <2>1. CASE l = 0
    <3>1. Upper(b.overlap, {}) /\ cursor = 1
      BY <1>2, <1>6, <1>10, <2>1
    <3>2. b.context = {} \/ b.context = {HeadingFor(source, 1, config)} \ {NoBlock}
      BY <1>2, <3>1 DEF h
    <3>3. b.primary = 1..Max(b.primary)
      BY <1>5, <3>1
    <3>. QED BY <3>1, <3>2, <3>3, ShowsFirst
  <2>2. CASE l # 0
    <3> DEFINE before == bs[l]
    <3>1. PICK c \in 1..(cursor - 1) : before.primary = c..(cursor - 1) /\ HeadingShown(before, c, source)
      BY <1>8, <2>2
    <3>2. Final(before) \subseteq 1..(cursor - 1) /\ Upper(b.overlap, Final(before))
      BY <1>1, <1>2, <1>7, <2>2
    <3>3. b.context = {} \/ b.context = {HeadingFor(source, cursor, config)} \ {NoBlock}
      BY <1>2 DEF h
    <3>. HIDE DEF before
    <3>. QED BY <1>1, <1>5, <3>1, <3>2, <3>3, ShowsAgain
  <2>. QED BY <2>1, <2>2
<1>12. Stands(b, cursor, e, source, previous, config)
  BY <1>1, <1>2, <1>3, <1>11 DEF Stands, h
<1>13. Final(b) \subseteq 1..e
  <2>1. b.overlap \subseteq 1..(cursor - 1)
    BY <1>1, <1>2 DEF Upper
  <2>2. b.context \subseteq 1..(cursor - 1)
    BY <1>2, <1>9 DEF NoBlock
  <2>3. \A i \in 1..(cursor - 1) : i \in 1..e
    BY <1>1, <1>4
  <2>4. \A i \in cursor..e : i \in 1..e
    BY <1>1, <1>4
  <2>. QED BY <1>3, <2>1, <2>2, <2>3, <2>4 DEF Final
<1>. QED BY <1>12, <1>13 DEF previous

LEMMA PlanGrows ==
    ASSUME NEW source \in Seq(SourceRows), NEW config \in Configs, NEW cursor \in 1..Len(source),
           NEW E, NEW bs \in Seq(E), NEW b \in E, NEW e \in cursor..Len(source),
           SoundBatches(bs, source, config), Covered(bs, cursor), InTurn(bs),
           Stands(b, cursor, e, source, BeforeBatch(bs, Len(bs) + 1), config),
           Final(b) \subseteq 1..e
    PROVE  /\ SoundBatches(Append(bs, b), source, config) /\ Covered(Append(bs, b), e + 1)
           /\ InTurn(Append(bs, b)) /\ Ready(Append(bs, b), e + 1, source)
<1> DEFINE l == Len(bs)
           t == Append(bs, b)
           n == Len(source)
<1>1. l \in Nat /\ n \in Nat /\ cursor \in Nat /\ e \in Nat /\ 1 <= cursor /\ cursor <= e /\ e <= n
  OBVIOUS
<1>2. Len(t) = l + 1 /\ t[l + 1] = b /\ \A m \in 1..l : t[m] = bs[m]
  OBVIOUS
<1>3. \A m \in 1..(l + 1) : m \in 1..l \/ m = l + 1
  BY <1>1
<1>4. \A m \in 1..(l + 1) : BeforeBatch(t, m) = BeforeBatch(bs, m)
  <2>. SUFFICES ASSUME NEW m \in 1..(l + 1) PROVE BeforeBatch(t, m) = BeforeBatch(bs, m)
    OBVIOUS
  <2>1. m # 1 => m - 1 \in 1..l
    BY <1>1
  <2>. HIDE DEF t, l
  <2>. QED BY <1>2, <2>1 DEF BeforeBatch
<1>5. b.primary = cursor..e /\ HeadingShown(b, cursor, source)
  BY DEF Stands
<1>6. l + 1 \in 1..(l + 1) /\ cursor \in 1..n /\ e \in cursor..n
  BY <1>1
<1>7. \A m \in 1..l : m \in 1..(l + 1)
  BY <1>1
<1>8. Stands(b, cursor, e, source, BeforeBatch(bs, l + 1), config)
  OBVIOUS
<1>9. \A m \in 1..l : \E c \in 1..n : \E f \in c..n :
         Stands(bs[m], c, f, source, BeforeBatch(bs, m), config)
  BY DEF SoundBatches
<1>10. /\ \A m \in 1..l : bs[m].primary # {} /\ bs[m].primary \subseteq 1..(cursor - 1)
       /\ \A i \in 1..(cursor - 1) : \E m \in 1..l : i \in bs[m].primary
  BY DEF Covered
<1>11. \A k, m \in 1..l : k < m => \A i \in bs[k].primary, j \in bs[m].primary : i < j
  BY DEF InTurn
<1>12. Final(b) \subseteq 1..e
  OBVIOUS
<1>. HIDE DEF l, t, n
<1>13. SoundBatches(t, source, config)
  <2>1. ASSUME NEW m \in 1..(l + 1)
        PROVE  \E c \in 1..n : \E f \in c..n : Stands(t[m], c, f, source, BeforeBatch(t, m), config)
    <3>1. CASE m = l + 1
      BY <1>2, <1>4, <1>6, <1>8, <3>1
    <3>2. CASE m \in 1..l
      BY <1>2, <1>4, <1>7, <1>9, <3>2
    <3>. QED BY <1>3, <3>1, <3>2
  <2>. QED BY <1>2, <2>1 DEF SoundBatches, n
<1>14. Covered(t, e + 1)
  <2>0. (e + 1) - 1 = e /\ cursor..e # {} /\ cursor..e \subseteq 1..e
    <3>1. cursor \in cursor..e
      BY <1>1
    <3>2. (e + 1) - 1 = e
      BY <1>1
    <3>3. \A i \in cursor..e : i \in 1..e
      BY <1>1
    <3>. QED BY <3>1, <3>2, <3>3
  <2>1. ASSUME NEW m \in 1..(l + 1) PROVE t[m].primary # {} /\ t[m].primary \subseteq 1..e
    <3>1. CASE m = l + 1
      BY <1>2, <1>5, <2>0, <3>1
    <3>2. CASE m \in 1..l
      <4>1. \A i \in 1..(cursor - 1) : i \in 1..e
        BY <1>1
      <4>. QED BY <1>2, <1>10, <3>2, <4>1
    <3>. QED BY <1>3, <3>1, <3>2
  <2>2. ASSUME NEW i \in 1..e PROVE \E m \in 1..(l + 1) : i \in t[m].primary
    <3>1. CASE i \in cursor..e
      BY <1>2, <1>5, <1>6, <3>1
    <3>2. CASE i \notin cursor..e
      <4>1. i \in 1..(cursor - 1)
        BY <1>1, <3>2
      <4>. QED BY <1>2, <1>7, <1>10, <4>1
    <3>. QED BY <3>1, <3>2
  <2>. QED BY <1>2, <2>0, <2>1, <2>2 DEF Covered
<1>15. InTurn(t)
  <2>1. ASSUME NEW k \in 1..(l + 1), NEW m \in 1..(l + 1), k < m,
               NEW i \in t[k].primary, NEW j \in t[m].primary
        PROVE  i < j
    <3>1. k \in 1..l
      BY <1>1, <2>1
    <3>2. CASE m = l + 1
      <4>1. i \in 1..(cursor - 1) /\ j \in cursor..e
        BY <1>2, <1>5, <1>10, <3>1, <3>2
      <4>. QED BY <1>1, <4>1
    <3>3. CASE m \in 1..l
      BY <1>2, <1>11, <2>1, <3>1, <3>3
    <3>. QED BY <1>3, <3>2, <3>3
  <2>. QED BY <1>2, <2>1 DEF InTurn
<1>16. Ready(t, e + 1, source)
  <2>0. (e + 1) - 1 = e /\ (l + 1) # 0 /\ (l + 1) + 1 # 1 /\ ((l + 1) + 1) - 1 = l + 1
    BY <1>1
  <2>1. BeforeBatch(t, (l + 1) + 1) = Final(b)
    BY <1>2, <2>0 DEF BeforeBatch
  <2>2. cursor \in 1..e
    BY <1>1
  <2>3. \E c \in 1..e : t[l + 1].primary = c..e /\ HeadingShown(t[l + 1], c, source)
    BY <1>2, <1>5, <2>2
  <2>. QED BY <1>2, <1>12, <2>0, <2>1, <2>3 DEF Ready
<1>. QED BY <1>13, <1>14, <1>15, <1>16 DEF t

\* The plans that may be reached.
BatchRows(n) == [primary: SUBSET (1..n), overlap: SUBSET (1..n), context: SUBSET (1..n)]
GoodPlan(p, source, config) ==
    /\ p.batches \in Seq(BatchRows(Len(source))) /\ p.cursor \in 1..(Len(source) + 1)
    /\ p.tooLarge # NoBlock =>
         /\ p.tooLarge = p.cursor /\ p.cursor \in 1..Len(source)
         /\ ~BatchFits(source, {p.cursor}, config)
    /\ Len(p.batches) = 0 => p.cursor = 1
    /\ SoundBatches(p.batches, source, config) /\ Covered(p.batches, p.cursor)
    /\ InTurn(p.batches) /\ Ready(p.batches, p.cursor, source)
PlanRows(n) == [batches: Seq(BatchRows(n)), cursor: Nat, tooLarge: Nat]
GoodPlans(source, config) == {p \in PlanRows(Len(source)) : GoodPlan(p, source, config)}

LEMMA PreviousIs ==
    ASSUME NEW E, NEW bs \in Seq(E)
    PROVE  PreviousOf(bs) = BeforeBatch(bs, Len(bs) + 1)
<1>1. Len(bs) \in Nat /\ (Len(bs) = 0 <=> bs = << >>)
  OBVIOUS
<1>2. CASE bs = << >>
  <2>1. Len(bs) + 1 = 1
    BY <1>1, <1>2
  <2>. QED BY <1>2, <2>1 DEF PreviousOf, BeforeBatch
<1>3. CASE bs # << >>
  <2>1. Len(bs) + 1 # 1 /\ (Len(bs) + 1) - 1 = Len(bs)
    BY <1>1, <1>3
  <2>. QED BY <1>3, <2>1 DEF PreviousOf, BeforeBatch, Last
<1>. QED BY <1>2, <1>3

LEMMA FirstIsGood ==
    ASSUME NEW source \in Seq(SourceRows), NEW config \in Configs
    PROVE  FirstPlan \in GoodPlans(source, config) /\ FirstPlan.cursor = 1
<1> DEFINE n == Len(source)
           p == FirstPlan
           bs == p.batches
           E == BatchRows(n)
<1>1. bs = << >> /\ p.cursor = 1 /\ p.tooLarge = 0 /\ p \in [batches: {<< >>}, cursor: {1}, tooLarge: {0}]
  BY DEF FirstPlan, NoBlock
<1>2. n \in Nat
  OBVIOUS
<1>. HIDE DEF E, n
<1>3. bs \in Seq(E) /\ Len(bs) = 0
  BY <1>1
<1>4. p \in [batches: Seq(E), cursor: Nat, tooLarge: Nat]
  <2>1. << >> \in Seq(E) /\ 1 \in Nat /\ 0 \in Nat
    OBVIOUS
  <2>. HIDE DEF p
  <2>. QED BY <1>1, <2>1
<1>. HIDE DEF p
<1>5. 1..Len(bs) = {} /\ 1..(p.cursor - 1) = {}
  BY <1>1, <1>3
<1>6. SoundBatches(bs, source, config)
  BY <1>5 DEF SoundBatches
<1>7. Covered(bs, p.cursor)
  BY <1>5 DEF Covered
<1>8. InTurn(bs)
  BY <1>5 DEF InTurn
<1>9. Ready(bs, p.cursor, source)
  <2>1. Len(bs) + 1 = 1
    BY <1>3
  <2>. QED BY <1>3, <2>1 DEF Ready, BeforeBatch
<1>10. p.cursor \in 1..(n + 1)
  BY <1>1, <1>2
<1>11. GoodPlan(p, source, config)
  <2>. HIDE DEF bs
  <2>1. bs = p.batches
    BY DEF bs
  <2>. QED BY <1>1, <1>3, <1>6, <1>7, <1>8, <1>9, <1>10, <2>1 DEF GoodPlan, NoBlock, E, n
<1>. QED BY <1>1, <1>4, <1>11 DEF p, GoodPlans, PlanRows, E, n

\* A round that adds to the plan, or finds that it cannot.
LEMMA RoundIsGood ==
    ASSUME NEW source \in Seq(SourceRows), NEW config \in Configs,
           NEW p \in GoodPlans(source, config), p.cursor \in 1..Len(source), p.tooLarge = NoBlock,
           NEW q, q = Extended(p, PlanNext(source, p.cursor, PreviousOf(p.batches), config))
    PROVE  q \in GoodPlans(source, config) /\ (q.tooLarge # NoBlock \/ q.cursor > p.cursor)
<1> DEFINE n == Len(source)
           bs == p.batches
           c == p.cursor
           E == BatchRows(n)
           l == Len(bs)
           previous == BeforeBatch(bs, l + 1)
<1>1. /\ p \in [batches: Seq(E), cursor: Nat, tooLarge: Nat] /\ bs \in Seq(E) /\ c \in 1..n
      /\ l = 0 => c = 1
      /\ SoundBatches(bs, source, config) /\ Covered(bs, c) /\ InTurn(bs) /\ Ready(bs, c, source)
  BY DEF GoodPlans, GoodPlan, PlanRows
<1>2. PreviousOf(bs) = previous /\ previous \subseteq 1..(c - 1)
  <2>. HIDE DEF E
  <2>. QED BY <1>1, PreviousIs DEF Ready
<1>3. n \in Nat
  OBVIOUS
<1>. HIDE DEF n, bs, c, E, l, previous
<1>4. CASE ~BatchFits(source, {c}, config)
  <2>1. PlanNext(source, c, previous, config) = << >>
    BY <1>1, <1>2, <1>4, NextIs DEF n
  <2>2. q = [p EXCEPT !.tooLarge = c]
    BY <1>2, <2>1 DEF Extended, c, bs
  <2>3. q \in [batches: Seq(E), cursor: Nat, tooLarge: Nat] /\ q.batches = bs /\ q.cursor = c /\ q.tooLarge = c
    <3>1. c \in Nat
      BY <1>1, <1>3
    <3>. QED BY <1>1, <2>2, <3>1 DEF bs, c
  <2>4. c \in 1..(n + 1) /\ c # NoBlock
    BY <1>1, <1>3 DEF NoBlock
  <2>5. GoodPlan(q, source, config)
    BY <1>1, <1>4, <2>3, <2>4 DEF GoodPlan, n, E, l
  <2>. QED BY <2>3, <2>4, <2>5 DEF GoodPlans, PlanRows, n, E
<1>5. CASE BatchFits(source, {c}, config)
  <2>1. PICK b : PlanNext(source, c, previous, config) = <<b>> /\ PlannedNext(b, source, c, previous, config)
    BY <1>1, <1>2, <1>5, NextIs DEF n
  <2>2. PICK e \in c..n : Stands(b, c, e, source, previous, config) /\ Final(b) \subseteq 1..e
    BY <1>1, <2>1, NextStands DEF n, previous, l
  <2>3. c \in Nat /\ e \in Nat /\ c <= e /\ e <= n
    BY <1>1, <1>3, <2>2
  <2>4. b.primary = c..e
    BY <2>2 DEF Stands
  <2>5. Max(b.primary) = e
    BY <2>3, <2>4, BoundsOfPrimary
  <2>6. b \in E
    <3>1. \A i \in 1..e : i \in 1..n
      BY <1>3, <2>3
    <3>2. Final(b) \subseteq 1..n
      BY <2>2, <3>1
    <3>3. b.primary \subseteq 1..n /\ b.overlap \subseteq 1..n /\ b.context \subseteq 1..n
      BY <3>2 DEF Final
    <3>4. b = [primary |-> b.primary, overlap |-> b.overlap, context |-> b.context]
      BY <2>1 DEF PlannedNext
    <3>. QED BY <3>3, <3>4 DEF E, BatchRows
  <2> DEFINE t == Append(bs, b)
  <2>7. t \in Seq(E) /\ Len(t) = l + 1 /\ l \in Nat /\ bs \o <<b>> = t
    BY <1>1, <2>6 DEF l
  <2>8. q = [p EXCEPT !.batches = @ \o <<b>>, !.cursor = e + 1]
    <3>1. PlanNext(source, p.cursor, PreviousOf(p.batches), config) = <<b>>
      BY <1>2, <2>1 DEF c, bs
    <3>2. <<b>> # << >> /\ <<b>>[1] = b
      OBVIOUS
    <3> DEFINE next == <<b>>
    <3>3. next # << >> /\ next[1] = b
      BY <3>2
    <3>. HIDE DEF next
    <3>4. q = Extended(p, next)
      BY <3>1 DEF next
    <3>5. q = [p EXCEPT !.batches = @ \o next, !.cursor = Max(next[1].primary) + 1]
      BY <3>3, <3>4 DEF Extended
    <3>. QED BY <2>5, <3>3, <3>5 DEF next
  <2>. HIDE DEF t
  <2>9. /\ q \in [batches: Seq(E), cursor: Nat, tooLarge: Nat]
        /\ q.batches = t /\ q.cursor = e + 1 /\ q.tooLarge = NoBlock
    <3>1. p.batches \o <<b>> = t /\ e + 1 \in Nat
      BY <2>3, <2>7 DEF bs
    <3>2. q = [p EXCEPT !.batches = t, !.cursor = e + 1]
      BY <2>8, <3>1
    <3>. QED BY <1>1, <2>7, <3>1, <3>2
  <2>10. /\ SoundBatches(t, source, config) /\ Covered(t, e + 1)
         /\ InTurn(t) /\ Ready(t, e + 1, source)
    BY <1>1, <2>2, <2>6, PlanGrows DEF t, n, previous, l
  <2>11. e + 1 \in 1..(n + 1) /\ e + 1 > c /\ Len(t) # 0
    BY <1>1, <1>3, <2>3, <2>7
  <2>12. GoodPlan(q, source, config)
    BY <2>7, <2>9, <2>10, <2>11 DEF GoodPlan, n, E
  <2>13. q.cursor > p.cursor
    BY <2>9, <2>11 DEF c
  <2>. QED BY <2>9, <2>12, <2>13 DEF GoodPlans, PlanRows, n, E
<1>. QED BY <1>4, <1>5

LEMMA PlanIsGood ==
    ASSUME NEW source \in Seq(SourceRows), NEW config \in Configs
    PROVE  /\ Plan(source, config) \in GoodPlans(source, config)
           /\ Plan(source, config).tooLarge = NoBlock => Plan(source, config).cursor = Len(source) + 1
<1> DEFINE n == Len(source)
           T == GoodPlans(source, config)
           Next1(p) == NextPlan(p, source, config)
<1>1. n \in Nat
  OBVIOUS
<1>2. \A p \in T : p.cursor \in 1..(n + 1) /\ p.cursor \in Nat
  <2>1. \A p \in T : p.cursor \in 1..(n + 1)
    BY DEF GoodPlans, GoodPlan
  <2>2. \A i \in 1..(n + 1) : i \in Nat
    OBVIOUS
  <2>. HIDE DEF T, n
  <2>. QED BY <2>1, <2>2
<1>3. ASSUME NEW p \in T
      PROVE  /\ Next1(p) \in T
             /\ p.tooLarge # NoBlock \/ p.cursor = n + 1 => Next1(p) = p
             /\ ~(p.tooLarge # NoBlock \/ p.cursor = n + 1) =>
                  Next1(p).tooLarge # NoBlock \/ Next1(p).cursor > p.cursor
  <2>1. p.cursor > n <=> p.cursor = n + 1
    BY <1>1, <1>2, <1>3
  <2>2. CASE p.tooLarge # NoBlock \/ p.cursor = n + 1
    <3>1. Next1(p) = p
      BY <2>1, <2>2 DEF NextPlan
    <3>. QED BY <1>3, <2>2, <3>1
  <2>3. CASE ~(p.tooLarge # NoBlock \/ p.cursor = n + 1)
    <3>1. p.cursor \in 1..Len(source) /\ p.tooLarge = NoBlock
      BY <1>1, <1>2, <1>3, <2>3
    <3>2. Next1(p) = Extended(p, PlanNext(source, p.cursor, PreviousOf(p.batches), config))
      BY <2>1, <2>3 DEF NextPlan
    <3>. HIDE DEF Next1
    <3>3. Next1(p) \in T /\ (Next1(p).tooLarge # NoBlock \/ Next1(p).cursor > p.cursor)
      BY <1>3, <3>1, <3>2, RoundIsGood
    <3>. QED BY <2>3, <3>3
  <2>. QED BY <2>2, <2>3
<1>4. PlanningStays(T, source, config)
  BY <1>3 DEF PlanningStays
<1>5. FirstPlan \in T /\ FirstPlan.cursor = 1
  BY FirstIsGood
<1>. HIDE DEF T
<1>6. PICK acc \in [0..n -> T] :
         /\ acc[0] = FirstPlan /\ Plan(source, config) = acc[n]
         /\ \A k \in 0..(n - 1) : acc[k + 1] = NextPlan(acc[k], source, config)
  BY <1>4, <1>5, PlannedRoundByRound
<1>. HIDE DEF n
<1> DEFINE Done == {k \in 0..n : acc[k].tooLarge # NoBlock \/ acc[k].cursor = n + 1 \/ acc[k].cursor > k}
<1>7. 0 \in Done
  <2>1. acc[0].cursor = 1 /\ 1 > 0 /\ 0 \in 0..n
    BY <1>1, <1>5, <1>6
  <2>. QED BY <2>1
<1>8. ASSUME NEW k \in 0..(n - 1), k \in Done PROVE k + 1 \in Done
  <2> DEFINE p == acc[k]
             q == acc[k + 1]
  <2>1. k \in Nat /\ k \in 0..n /\ k + 1 \in 0..n
    BY <1>1
  <2>2. p \in T /\ q = Next1(p)
    BY <1>6, <2>1
  <2>3. p.tooLarge # NoBlock \/ p.cursor = n + 1 \/ p.cursor > k
    BY <1>8
  <2>. HIDE DEF p, q, Next1
  <2>4. q \in T /\ q.cursor \in Nat /\ p.cursor \in Nat
    BY <1>2, <1>3, <2>2
  <2>5. q.tooLarge # NoBlock \/ q.cursor = n + 1 \/ q.cursor > k + 1
    <3>1. CASE p.tooLarge # NoBlock \/ p.cursor = n + 1
      BY <1>3, <2>2, <3>1
    <3>2. CASE ~(p.tooLarge # NoBlock \/ p.cursor = n + 1)
      <4>1. q.tooLarge # NoBlock \/ q.cursor > p.cursor
        BY <1>3, <2>2, <3>2
      <4>2. p.cursor > k
        BY <2>3, <3>2
      <4>. QED BY <2>1, <2>4, <4>1, <4>2
    <3>. QED BY <3>1, <3>2
  <2>. QED BY <2>1, <2>5 DEF q
<1>9. 0..n \subseteq Done
  <2>. HIDE DEF Done
  <2>. QED BY <1>1, <1>7, <1>8, Induction
<1>10. n \in Done /\ acc[n] \in T
  <2>1. n \in 0..n
    BY <1>1
  <2>. HIDE DEF Done
  <2>. QED BY <1>6, <1>9, <2>1
<1>11. acc[n].tooLarge = NoBlock => acc[n].cursor = n + 1
  <2>1. acc[n].cursor \in 1..(n + 1)
    BY <1>2, <1>10
  <2>2. acc[n].tooLarge # NoBlock \/ acc[n].cursor = n + 1 \/ acc[n].cursor > n
    BY <1>10
  <2>. QED BY <1>1, <2>1, <2>2
<1>. QED BY <1>6, <1>10, <1>11 DEF T, n

-----------------------------------------------------------------------------
(* What a plan tells of its requests. *)

EndTells(source, config, all, e, primary) ==
    /\ e < Len(source) /\ BatchFits(source, all \cup {e + 1}, config) =>
         Distance(config.target, CharsOf(source, all \cup {e + 1}, config))
            >= Distance(config.target, CharsOf(source, all, config))
    /\ Cardinality(primary) > 1 =>
         Distance(config.target, CharsOf(source, all, config))
            < Distance(config.target, CharsOf(source, all \ {e}, config))
HeadingTells(source, all, c) ==
    {i \in all : i < c /\ source[i].heading} # {} =>
        HeadingAt(source, c) \in {i \in all : i < c /\ source[i].heading}
SurroundTells(b, c, source, previous, config) ==
    /\ b.overlap \subseteq previous
    /\ \A i \in previous \ b.overlap :
         Cardinality(b.overlap) < config.overlap /\ i = Max(previous \ b.overlap)
            => ~BatchFits(source, (b.overlap \cup {i}) \cup {c}, config)
    /\ \A heading \in {HeadingAt(source, c)} \ {0} :
         config.headings /\ heading \notin Final(b)
            => ~BatchFits(source, (b.overlap \cup {heading}) \cup {c}, config)

LEMMA StandsTells ==
    ASSUME NEW source \in Seq(SourceRows), NEW config \in Configs, NEW c \in 1..Len(source),
           NEW e \in c..Len(source), NEW b, NEW previous,
           Stands(b, c, e, source, previous, config)
    PROVE  /\ Min(b.primary) = c /\ Max(b.primary) = e /\ b.primary # {} /\ b.primary = c..e
           /\ Final(b) \in SUBSET (1..Len(source)) /\ BatchFits(source, Final(b), config)
           /\ EndTells(source, config, Final(b), e, b.primary)
           /\ HeadingTells(source, Final(b), c)
           /\ SurroundTells(b, c, source, previous, config)
<1> DEFINE n == Len(source)
           base == b.overlap \cup b.context
           F == Final(b)
           h == HeadingFor(source, c, config)
<1>1. c \in Nat \ {0} /\ e \in Nat /\ c <= e /\ n \in Nat /\ e <= n
  OBVIOUS
<1>2. /\ b.primary = c..e /\ previous \subseteq 1..(c - 1)
      /\ Upper(b.overlap, previous)
      /\ b.context = {} \/ b.context = {h} \ {NoBlock}
      /\ EndsNear(source, base, c, config, e)
      /\ KeepsOverlap(b, source, c, previous, config)
      /\ KeepsHeading(b, source, c, config)
      /\ HeadingShown(b, c, source)
  BY DEF Stands
<1>3. Min(b.primary) = c /\ Max(b.primary) = e /\ b.primary # {}
  BY <1>1, <1>2, BoundsOfPrimary
<1>4. h \in 0..(c - 1)
  BY <1>1, HeadingIsBefore
<1>. HIDE DEF n, h
<1>5. base \in SUBSET (1..(c - 1)) /\ b.overlap \subseteq previous
  <2>1. b.overlap \subseteq previous
    BY <1>2 DEF Upper
  <2>2. {h} \ {NoBlock} \subseteq 1..(c - 1)
    <3>1. h # 0 => h \in 1..(c - 1)
      BY <1>1, <1>4
    <3>. QED BY <3>1 DEF NoBlock
  <2>3. b.context \subseteq 1..(c - 1)
    BY <1>2, <2>2
  <2>. QED BY <1>2, <2>1, <2>3
<1>6. F = Upto(base, c, e)
  BY <1>2 DEF Final, Upto
<1>. HIDE DEF base, F
<1>7. /\ Upto(base, c, e) \in SUBSET (1..n)
      /\ c < e => Upto(base, c, e - 1) = Upto(base, c, e) \ {e}
  <2>1. base \subseteq 1..n /\ c..e \subseteq 1..n
    <3>1. 1..(c - 1) \subseteq 1..n /\ c..e \subseteq 1..n
      BY <1>1
    <3>. QED BY <1>5, <3>1
  <2>2. ASSUME c < e PROVE Upto(base, c, e - 1) = Upto(base, c, e) \ {e}
    <3>1. c..(e - 1) = (c..e) \ {e}
      BY <1>1
    <3>2. e \notin base
      <4>1. e \notin 1..(c - 1)
        BY <1>1
      <4>. QED BY <1>5, <4>1
    <3>. QED BY <3>1, <3>2 DEF Upto
  <2>. QED BY <2>1, <2>2 DEF Upto
<1>8. F \in SUBSET (1..n) /\ BatchFits(source, F, config)
  BY <1>2, <1>6, <1>7 DEF EndsNear
<1>9. EndTells(source, config, F, e, b.primary)
  <2>1. F \cup {e + 1} = Upto(base, c, e + 1)
    <3>1. c..(e + 1) = (c..e) \cup {e + 1}
      BY <1>1
    <3>. QED BY <1>6, <3>1 DEF Upto
  <2>2. Cardinality(b.primary) > 1 => c < e
    <3>. SUFFICES ASSUME ~(c < e) PROVE ~(Cardinality(b.primary) > 1)
      OBVIOUS
    <3>1. c..e = {c}
      BY <1>1
    <3>2. Cardinality(b.primary) = 1
      BY <1>2, <3>1, FS_Singleton
    <3>. QED BY <3>2
  <2>3. ASSUME e < n, BatchFits(source, F \cup {e + 1}, config)
        PROVE  OffTarget(source, F \cup {e + 1}, config) >= OffTarget(source, F, config)
    BY <1>2, <1>6, <2>1, <2>3 DEF EndsNear, n
  <2>4. ASSUME Cardinality(b.primary) > 1
        PROVE  OffTarget(source, F, config) < OffTarget(source, F \ {e}, config)
    BY <1>2, <1>6, <1>7, <2>2, <2>4 DEF EndsNear
  <2>. QED BY <2>3, <2>4 DEF EndTells, OffTarget, n
<1>10. /\ HeadingAt(source, c) \in 0..(c - 1)
       /\ HeadingAt(source, c) # 0 => source[HeadingAt(source, c)].heading
       /\ \A j \in 1..(c - 1) : source[j].heading => j <= HeadingAt(source, c)
       /\ HeadingBefore(source, c) = HeadingAt(source, c)
  BY <1>1, HeadingAtIs
<1>11. HeadingTells(source, F, c)
  <2>. SUFFICES ASSUME NEW i \in F, i < c, source[i].heading
                PROVE  /\ HeadingAt(source, c) \in F /\ HeadingAt(source, c) < c
                       /\ source[HeadingAt(source, c)].heading
    BY DEF HeadingTells
  <2>1. HeadingAt(source, c) \in F
    BY <1>2 DEF HeadingShown, F
  <2>2. i \in 1..(c - 1)
    BY <1>1, <1>8
  <2>3. i <= HeadingAt(source, c)
    BY <1>10, <2>2
  <2>4. HeadingAt(source, c) # 0 /\ HeadingAt(source, c) < c
    BY <1>1, <1>10, <2>2, <2>3
  <2>. QED BY <1>10, <2>1, <2>4
<1>12. SurroundTells(b, c, source, previous, config)
  <2>1. ASSUME NEW i \in previous \ b.overlap, Cardinality(b.overlap) < config.overlap,
               i = Max(previous \ b.overlap)
        PROVE  ~BatchFits(source, (b.overlap \cup {i}) \cup {c}, config)
    <3> DEFINE S == previous \ b.overlap
    <3>1. S \in SUBSET (1..(c - 1)) /\ S # {} /\ c - 1 \in Nat
      BY <1>1, <1>2, <2>1
    <3>2. \A j \in S : j <= Max(S)
      <4>. HIDE DEF S
      <4>. QED BY <3>1, MaxIs
    <3>. QED BY <1>2, <2>1, <3>2 DEF KeepsOverlap
  <2>2. ASSUME HeadingAt(source, c) # 0, config.headings, HeadingAt(source, c) \notin F
        PROVE  ~BatchFits(source, (b.overlap \cup {HeadingAt(source, c)}) \cup {c}, config)
    <3>1. HeadingFor(source, c, config) = HeadingAt(source, c)
      BY <1>10, <2>2 DEF HeadingFor
    <3>2. HeadingAt(source, c) \notin b.overlap \cup b.context
      BY <2>2 DEF F, Final
    <3>. QED BY <1>2, <2>2, <3>1, <3>2 DEF KeepsHeading, NoBlock
  <2>. QED BY <1>5, <2>1, <2>2 DEF SurroundTells, F
<1>. QED BY <1>2, <1>3, <1>8, <1>9, <1>11, <1>12 DEF F, n

\* What a good plan tells of each of its requests, and of the block it stops at.
BatchTells(source, config, bs, m) ==
    /\ Final(bs[m]) \in SUBSET (1..Len(source)) /\ BatchFits(source, Final(bs[m]), config)
    /\ bs[m].primary # {}
    /\ EndTells(source, config, Final(bs[m]), Max(bs[m].primary), bs[m].primary)
    /\ HeadingTells(source, Final(bs[m]), Min(bs[m].primary))
    /\ SurroundTells(bs[m], Min(bs[m].primary), source, BeforeBatch(bs, m), config)

LEMMA EachTells ==
    ASSUME NEW source \in Seq(SourceRows), NEW config \in Configs,
           NEW p \in GoodPlans(source, config), NEW m \in 1..Len(p.batches)
    PROVE  BatchTells(source, config, p.batches, m)
<1>1. SoundBatches(p.batches, source, config)
  BY DEF GoodPlans, GoodPlan
<1>2. PICK c \in 1..Len(source) : \E e \in c..Len(source) :
         Stands(p.batches[m], c, e, source, BeforeBatch(p.batches, m), config)
  BY <1>1 DEF SoundBatches
<1>3. PICK e \in c..Len(source) :
         Stands(p.batches[m], c, e, source, BeforeBatch(p.batches, m), config)
  BY <1>2
<1> DEFINE b == p.batches[m]
           previous == BeforeBatch(p.batches, m)
<1>4. c \in 1..Len(source) /\ e \in c..Len(source) /\ Stands(b, c, e, source, previous, config)
  BY <1>2, <1>3
<1>. HIDE DEF b, previous
<1>5. /\ Min(b.primary) = c /\ Max(b.primary) = e /\ b.primary # {} /\ b.primary = c..e
      /\ Final(b) \in SUBSET (1..Len(source)) /\ BatchFits(source, Final(b), config)
      /\ EndTells(source, config, Final(b), e, b.primary)
      /\ HeadingTells(source, Final(b), c)
      /\ SurroundTells(b, c, source, previous, config)
  BY <1>4, StandsTells
<1>. QED BY <1>5 DEF BatchTells, b, previous

LEMMA TooLargeIs ==
    ASSUME NEW source \in Seq(SourceRows), NEW config \in Configs, NEW p \in GoodPlans(source, config),
           p.tooLarge = NoBlock => p.cursor = Len(source) + 1
    PROVE  LET large == {i \in DOMAIN source : ~BatchFits(source, {i}, config)} IN
           p.tooLarge = IF large = {} THEN NoBlock ELSE Min(large)
<1> DEFINE n == Len(source)
           large == {i \in DOMAIN source : ~BatchFits(source, {i}, config)}
           bs == p.batches
<1>1. n \in Nat /\ DOMAIN source = 1..n
  OBVIOUS
<1>2. /\ p.cursor \in 1..(n + 1) /\ Covered(bs, p.cursor)
      /\ p.tooLarge # NoBlock => /\ p.tooLarge = p.cursor /\ p.cursor \in 1..n
                                 /\ ~BatchFits(source, {p.cursor}, config)
  BY DEF GoodPlans, GoodPlan
<1>3. ASSUME NEW i \in 1..(p.cursor - 1) PROVE BatchFits(source, {i}, config)
  <2>1. PICK m \in 1..Len(bs) : i \in bs[m].primary
    BY <1>2 DEF Covered
  <2>2. BatchTells(source, config, bs, m)
    BY <2>1, EachTells
  <2> DEFINE F == Final(bs[m])
  <2>3. F \in SUBSET (1..Len(source)) /\ BatchFits(source, F, config) /\ i \in F
    BY <2>1, <2>2 DEF BatchTells, Final
  <2>. HIDE DEF F
  <2>4. {i} \in SUBSET F
    BY <2>3
  <2>. QED BY <2>3, <2>4, LessFits
<1>4. \A j \in large : ~(j \in 1..(p.cursor - 1)) /\ j \in 1..n
  BY <1>1, <1>3
<1>5. CASE p.tooLarge = NoBlock
  <2>1. p.cursor - 1 = n
    BY <1>1, <1>5
  <2>2. large = {}
    <3>. HIDE DEF large
    <3>. QED BY <1>4, <2>1
  <2>. QED BY <1>5, <2>2
<1>6. CASE p.tooLarge # NoBlock
  <2>1. p.tooLarge = p.cursor /\ p.cursor \in large
    BY <1>1, <1>2, <1>6
  <2>2. large \in SUBSET Nat
    BY <1>1
  <2>. HIDE DEF large
  <2>3. \A j \in large : p.cursor <= j
    BY <1>1, <1>2, <1>4
  <2>4. Min(large) = p.cursor
    BY <2>1, <2>2, <2>3, LeastIs
  <2>. QED BY <2>1, <2>4 DEF large
<1>. QED BY <1>5, <1>6
================================================================================
