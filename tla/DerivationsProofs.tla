--------------------------- MODULE DerivationsProofs ---------------------------
(* What the parts without state promise, for every input of their form.        *)
EXTENDS Derivations, RequestProofs, ViewProofs

Chosen == input \in Inputs /\ checked \in BOOLEAN

LEMMA InputIsChosen == Spec => []Chosen
<1>1. Init => Chosen
  BY DEF Init, Chosen
<1>2. Chosen /\ [Next]_vars => Chosen'
  BY DEF Chosen, Next, vars
<1>. QED BY <1>1, <1>2, PTL DEF Spec

-----------------------------------------------------------------------------
(* Cardinalities, and the operators that an instance brings with it. *)

LEMMA AtLeastTwo ==
    ASSUME NEW S, IsFiniteSet(S)
    PROVE  Cardinality(S) > 1 <=> \E x, y \in S : x # y
<1>1. CASE S = {}
  BY <1>1, FS_EmptySet
<1>2. CASE S # {}
  <2>1. PICK x \in S : TRUE
    BY <1>2
  <2>2. IsFiniteSet(S \ {x}) /\ Cardinality(S \ {x}) = Cardinality(S) - 1
    BY <2>1, FS_RemoveElement
  <2>3. Cardinality(S) \in Nat /\ Cardinality(S \ {x}) \in Nat
    BY <2>2, FS_CardinalityType
  <2>4. Cardinality(S \ {x}) = 0 <=> S \ {x} = {}
    BY <2>2, FS_EmptySet
  <2>. QED BY <2>1, <2>2, <2>3, <2>4
<1>. QED BY <1>1, <1>2

LEMMA ImageIsFinite ==
    ASSUME NEW S, IsFiniteSet(S), NEW f, NEW I, I = {f[x] : x \in S},
           f = [x \in S |-> f[x]]
    PROVE  IsFiniteSet(I) /\ Cardinality(I) <= Cardinality(S)
<1>1. f \in Surjection(S, I)
  BY DEF Surjection
<1>. QED BY <1>1, FS_Surjection

LEMMA BatchesAndKeys ==
    ASSUME NEW S, IsFiniteSet(S)
    PROVE  IsFiniteSet({v.batch : v \in S}) /\ IsFiniteSet({v.key : v \in S})
<1> DEFINE b == [v \in S |-> v.batch]
           k == [v \in S |-> v.key]
<1>1. b = [v \in S |-> b[v]] /\ k = [v \in S |-> k[v]]
  OBVIOUS
<1>2. {v.batch : v \in S} = {b[v] : v \in S} /\ {v.key : v \in S} = {k[v] : v \in S}
  OBVIOUS
<1> DEFINE B == {v.batch : v \in S}
           K == {v.key : v \in S}
<1>3. IsFiniteSet(B)
  <2>1. B = {b[v] : v \in S}
    BY <1>2
  <2>. HIDE DEF b, B
  <2>. QED BY <1>1, <2>1, ImageIsFinite
<1>4. IsFiniteSet(K)
  <2>1. K = {k[v] : v \in S}
    BY <1>2
  <2>. HIDE DEF k, K
  <2>. QED BY <1>1, <2>1, ImageIsFinite
<1>. QED BY <1>3, <1>4

-----------------------------------------------------------------------------
(* Grouping of values. *)

LEMMA SourceFollows ==
    ASSUME Chosen
    PROVE  SourceIsWhole
<1>. SUFFICES ASSUME Of("source"),
                     AuthenticSource(input.orchestration, input.rows, input.found)
              PROVE  /\ \A v \in input.found :
                          Cardinality({r \in input.rows : v \in r.application.items}) = 1
                     /\ \A r \in input.rows : \A v \in r.application.items :
                          v \in input.found <=> r.status = "completed"
  BY DEF SourceIsWhole
<1>1. \A r, s \in input.rows : \A v \in r.application.items :
         v.batch = r.index /\ (r.index = s.index => r = s)
  BY InputsAssumption DEF Of, Chosen
<1>2. input.found = UNION {r.application.items : r \in {s \in input.rows : s.status = "completed"}}
  BY DEF AuthenticSource, StoredItems, CompletedRows
<1>3. \A r, s \in input.rows : \A v :
         v \in r.application.items /\ v \in s.application.items => r = s
  BY <1>1
<1>4. ASSUME NEW v \in input.found
      PROVE  Cardinality({r \in input.rows : v \in r.application.items}) = 1
  <2>1. PICK r \in input.rows : v \in r.application.items
    BY <1>2
  <2>2. {s \in input.rows : v \in s.application.items} = {r}
    BY <1>3, <2>1
  <2>. QED BY <2>2, FS_Singleton
<1>5. ASSUME NEW r \in input.rows, NEW v \in r.application.items
      PROVE  v \in input.found <=> r.status = "completed"
  BY <1>2, <1>3
<1>. QED BY <1>4, <1>5

LEMMA GroupsFollow ==
    ASSUME Chosen
    PROVE  GroupsAreAgreements
<1>. SUFFICES ASSUME Of("values") PROVE GroupsAreAgreements
  BY DEF GroupsAreAgreements
<1> DEFINE V == input.values
           groups == DuplicateGroups(V)
           Same(v, w) == v.fact = w.fact /\ v.key = w.key
<1>1. IsFiniteSet(V)
  BY InputsAssumption DEF Of, Chosen, ValuesGiven
<1>2. \A v, w \in V : w \in Alike(V, v) <=> Same(v, w)
  BY DEF Alike, ValueFingerprint
<1>3. \A v \in V : v \in Alike(V, v) /\ Alike(V, v) \subseteq V
  BY DEF Alike
<1>4. ASSUME NEW v \in V
      PROVE  Alike(V, v) \in groups <=> \E u \in V : Same(u, v) /\ u.batch # v.batch
  <2> DEFINE G == Alike(V, v)
             B == BatchesOf(G)
  <2>1. IsFiniteSet(G)
    BY <1>1, <1>3, FS_Subset
  <2>2. IsFiniteSet(B)
    BY <2>1, BatchesAndKeys DEF BatchesOf
  <2>3. G \in groups <=> Cardinality(B) >= 2
    <3>1. groups = {H \in {Alike(V, u) : u \in V} : Cardinality(BatchesOf(H)) >= 2}
      BY DEF DuplicateGroups
    <3>. HIDE DEF groups
    <3>. QED BY <3>1
  <2>4. Cardinality(B) >= 2 <=> \E a, b \in B : a # b
    BY <2>2, AtLeastTwo, FS_CardinalityType
  <2>5. (\E a, b \in B : a # b) <=> \E u \in V : Same(u, v) /\ u.batch # v.batch
    BY <1>2, <1>3 DEF BatchesOf
  <2>. QED BY <2>3, <2>4, <2>5
<1>5. \A G \in groups : \E v \in V : G = Alike(V, v)
  BY DEF DuplicateGroups
<1>6. ASSUME NEW v \in V, NEW w \in V
      PROVE  (\E G \in groups : v \in G /\ w \in G) <=>
                Same(v, w) /\ \E u \in V : Same(u, v) /\ u.batch # v.batch
  <2>1. ASSUME NEW G \in groups, v \in G, w \in G
        PROVE  Same(v, w) /\ Alike(V, v) \in groups
    <3>1. PICK u \in V : G = Alike(V, u)
      BY <1>5
    <3>2. Same(u, v) /\ Same(u, w)
      BY <1>2, <2>1, <3>1
    <3>3. Alike(V, v) = G
      BY <3>1, <3>2 DEF Alike, ValueFingerprint
    <3>. QED BY <3>2, <3>3
  <2>. QED BY <1>2, <1>3, <1>4, <2>1
<1>7. ASSUME NEW G \in groups, NEW H \in groups, G # H
      PROVE  G \cap H = {}
  <2>1. PICK v \in V, w \in V : G = Alike(V, v) /\ H = Alike(V, w)
    BY <1>5
  <2>2. \A u \in G \cap H : Same(v, u) /\ Same(w, u)
    BY <1>2, <1>3, <2>1
  <2>. QED BY <1>7, <2>1, <2>2 DEF Alike, ValueFingerprint
<1>. QED BY <1>6, <1>7 DEF GroupsAreAgreements

LEMMA CandidatesFollow ==
    ASSUME Chosen
    PROVE  CandidatesAreDisputes
<1>. SUFFICES ASSUME Of("values") PROVE CandidatesAreDisputes
  BY DEF CandidatesAreDisputes
<1> DEFINE V == input.values
           Mine(f) == OfFact(V, f)
           candidates == ConsistencyCandidates(V)
           Disputed(f) == /\ Cardinality({v.key : v \in Mine(f)}) > 1
                          /\ Cardinality({v.batch : v \in Mine(f)}) > 1
<1>1. IsFiniteSet(V)
  BY InputsAssumption DEF Of, Chosen, ValuesGiven
<1>2. \A f : Mine(f) \subseteq V /\ \A v \in Mine(f) : v.fact = f
  BY DEF OfFact
<1>3. \A v \in V : v \in Mine(v.fact)
  BY DEF OfFact
<1>4. \A v \in V : FactOf(Mine(v.fact)) = v.fact
  <2>. HIDE DEF Mine
  <2>. QED BY <1>2, <1>3 DEF FactOf
<1>5. ASSUME NEW f
      PROVE  Disputed(f) <=> Cardinality(KeysOf(Mine(f))) >= 2 /\ Differ(Mine(f))
  <2> DEFINE M == Mine(f)
  <2>1. IsFiniteSet(M)
    BY <1>1, <1>2, FS_Subset
  <2>2. /\ IsFiniteSet({v.key : v \in M}) /\ IsFiniteSet({v.batch : v \in M})
        /\ Cardinality({v.key : v \in M}) \in Nat
    BY <2>1, BatchesAndKeys, FS_CardinalityType
  <2>3. /\ Cardinality({v.key : v \in M}) > 1 <=> \E v, w \in M : v.key # w.key
        /\ Cardinality({v.batch : v \in M}) > 1 <=> \E v, w \in M : v.batch # w.batch
    <3> DEFINE K == {v.key : v \in M}
               B == {v.batch : v \in M}
    <3>1. IsFiniteSet(K) /\ IsFiniteSet(B)
      BY <2>2
    <3>2. /\ (\E x, y \in K : x # y) <=> \E v, w \in M : v.key # w.key
          /\ (\E x, y \in B : x # y) <=> \E v, w \in M : v.batch # w.batch
      OBVIOUS
    <3>. HIDE DEF K, B
    <3>3. Cardinality(K) > 1 <=> \E x, y \in K : x # y
      BY <3>1, AtLeastTwo
    <3>4. Cardinality(B) > 1 <=> \E x, y \in B : x # y
      BY <3>1, AtLeastTwo
    <3>. QED BY <3>2, <3>3, <3>4 DEF K, B
  \* Two values that differ in the key and two that differ in the batch: two of them
  \* differ in both.
  <2>4. (\E v, w \in M : v.key # w.key) /\ (\E v, w \in M : v.batch # w.batch)
          <=> \E v, w \in M : v.key # w.key /\ v.batch # w.batch
    <3>. HIDE DEF M
    <3>. QED OBVIOUS
  <2>. HIDE DEF M
  <2>. QED BY <2>2, <2>3, <2>4 DEF M, KeysOf, Differ
<1>6. candidates = {C \in {Mine(v.fact) : v \in V} :
                      Cardinality(KeysOf(C)) >= 2 /\ Differ(C)}
  BY DEF ConsistencyCandidates
<1>7. \A v \in V : Mine(v.fact) \in candidates <=> Disputed(v.fact)
  <2>. HIDE DEF Mine, candidates, Disputed
  <2>. QED BY <1>5, <1>6
<1>8. \A C \in candidates : \E v \in V : C = Mine(v.fact)
  BY <1>6
<1>9. {FactOf(C) : C \in candidates} = {f \in {v.fact : v \in V} : Disputed(f)}
  <2>. HIDE DEF Mine, candidates, Disputed
  <2>. QED BY <1>4, <1>7, <1>8
<1>. QED BY <1>9 DEF CandidatesAreDisputes

(* Groups are what batches agree on and candidates what they may disagree on, made   *)
(* of exactly what completed batches stored, for every set of values                 *)
(* (fact_value_duplicate_grouping.py):                                               *)
THEOREM GroupingTheorem == Spec => []GroupingIsRight
<1>1. Chosen => GroupingIsRight
  BY SourceFollows, GroupsFollow, CandidatesFollow DEF GroupingIsRight
<1>. QED BY <1>1, InputIsChosen, PTL

-----------------------------------------------------------------------------
(* Receiving files. *)

LEMMA TotalIs ==
    ASSUME NEW seq \in Seq(Nat)
    PROVE  \E acc \in [0..Len(seq) -> Nat] :
              /\ acc[0] = 0 /\ FoldLeft(+, 0, seq) = acc[Len(seq)]
              /\ \A k \in 0..(Len(seq) - 1) : acc[k + 1] = acc[k] + seq[k + 1]
<1> DEFINE n == Len(seq)
           F == [p \in Nat \X (1..n) |-> p[1] + seq[p[2]]]
           Body(g) == [s \in SUBSET DOMAIN seq |->
                         IF s = {} THEN 0 ELSE g[s \ {Max(s)}] + seq[Max(s)]]
           fold == CHOOSE h : h = Body(h)
           acc == [k \in 0..n |-> fold[1..k]]
<1>1. FoldLeft(+, 0, seq) = fold[DOMAIN seq]
  BY DEF FoldLeft, MapThenFoldSet
<1>2. n \in Nat /\ DOMAIN seq = 1..n /\ F \in [Nat \X (1..n) -> Nat]
  OBVIOUS
<1>3. PICK h \in [SUBSET (1..n) -> Nat] : FoldsTo(h, n, 0, F)
  <2>. HIDE DEF F, n
  <2>. QED BY <1>2, FoldExists
<1>4. \A s \in SUBSET (1..n) : s # {} => Max(s) \in s
  <2>. HIDE DEF n
  <2>. QED BY <1>2, MaxIs
<1>5. h = Body(h)
  <2>1. ASSUME NEW s \in SUBSET (1..n)
        PROVE  h[s] = IF s = {} THEN 0 ELSE h[s \ {Max(s)}] + seq[Max(s)]
    <3>1. CASE s = {}
      BY <3>1, <1>3 DEF FoldsTo
    <3>2. CASE s # {}
      <4>1. h[s] = F[<<h[s \ {Max(s)}], Max(s)>>]
        BY <3>2, <1>3 DEF FoldsTo
      <4>2. h[s \ {Max(s)}] \in Nat /\ Max(s) \in 1..n
        BY <3>2, <1>4
      <4>. QED BY <3>2, <4>1, <4>2, <1>4
    <3>. QED BY <3>1, <3>2
  <2>. HIDE DEF n
  <2>. QED BY <1>2, <2>1
<1>6. fold = Body(fold)
  <2>. HIDE DEF Body
  <2>. QED BY <1>5
<1>. HIDE DEF fold
<1>7. acc[0] = 0
  <2>1. 1..0 = {} /\ {} \in SUBSET DOMAIN seq
    OBVIOUS
  <2>. QED BY <1>6, <2>1
<1>8. ASSUME NEW k \in 0..(n - 1) PROVE acc[k + 1] = acc[k] + seq[k + 1]
  <2>1. Max(1..(k + 1)) = k + 1 /\ (1..(k + 1)) \ {k + 1} = 1..k
    BY MaxOfInterval
  <2>2. /\ 1..(k + 1) # {} /\ 1..(k + 1) \in SUBSET DOMAIN seq /\ 1..(k + 1) \in SUBSET (1..n)
        /\ k \in 0..n /\ k + 1 \in 0..n
    BY <1>2
  <2>3. fold[1..(k + 1)] = fold[(1..(k + 1)) \ {Max(1..(k + 1))}] + seq[Max(1..(k + 1))]
    BY <1>6, <2>2
  <2>4. fold[1..(k + 1)] = fold[1..k] + seq[k + 1]
    BY <1>4, <2>1, <2>2, <2>3
  <2>. QED BY <2>2, <2>4
<1>9. \A k \in 0..n : acc[k] \in Nat
  <2>1. ASSUME NEW k \in 0..(n - 1), acc[k] \in Nat PROVE acc[k + 1] \in Nat
    <3>0. k + 1 \in 1..n
      BY <1>2
    <3>1. seq[k + 1] \in Nat
      BY <1>2, <3>0
    <3>. HIDE DEF acc
    <3>. QED BY <1>8, <2>1, <3>1
  <2>2. acc[0] \in Nat
    BY <1>7
  <2>. HIDE DEF acc, n
  <2>. QED BY <1>2, <2>1, <2>2, StatesStay
<1>10. acc[n] = fold[DOMAIN seq] /\ acc \in [0..n -> Nat]
  BY <1>2, <1>9
<1>. HIDE DEF acc
<1>. QED BY <1>1, <1>7, <1>8, <1>10, Zenon

\* The partial sums of a sequence.
Totals(acc, seq) ==
    /\ acc \in [0..Len(seq) -> Nat] /\ acc[0] = 0
    /\ \A k \in 0..(Len(seq) - 1) : acc[k + 1] = acc[k] + seq[k + 1]

LEMMA TotalsJoin ==
    ASSUME NEW s \in Seq(Nat), NEW t \in Seq(Nat), NEW a, NEW b, NEW c,
           Totals(a, s), Totals(b, t), Totals(c, s \o t)
    PROVE  c[Len(s \o t)] = a[Len(s)] + b[Len(t)]
<1>1. Len(s) \in Nat /\ Len(t) \in Nat /\ Len(s \o t) = Len(s) + Len(t)
  OBVIOUS
<1> DEFINE S == {k \in 0..Len(s) : c[k] = a[k]}
           T == {k \in 0..Len(t) : c[Len(s) + k] = a[Len(s)] + b[k]}
<1>2. 0..Len(s) \subseteq S
  <2>1. 0 \in S
    BY DEF Totals
  <2>2. ASSUME NEW k \in 0..(Len(s) - 1), k \in S PROVE k + 1 \in S
    <3>1. k \in 0..(Len(s \o t) - 1) /\ k + 1 \in 1..Len(s) /\ k + 1 \in 0..Len(s)
      BY <1>1
    <3>2. (s \o t)[k + 1] = s[k + 1]
      BY <3>1
    <3>3. c[k + 1] = c[k] + (s \o t)[k + 1]
      BY <3>1 DEF Totals
    <3>4. a[k + 1] = a[k] + s[k + 1]
      BY DEF Totals
    <3>5. c[k + 1] = a[k + 1]
      BY <2>2, <3>2, <3>3, <3>4
    <3>. QED BY <3>1, <3>5
  <2>. HIDE DEF S
  <2>. QED BY <1>1, <2>1, <2>2, Induction
<1>3. 0..Len(t) \subseteq T
  <2>1. 0 \in T
    <3>1. Len(s) \in S
      BY <1>1, <1>2
    <3>2. a[Len(s)] \in Nat
      <4>1. Len(s) \in 0..Len(s)
        BY <1>1
      <4>. QED BY <4>1 DEF Totals
    <3>3. c[Len(s) + 0] = a[Len(s)] /\ b[0] = 0 /\ 0 \in 0..Len(t)
      BY <1>1, <3>1 DEF Totals
    <3>. QED BY <3>2, <3>3
  <2>2. ASSUME NEW k \in 0..(Len(t) - 1), k \in T PROVE k + 1 \in T
    <3>0. k + 1 \in 1..Len(t) /\ k \in 0..Len(t) /\ k + 1 \in 0..Len(t)
      BY <1>1
    <3>1. /\ Len(s) + k \in 0..(Len(s \o t) - 1) /\ (Len(s) + k) + 1 = Len(s) + (k + 1)
          /\ (s \o t)[Len(s) + (k + 1)] = t[k + 1]
      <4>1. Len(s) + k \in 0..(Len(s \o t) - 1) /\ (Len(s) + k) + 1 = Len(s) + (k + 1)
        BY <1>1, <3>0
      <4>2. Len(s) + (k + 1) \in 1..Len(s \o t) /\ Len(s) + (k + 1) > Len(s)
            /\ (Len(s) + (k + 1)) - Len(s) = k + 1
        BY <1>1, <3>0
      <4>. QED BY <4>1, <4>2
    <3>2. c[(Len(s) + k) + 1] = c[Len(s) + k] + (s \o t)[(Len(s) + k) + 1]
      BY <3>1 DEF Totals
    <3>3. b[k + 1] = b[k] + t[k + 1]
      BY DEF Totals
    <3>4. a[Len(s)] \in Nat /\ b[k] \in Nat /\ t[k + 1] \in Nat
      <4>1. Len(s) \in 0..Len(s)
        BY <1>1
      <4>2. t[k + 1] \in Nat
        BY <3>0
      <4>3. b[k] \in Nat
        <5>1. b \in [0..Len(t) -> Nat]
          BY DEF Totals
        <5>. QED BY <5>1, <3>0
      <4>4. a[Len(s)] \in Nat
        <5>1. a \in [0..Len(s) -> Nat]
          BY DEF Totals
        <5>. QED BY <5>1, <4>1
      <4>. QED BY <4>2, <4>3, <4>4
    <3>5. c[Len(s) + k] = a[Len(s)] + b[k]
      BY <2>2
    <3>6. c[Len(s) + (k + 1)] = a[Len(s)] + b[k + 1]
      <4>1. c[Len(s) + (k + 1)] = c[Len(s) + k] + t[k + 1]
        BY <3>1, <3>2
      <4>. QED BY <4>1, <3>3, <3>4, <3>5
    <3>. QED BY <3>0, <3>6
  <2>. HIDE DEF T
  <2>. QED BY <1>1, <2>1, <2>2, Induction
<1>4. Len(t) \in 0..Len(t)
  BY <1>1
<1>5. Len(t) \in T
  <2>. HIDE DEF T
  <2>. QED BY <1>3, <1>4
<1>. QED BY <1>1, <1>5

\* Cutting a chunk into pieces loses and adds nothing.
LEMMA SplitIsWhole ==
    ASSUME NEW c \in Nat
    PROVE  /\ SplitChunk(c) \in Seq(Nat)
           /\ \E acc : Totals(acc, SplitChunk(c)) /\ acc[Len(SplitChunk(c))] = c
<1> DEFINE L == ChunkLimit
           m == (c + L - 1) \div L
           split == SplitChunk(c)
           acc == [k \in 0..m |-> LeastOf(k * L, c)]
<1>1. L \in Nat \ {0}
  BY PreflightAssumption
<1>2. m \in Nat /\ m * L <= c + L - 1 /\ c + L - 1 < m * L + L
  BY <1>1
<1>3. ASSUME NEW k \in 1..m
      PROVE  /\ (k - 1) * L \in Nat /\ (k - 1) * L < c /\ k * L = (k - 1) * L + L
  <2>1. k * L = (k - 1) * L + L /\ (k - 1) * L \in Nat
    BY <1>1
  <2>2. k * L <= m * L
    BY <1>1, <1>2
  <2>. QED BY <1>1, <1>2, <2>1, <2>2
<1>4. split = [k \in 1..m |-> LeastOf(L, c - (k - 1) * L)]
  BY DEF SplitChunk
<1>5. split \in Seq(Nat) /\ Len(split) = m
  <2>1. \A k \in 1..m : LeastOf(L, c - (k - 1) * L) \in Nat
    <3>. HIDE DEF m
    <3>. QED BY <1>1, <1>3 DEF LeastOf
  <2>. HIDE DEF m, split
  <2>. QED BY <1>2, <1>4, <2>1
<1>. HIDE DEF m, split
<1>6. \A k \in 0..m : acc[k] \in Nat
  BY <1>1, <1>2 DEF LeastOf
<1>7. ASSUME NEW k \in 0..(m - 1) PROVE acc[k + 1] = acc[k] + split[k + 1]
  <2>1. k + 1 \in 1..m /\ (k + 1) - 1 = k /\ k \in 0..m /\ k + 1 \in 0..m
    BY <1>2
  <2>2. k * L \in Nat /\ k * L < c /\ (k + 1) * L = k * L + L
    BY <1>3, <2>1
  <2>3. split[k + 1] = LeastOf(L, c - k * L)
    BY <1>4, <2>1
  <2>4. acc[k] = LeastOf(k * L, c) /\ acc[k + 1] = LeastOf((k + 1) * L, c)
    BY <2>1
  <2>. QED BY <1>1, <2>2, <2>3, <2>4 DEF LeastOf
<1>8. acc[0] = 0
  BY <1>1, <1>2 DEF LeastOf
<1>9. acc[m] = c
  BY <1>1, <1>2 DEF LeastOf
<1>10. Totals(acc, split)
  <2>. HIDE DEF acc
  <2>1. acc = [k \in 0..m |-> acc[k]]
    BY DEF acc
  <2>. QED BY <1>5, <1>6, <1>7, <1>8, <2>1 DEF Totals
<1>. HIDE DEF acc
<1>. QED BY <1>5, <1>9, <1>10 DEF split

\* The pieces of all chunks are as long together as the chunks.
LEMMA PiecesAreWhole ==
    ASSUME NEW chunks \in Seq(Nat)
    PROVE  LET pieces == FlattenSeq([i \in DOMAIN chunks |-> SplitChunk(chunks[i])]) IN
           /\ pieces \in Seq(Nat)
           /\ \E c : Totals(c, pieces) /\ c[Len(pieces)] = FoldLeft(+, 0, chunks)
<1> DEFINE split == [i \in DOMAIN chunks |-> SplitChunk(chunks[i])]
           n == Len(chunks)
<1>1. /\ n \in Nat /\ DOMAIN chunks = 1..n
      /\ \A k \in 0..(n - 1) : k \in 0..n /\ k + 1 \in 0..n /\ k + 1 \in 1..n
  OBVIOUS
<1>2. split \in Seq(Seq(Nat)) /\ Len(split) = n /\ \A i \in 1..n : split[i] = SplitChunk(chunks[i])
  <2>1. \A i \in 1..n : SplitChunk(chunks[i]) \in Seq(Nat)
    <3>1. ASSUME NEW i \in 1..n PROVE chunks[i] \in Nat
      OBVIOUS
    <3>. QED BY <3>1, SplitIsWhole
  <2>. HIDE DEF n
  <2>. QED BY <1>1, <2>1
<1>. HIDE DEF split
<1>3. PICK acc \in [0..n -> Seq(Nat)] :
        /\ acc[0] = << >> /\ FlattenSeq(split) = acc[n]
        /\ \A k \in 0..(n - 1) : acc[k + 1] = acc[k] \o split[k + 1]
  <2>1. ASSUME NEW seqs \in Seq(Seq(Nat)), Len(seqs) = n
        PROVE  \E acc \in [0..n -> Seq(Nat)] :
                 /\ acc[0] = << >> /\ FlattenSeq(seqs) = acc[n]
                 /\ \A k \in 0..(n - 1) : acc[k + 1] = acc[k] \o seqs[k + 1]
    <3>. HIDE DEF n
    <3>. QED BY <2>1, FlattenIs
  <2>. HIDE DEF n
  <2>. QED BY <1>2, <2>1
<1>4. PICK sum \in [0..n -> Nat] :
        /\ sum[0] = 0 /\ FoldLeft(+, 0, chunks) = sum[n]
        /\ \A k \in 0..(n - 1) : sum[k + 1] = sum[k] + chunks[k + 1]
  BY TotalIs, Zenon
<1> DEFINE Whole(k) == \E c : Totals(c, acc[k]) /\ c[Len(acc[k])] = sum[k]
           S == {k \in 0..n : Whole(k)}
<1>5. Whole(0)
  <2> DEFINE z == [k \in 0..0 |-> 0]
  <2>1. Totals(z, << >>) /\ z[Len(<< >>)] = 0
    BY DEF Totals
  <2>. HIDE DEF z
  <2>2. acc[0] = << >> /\ sum[0] = 0
    BY <1>3, <1>4
  <2>. HIDE DEF n
  <2>. QED BY <2>1, <2>2
<1>6. ASSUME NEW k \in 0..(n - 1), Whole(k) PROVE Whole(k + 1)
  <2>0. k \in 0..n /\ k + 1 \in 0..n /\ k + 1 \in 1..n
    BY <1>1
  <2>1. PICK a : Totals(a, acc[k]) /\ a[Len(acc[k])] = sum[k]
    BY <1>6
  <2>2. chunks[k + 1] \in Nat /\ split[k + 1] = SplitChunk(chunks[k + 1])
    BY <1>2, <2>0
  <2>3. /\ split[k + 1] \in Seq(Nat)
        /\ \E b : Totals(b, split[k + 1]) /\ b[Len(split[k + 1])] = chunks[k + 1]
    BY <2>2, SplitIsWhole
  <2>4. PICK b : Totals(b, split[k + 1]) /\ b[Len(split[k + 1])] = chunks[k + 1]
    BY <2>3
  <2>5. acc[k] \in Seq(Nat) /\ acc[k + 1] \in Seq(Nat) /\ acc[k + 1] = acc[k] \o split[k + 1]
    BY <1>3, <2>0
  <2>6. PICK c : Totals(c, acc[k + 1])
    <3>1. \A seq \in Seq(Nat) : \E c : Totals(c, seq)
      BY TotalIs, Zenon DEF Totals
    <3>. QED BY <2>5, <3>1
  <2>7. c[Len(acc[k] \o split[k + 1])] = a[Len(acc[k])] + b[Len(split[k + 1])]
    <3>1. Totals(c, acc[k] \o split[k + 1])
      BY <2>5, <2>6
    <3>2. ASSUME NEW s \in Seq(Nat), NEW q \in Seq(Nat), Totals(a, s), Totals(b, q), Totals(c, s \o q)
          PROVE  c[Len(s \o q)] = a[Len(s)] + b[Len(q)]
      BY <3>2, TotalsJoin
    <3>3. /\ acc[k] \in Seq(Nat) /\ split[k + 1] \in Seq(Nat)
          /\ Totals(a, acc[k]) /\ Totals(b, split[k + 1])
      BY <2>1, <2>3, <2>4, <2>5
    <3>. QED BY <3>1, <3>2, <3>3
  <2>8. c[Len(acc[k + 1])] = sum[k + 1]
    BY <1>4, <2>1, <2>4, <2>5, <2>7
  <2>. QED BY <2>6, <2>8
<1>7. 0..n \subseteq S
  <2>. HIDE DEF Whole
  <2>1. 0 \in S /\ \A k \in 0..(n - 1) : k \in S => k + 1 \in S
    <3>1. 0 \in 0..n
      BY <1>1
    <3>. HIDE DEF n
    <3>. QED BY <1>1, <1>5, <1>6, <3>1
  <2>. HIDE DEF S, n
  <2>. QED BY <1>1, <2>1, Induction
<1>8. Whole(n) /\ acc[n] \in Seq(Nat)
  <2>1. n \in 0..n
    BY <1>1
  <2>. HIDE DEF Whole, n
  <2>. QED BY <1>3, <1>7, <2>1
<1>9. FlattenSeq(split) = acc[n]
  BY <1>3 DEF FlattenSeq, FlattenSeq
<1>. QED BY <1>4, <1>8, <1>9, Zenon DEF split

-----------------------------------------------------------------------------
(* The states receiving goes through, one for each piece. *)

Received == [size: Nat, written: Nat, error: {"none", "too_large"}]
Nothing == [size |-> 0, written |-> 0, error |-> "none"]

\* What is known of the state after pieces of t bytes together.
Counted(st, t) ==
    /\ st \in Received /\ st.written <= UploadLimit
    /\ st.error = "none" => st.size = t /\ st.written = t /\ t <= UploadLimit
    /\ st.error # "none" => t > UploadLimit

LEMMA PieceIsCounted ==
    ASSUME NEW st, NEW t \in Nat, NEW piece \in Nat, Counted(st, t)
    PROVE  Counted(ReceivePiece(piece, st), t + piece)
<1>1. UploadLimit \in Nat
  BY PreflightAssumption
<1> DEFINE new == ReceivePiece(piece, st)
<1>2. st \in Received /\ st.size \in Nat /\ st.written \in Nat
  BY DEF Counted, Received
<1>3. CASE st.error # "none"
  BY <1>1, <1>2, <1>3 DEF Counted, ReceivePiece
<1>4. CASE st.error = "none" /\ st.size + piece > UploadLimit
  <2>1. new = [size |-> st.size + piece, written |-> st.written, error |-> "too_large"]
    BY <1>2, <1>4 DEF ReceivePiece, Received
  <2>. HIDE DEF new
  <2>2. Counted(new, t + piece)
    BY <1>1, <1>2, <1>4, <2>1 DEF Counted, Received
  <2>. QED BY <2>2 DEF new
<1>5. CASE st.error = "none" /\ ~(st.size + piece > UploadLimit)
  <2>1. new = [size |-> st.size + piece, written |-> st.written + piece, error |-> "none"]
    BY <1>2, <1>5 DEF ReceivePiece, Received
  <2>. HIDE DEF new
  <2>2. Counted(new, t + piece)
    BY <1>1, <1>2, <1>5, <2>1 DEF Counted, Received
  <2>. QED BY <2>2 DEF new
<1>. QED BY <1>3, <1>4, <1>5

LEMMA PieceIsReceived ==
    ASSUME NEW st \in Received, NEW piece \in Nat
    PROVE  ReceivePiece(piece, st) \in Received
<1>1. st = [size |-> st.size, written |-> st.written, error |-> st.error]
      /\ st.size \in Nat /\ st.written \in Nat /\ st.error \in {"none", "too_large"}
  BY DEF Received
<1>3. CASE st.error # "none"
  BY <1>3 DEF ReceivePiece
<1>4. CASE st.error = "none" /\ st.size + piece > UploadLimit
  <2>1. ReceivePiece(piece, st) = [size |-> st.size + piece, written |-> st.written,
                                       error |-> "too_large"]
    BY <1>4 DEF ReceivePiece, Received
  <2>2. st.size + piece \in Nat /\ st.written \in Nat
    BY <1>1
  <2>. QED BY <2>1, <2>2 DEF Received
<1>5. CASE st.error = "none" /\ ~(st.size + piece > UploadLimit)
  <2>1. ReceivePiece(piece, st) = [size |-> st.size + piece, written |-> st.written + piece,
                                       error |-> "none"]
    BY <1>5 DEF ReceivePiece, Received
  <2>2. st.size + piece \in Nat /\ st.written + piece \in Nat
    BY <1>1
  <2>. QED BY <2>1, <2>2 DEF Received
<1>. QED BY <1>3, <1>4, <1>5

LEMMA ReceivingIs ==
    ASSUME NEW pieces \in Seq(Nat)
    PROVE  \E acc : /\ acc[0] = Nothing
                    /\ FoldLeft(LAMBDA a, piece : ReceivePiece(piece, a), Nothing, pieces)
                          = acc[Len(pieces)]
                    /\ \A k \in 0..(Len(pieces) - 1) :
                          acc[k + 1] = ReceivePiece(pieces[k + 1], acc[k])
<1> DEFINE n == Len(pieces)
           F == [p \in Received \X (1..n) |-> ReceivePiece(pieces[p[2]], p[1])]
           Body(g) == [s \in SUBSET DOMAIN pieces |->
                         IF s = {} THEN Nothing
                         ELSE ReceivePiece(pieces[Max(s)], g[s \ {Max(s)}])]
           fold == CHOOSE h : h = Body(h)
           acc == [k \in 0..n |-> fold[1..k]]
<1>1. FoldLeft(LAMBDA a, piece : ReceivePiece(piece, a), Nothing, pieces) = fold[DOMAIN pieces]
  BY DEF FoldLeft, MapThenFoldSet
<1>2. /\ n \in Nat /\ DOMAIN pieces = 1..n /\ Nothing \in Received
      /\ F \in [Received \X (1..n) -> Received]
  <2>1. n \in Nat /\ DOMAIN pieces = 1..n /\ Nothing \in Received
    BY DEF Nothing, Received
  <2>2. ASSUME NEW p \in Received \X (1..n)
        PROVE  ReceivePiece(pieces[p[2]], p[1]) \in Received
    <3>1. p[1] \in Received /\ pieces[p[2]] \in Nat
      BY <2>1
    <3>. QED BY <3>1, PieceIsReceived
  <2>. HIDE DEF n
  <2>. QED BY <2>1, <2>2
<1>3. PICK h \in [SUBSET (1..n) -> Received] : FoldsTo(h, n, Nothing, F)
  <2>. HIDE DEF F, n
  <2>. QED BY <1>2, FoldExists
<1>4. \A s \in SUBSET (1..n) : s # {} => Max(s) \in s
  <2>. HIDE DEF n
  <2>. QED BY <1>2, MaxIs
<1>5. h = Body(h)
  <2>1. ASSUME NEW s \in SUBSET (1..n)
        PROVE  h[s] = IF s = {} THEN Nothing
                      ELSE ReceivePiece(pieces[Max(s)], h[s \ {Max(s)}])
    <3>1. CASE s = {}
      BY <3>1, <1>3 DEF FoldsTo
    <3>2. CASE s # {}
      <4>1. h[s] = F[<<h[s \ {Max(s)}], Max(s)>>]
        BY <3>2, <1>3 DEF FoldsTo
      <4>2. h[s \ {Max(s)}] \in Received /\ Max(s) \in 1..n
        BY <3>2, <1>4
      <4>. QED BY <3>2, <4>1, <4>2, <1>4
    <3>. QED BY <3>1, <3>2
  <2>. HIDE DEF n
  <2>. QED BY <1>2, <2>1
<1>6. fold = Body(fold)
  <2>. HIDE DEF Body
  <2>. QED BY <1>5
<1>. HIDE DEF fold
<1>7. acc[0] = Nothing
  <2>1. 1..0 = {} /\ {} \in SUBSET DOMAIN pieces
    OBVIOUS
  <2>. QED BY <1>6, <2>1
<1>8. ASSUME NEW k \in 0..(n - 1) PROVE acc[k + 1] = ReceivePiece(pieces[k + 1], acc[k])
  <2>1. Max(1..(k + 1)) = k + 1 /\ (1..(k + 1)) \ {k + 1} = 1..k
    BY MaxOfInterval
  <2>2. /\ 1..(k + 1) # {} /\ 1..(k + 1) \in SUBSET DOMAIN pieces /\ 1..(k + 1) \in SUBSET (1..n)
        /\ k \in 0..n /\ k + 1 \in 0..n
    BY <1>2
  <2>3. fold[1..(k + 1)] = ReceivePiece(pieces[Max(1..(k + 1))],
                                             fold[(1..(k + 1)) \ {Max(1..(k + 1))}])
    BY <1>6, <2>2
  <2>4. fold[1..(k + 1)] = ReceivePiece(pieces[k + 1], fold[1..k])
    BY <1>4, <2>1, <2>2, <2>3
  <2>. QED BY <2>2, <2>4
<1>9. acc[n] = fold[DOMAIN pieces]
  BY <1>2
<1>. HIDE DEF acc
<1>. QED BY <1>1, <1>7, <1>8, <1>9, Zenon

LEMMA StreamIsWhole ==
    ASSUME NEW chunks \in Seq(Nat)
    PROVE  ReceivedIsWhole(chunks)
<1> DEFINE pieces == FlattenSeq([i \in DOMAIN chunks |-> SplitChunk(chunks[i])])
           total == FoldLeft(+, 0, chunks)
           end == FoldLeft(LAMBDA a, piece : ReceivePiece(piece, a), Nothing, pieces)
           n == Len(pieces)
<1>1. pieces \in Seq(Nat) /\ \E c : Totals(c, pieces) /\ c[n] = total
  BY PiecesAreWhole, Zenon
<1>2. PICK c : Totals(c, pieces) /\ c[n] = total
  BY <1>1, Zenon
<1>3. PICK acc : /\ acc[0] = Nothing /\ end = acc[n]
                 /\ \A k \in 0..(n - 1) : acc[k + 1] = ReceivePiece(pieces[k + 1], acc[k])
  <2>. HIDE DEF pieces
  <2>. QED BY <1>1, ReceivingIs, Zenon
<1>. HIDE DEF pieces, total, end
<1>4. /\ n \in Nat
      /\ \A k \in 0..(n - 1) : k \in 0..n /\ k + 1 \in 0..n /\ pieces[k + 1] \in Nat
  <2>1. n \in Nat
    BY <1>1
  <2>2. ASSUME NEW k \in 0..(n - 1) PROVE k \in 0..n /\ k + 1 \in 0..n /\ k + 1 \in 1..n
    BY <2>1
  <2>3. \A i \in 1..n : pieces[i] \in Nat
    BY <1>1
  <2>. QED BY <2>1, <2>2, <2>3
<1>5. /\ c[0] = 0 /\ \A k \in 0..n : c[k] \in Nat
      /\ \A k \in 0..(n - 1) : c[k + 1] = c[k] + pieces[k + 1]
  BY <1>2, <1>4 DEF Totals
<1> DEFINE S == {k \in 0..n : Counted(acc[k], c[k])}
<1>6. 0 \in S
  <2>1. UploadLimit \in Nat
    BY PreflightAssumption
  <2>2. Counted(Nothing, 0)
    BY <2>1 DEF Counted, Nothing, Received
  <2>. QED BY <1>3, <1>4, <1>5, <2>2
<1>7. ASSUME NEW k \in 0..(n - 1), k \in S PROVE k + 1 \in S
  <2>1. Counted(acc[k], c[k]) /\ c[k] \in Nat /\ pieces[k + 1] \in Nat /\ k + 1 \in 0..n
    BY <1>4, <1>5, <1>7
  <2>2. Counted(ReceivePiece(pieces[k + 1], acc[k]), c[k] + pieces[k + 1])
    BY <2>1, PieceIsCounted
  <2>3. acc[k + 1] = ReceivePiece(pieces[k + 1], acc[k]) /\ c[k + 1] = c[k] + pieces[k + 1]
    BY <1>3, <1>5
  <2>. QED BY <2>1, <2>2, <2>3
<1>8. Counted(end, total) /\ total \in Nat
  <2>1. 0..n \subseteq S
    <3>. HIDE DEF S, n
    <3>. QED BY <1>4, <1>6, <1>7, Induction
  <2>2. n \in 0..n
    BY <1>4
  <2>. HIDE DEF n
  <2>. QED BY <1>2, <1>3, <1>5, <2>1, <2>2
<1>9. ReceiveStream(chunks) = IF end.error = "none" /\ end.size = 0
                                  THEN [end EXCEPT !.error = "empty"] ELSE end
  BY DEF ReceiveStream, end, pieces, Nothing
<1>10. UploadLimit \in Nat \ {0}
  BY PreflightAssumption
<1>11. ReceivedIsWhole(chunks) <=>
         LET got == ReceiveStream(chunks) IN
         /\ got.error = "none" <=> total \in 1 .. UploadLimit
         /\ got.error = "none" => got.written = total
         /\ got.written <= UploadLimit
  BY Zenon DEF ReceivedIsWhole, total
<1>12. CASE end.error = "none" /\ end.size = 0
  BY <1>8, <1>9, <1>10, <1>11, <1>12 DEF Counted, Received
<1>13. CASE ~(end.error = "none" /\ end.size = 0)
  BY <1>8, <1>9, <1>10, <1>11, <1>13 DEF Counted, Received
<1>. QED BY <1>12, <1>13

-----------------------------------------------------------------------------
(* Inspecting files, and the theorem. *)

LEMMA VerdictTells ==
    ASSUME NEW f \in Files
    PROVE  VerdictIsSound(f)
<1>1. CASE f.ext = ".pdf"
  BY <1>1 DEF VerdictIsSound, Inspect, InspectPdf, MapPreflight, Rejects,
     Passes, Verdict, CommonWarnings, MimeWarning, BlockingFlags, IsPdf,
     Files, Extensions
<1>2. CASE f.ext = ".docx"
  BY <1>2 DEF VerdictIsSound, Inspect, InspectDocx, MapPreflight, Rejects,
     Passes, Verdict, CommonWarnings, MimeWarning, BlockingFlags, IsZip,
     Files, Extensions
<1>3. CASE f.ext = ".txt"
  BY <1>3 DEF VerdictIsSound, Inspect, InspectText, MapPreflight, Rejects,
     Passes, Verdict, CommonWarnings, MimeWarning, BlockingFlags, IsPdf,
     IsZip, Files, Extensions, Contents
<1>4. CASE f.ext = ".other"
  BY <1>4 DEF VerdictIsSound, Inspect, MapPreflight, Rejects, Verdict,
     CommonWarnings, BlockingFlags, Files, Extensions
<1>. QED BY <1>1, <1>2, <1>3, <1>4 DEF Files, Extensions

\* However an upload is cut into chunks it is received exactly if its size is allowed, and
\* then all of it; a file reaches admission only as what its extension says it is
\* (file_ingestion.py).
THEOREM PreflightTheorem == Spec => []PreflightIsSound
<1>1. ASSUME Chosen PROVE PreflightIsSound
  <2>1. ReceivedWhole
    <3>1. SUFFICES ASSUME input.kind = "stream" PROVE ReceivedIsWhole(input.chunks)
      BY DEF ReceivedWhole, Of
    <3>2. input.chunks \in Seq(Nat)
      BY <1>1, <3>1, InputsAssumption DEF Chosen
    <3>. QED BY <3>2, StreamIsWhole
  <2>2. VerdictTellsContent
    <3>1. SUFFICES ASSUME input.kind = "file" PROVE VerdictIsSound(input.file)
      BY DEF VerdictTellsContent, Of
    <3>2. input.file \in Files
      BY <1>1, <3>1, InputsAssumption DEF Chosen
    <3>. QED BY <3>2, VerdictTells
  <2>. QED BY <2>1, <2>2 DEF PreflightIsSound
<1>. QED BY <1>1, InputIsChosen, PTL

-----------------------------------------------------------------------------
(* The versions of a schema. *)

Statuses == {"draft", "active", "retired"}
SchemaStates == [archived: {FALSE}, current: Nat, versions: Seq(Statuses)]

\* What every schema is after any steps.
SchemaFits(s) ==
    /\ s \in SchemaStates
    /\ ActiveIn(s) = {s.current} \ {NoVersion}

\* What a schema never takes back.
Later(s, t) ==
    /\ DOMAIN s.versions \subseteq DOMAIN t.versions
    /\ \A v \in DOMAIN s.versions :
         /\ s.versions[v] = "retired" => t.versions[v] = "retired"
         /\ s.versions[v] = "active" => t.versions[v] \in {"active", "retired"}
    /\ s.current # NoVersion => t.current # NoVersion
    /\ s.current = t.current => \A v \in DOMAIN s.versions : s.versions[v] = t.versions[v]

Stepped(s, v) == IF v = 0 THEN WithVersion(s, "draft") ELSE Activated(s, v)

LEMMA LaterFollows ==
    ASSUME NEW s, NEW t, NEW u, SchemaFits(s), SchemaFits(t), SchemaFits(u),
           Later(s, t), Later(t, u)
    PROVE  Later(s, u)
<1>1. /\ s.current \in Nat /\ t.current \in Nat /\ u.current \in Nat
  BY DEF SchemaFits, SchemaStates
<1>2. /\ DOMAIN s.versions \subseteq DOMAIN t.versions /\ DOMAIN t.versions \subseteq DOMAIN u.versions
      /\ s.current # 0 => t.current # 0
      /\ t.current # 0 => u.current # 0
  BY DEF Later, NoVersion
<1>3. ASSUME NEW v \in DOMAIN s.versions
      PROVE  /\ s.versions[v] = "retired" => u.versions[v] = "retired"
             /\ s.versions[v] = "active" => u.versions[v] \in {"active", "retired"}
  BY <1>2 DEF Later
<1>4. ASSUME s.current = u.current PROVE t.current = s.current
  <2>1. CASE s.current = 0
    BY <1>2, <1>4, <2>1
  <2>2. CASE s.current # 0 /\ t.current # s.current
    <3>1. s.current \in ActiveIn(s) /\ s.current \notin ActiveIn(t)
          /\ s.current \in ActiveIn(u)
      BY <1>1, <1>4, <2>2 DEF SchemaFits, NoVersion
    <3>2. /\ s.current \in DOMAIN s.versions /\ s.versions[s.current] = "active"
          /\ s.current \in DOMAIN t.versions
          /\ t.versions[s.current] # "active" /\ u.versions[s.current] = "active"
      BY <1>2, <3>1 DEF ActiveIn
    <3>3. t.versions[s.current] = "retired"
      BY <3>2 DEF Later
    <3>4. u.versions[s.current] = "retired"
      BY <3>2, <3>3 DEF Later
    <3>. QED BY <3>2, <3>4
  <2>. QED BY <2>1, <2>2
<1>5. ASSUME s.current = u.current
      PROVE  \A v \in DOMAIN s.versions : s.versions[v] = u.versions[v]
  <2>1. t.current = s.current /\ t.current = u.current
    BY <1>4, <1>5
  <2>. QED BY <1>2, <2>1 DEF Later
<1>. QED BY <1>2, <1>3, <1>5 DEF Later, NoVersion

LEMMA SchemaSteps ==
    ASSUME NEW s, NEW v \in Nat, SchemaFits(s)
    PROVE  SchemaFits(Stepped(s, v)) /\ Later(s, Stepped(s, v))
<1> DEFINE t == Stepped(s, v)
<1>1. /\ s.archived = FALSE /\ s.current \in Nat /\ s.versions \in Seq(Statuses)
      /\ s = [archived |-> s.archived, current |-> s.current, versions |-> s.versions]
  BY DEF SchemaFits, SchemaStates
<1>2. CASE v = 0
  <2> DEFINE w == Append(s.versions, "draft")
  <2>1. t = [archived |-> FALSE, current |-> s.current, versions |-> w]
    BY <1>1, <1>2 DEF Stepped, WithVersion
  <2>2. /\ w \in Seq(Statuses) /\ DOMAIN w = 1..(Len(s.versions) + 1) /\ Len(s.versions) \in Nat
        /\ DOMAIN s.versions = 1..Len(s.versions)
        /\ \A x \in DOMAIN s.versions : w[x] = s.versions[x]
        /\ w[Len(s.versions) + 1] = "draft"
    BY <1>1 DEF Statuses
  <2>. HIDE DEF w, t
  <2>3. t.current = s.current /\ t.versions = w /\ t \in SchemaStates
    BY <1>1, <2>1, <2>2 DEF SchemaStates
  <2>4. \A x \in DOMAIN w : x \in DOMAIN s.versions \/ x = Len(s.versions) + 1
    BY <2>2
  <2>5. DOMAIN s.versions \subseteq DOMAIN w
    BY <2>2
  <2>6. ActiveIn(t) = ActiveIn(s)
    BY <2>2, <2>3, <2>4, <2>5 DEF ActiveIn
  <2>7. SchemaFits(t)
    BY <2>3, <2>6 DEF SchemaFits
  <2>8. Later(s, t)
    BY <2>2, <2>3, <2>5 DEF Later
  <2>. QED BY <2>7, <2>8 DEF t
<1>3. CASE v # 0 /\ (v \notin DOMAIN s.versions \/ ~MayActivate(s, v))
  <2>1. t = s
    BY <1>1, <1>3 DEF Stepped, Activated
  <2>2. Later(s, s)
    BY DEF Later
  <2>. HIDE DEF t
  <2>. QED BY <2>1, <2>2 DEF t
<1>4. CASE v # 0 /\ v \in DOMAIN s.versions /\ MayActivate(s, v)
  <2> DEFINE w == [x \in DOMAIN s.versions |->
                     IF x = v THEN "active" ELSE IF x = s.current THEN "retired" ELSE s.versions[x]]
  <2>1. t = [archived |-> FALSE, current |-> v, versions |-> w]
    BY <1>1, <1>4 DEF Stepped, Activated
  <2>2. w \in Seq(Statuses)
    <3>1. /\ DOMAIN s.versions = 1..Len(s.versions) /\ Len(s.versions) \in Nat
          /\ \A x \in DOMAIN s.versions : s.versions[x] \in Statuses
      BY <1>1
    <3>2. \A x \in 1..Len(s.versions) :
            (IF x = v THEN "active" ELSE IF x = s.current THEN "retired" ELSE s.versions[x]) \in Statuses
      BY <3>1 DEF Statuses
    <3>. QED BY <3>1, <3>2
  <2>3. /\ s.versions[v] = "draft" \/ s.versions[v] = "proposed"
        /\ v # s.current
    <3>1. s.versions[v] \in {"draft", "proposed"}
      BY <1>4 DEF MayActivate
    <3>2. s.current # 0 => s.current \in ActiveIn(s)
      BY <1>1 DEF SchemaFits, NoVersion
    <3>. QED BY <1>4, <3>1, <3>2 DEF ActiveIn
  <2>4. /\ DOMAIN w = DOMAIN s.versions /\ w[v] = "active"
        /\ \A x \in DOMAIN s.versions : x # v =>
             w[x] = IF x = s.current THEN "retired" ELSE s.versions[x]
    BY <1>4
  <2>. HIDE DEF w, t
  <2>5. t.current = v /\ t.versions = w /\ t \in SchemaStates
    BY <2>1, <2>2 DEF SchemaStates
  <2>6. \A x \in DOMAIN s.versions : s.versions[x] = "active" => x = s.current
    BY DEF SchemaFits, ActiveIn
  <2>7. ActiveIn(t) = {v}
    BY <1>4, <2>4, <2>5, <2>6 DEF ActiveIn
  <2>8. SchemaFits(t)
    BY <1>4, <2>5, <2>7 DEF SchemaFits, NoVersion
  <2>9. Later(s, t)
    BY <1>4, <2>3, <2>4, <2>5, <2>6 DEF Later, NoVersion
  <2>. QED BY <2>8, <2>9 DEF t
<1>. QED BY <1>2, <1>3, <1>4

LEMMA SchemaBegins == SchemaFits(NewSchema)
<1>1. << >> \in Seq(Statuses) /\ DOMAIN << >> = {}
  OBVIOUS
<1>2. NewSchema \in SchemaStates
  BY <1>1 DEF NewSchema, NoVersion, SchemaStates
<1>3. ActiveIn(NewSchema) = {}
  BY <1>1 DEF NewSchema, ActiveIn
<1>. QED BY <1>2, <1>3 DEF SchemaFits, NewSchema, NoVersion

Folded(steps) ==
    FoldLeft(LAMBDA s, v : IF v = 0 THEN WithVersion(s, "draft") ELSE Activated(s, v),
             NewSchema, steps)

\* The schemas of a sequence of steps, one after the other.
Follows(acc, steps) ==
    /\ acc[0] = NewSchema
    /\ \A k \in 0..(Len(steps) - 1) : acc[k + 1] = Stepped(acc[k], steps[k + 1])

LEMMA FoldedIs ==
    ASSUME NEW steps \in Seq(Nat)
    PROVE  \E acc : Follows(acc, steps) /\ Folded(steps) = acc[Len(steps)]
<1> DEFINE n == Len(steps)
           T == {s \in SchemaStates : SchemaFits(s)}
           F == [p \in T \X (1..n) |-> Stepped(p[1], steps[p[2]])]
           Body(g) == [s \in SUBSET DOMAIN steps |->
                         IF s = {} THEN NewSchema
                         ELSE Stepped(g[s \ {Max(s)}], steps[Max(s)])]
           fold == CHOOSE h : h = Body(h)
           acc == [k \in 0..n |-> fold[1..k]]
<1>1. Folded(steps) = fold[DOMAIN steps]
  BY DEF Folded, FoldLeft, MapThenFoldSet, Stepped
<1>2. /\ n \in Nat /\ DOMAIN steps = 1..n /\ NewSchema \in T
      /\ F \in [T \X (1..n) -> T]
  <2>1. n \in Nat /\ DOMAIN steps = 1..n /\ NewSchema \in T
    BY SchemaBegins DEF SchemaFits
  <2>2. ASSUME NEW p \in T \X (1..n)
        PROVE  Stepped(p[1], steps[p[2]]) \in T
    <3>1. SchemaFits(p[1]) /\ steps[p[2]] \in Nat
      BY <2>1
    <3>2. SchemaFits(Stepped(p[1], steps[p[2]]))
      BY <3>1, SchemaSteps
    <3>. QED BY <3>2 DEF SchemaFits
  <2>. HIDE DEF n, T
  <2>. QED BY <2>1, <2>2
<1>3. PICK h \in [SUBSET (1..n) -> T] : FoldsTo(h, n, NewSchema, F)
  <2>. HIDE DEF F, n, T
  <2>. QED BY <1>2, FoldExists
<1>4. \A s \in SUBSET (1..n) : s # {} => Max(s) \in s
  <2>. HIDE DEF n
  <2>. QED BY <1>2, MaxIs
<1>5. h = Body(h)
  <2>1. ASSUME NEW s \in SUBSET (1..n)
        PROVE  h[s] = IF s = {} THEN NewSchema
                      ELSE Stepped(h[s \ {Max(s)}], steps[Max(s)])
    <3>1. CASE s = {}
      BY <3>1, <1>3 DEF FoldsTo
    <3>2. CASE s # {}
      <4>1. h[s] = F[<<h[s \ {Max(s)}], Max(s)>>]
        BY <3>2, <1>3 DEF FoldsTo
      <4>2. h[s \ {Max(s)}] \in T /\ Max(s) \in 1..n
        <5>. HIDE DEF T
        <5>. QED BY <3>2, <1>3, <1>4
      <4>. HIDE DEF T
      <4>. QED BY <3>2, <4>1, <4>2, <1>4
    <3>. QED BY <3>1, <3>2
  <2>. HIDE DEF n, T
  <2>. QED BY <1>2, <1>3, <2>1
<1>6. fold = Body(fold)
  <2>. HIDE DEF Body
  <2>. QED BY <1>5
<1>. HIDE DEF fold
<1>7. acc[0] = NewSchema
  <2>1. 1..0 = {} /\ {} \in SUBSET DOMAIN steps /\ 0 \in 0..n
    BY <1>2
  <2>. QED BY <1>6, <2>1
<1>8. ASSUME NEW k \in 0..(n - 1) PROVE acc[k + 1] = Stepped(acc[k], steps[k + 1])
  <2>1. Max(1..(k + 1)) = k + 1 /\ (1..(k + 1)) \ {k + 1} = 1..k
    BY MaxOfInterval
  <2>2. /\ 1..(k + 1) # {} /\ 1..(k + 1) \in SUBSET DOMAIN steps
        /\ k \in 0..n /\ k + 1 \in 0..n
    BY <1>2
  <2>3. fold[1..(k + 1)] = Stepped(fold[(1..(k + 1)) \ {Max(1..(k + 1))}], steps[Max(1..(k + 1))])
    BY <1>6, <2>2
  <2>4. fold[1..(k + 1)] = Stepped(fold[1..k], steps[k + 1])
    BY <2>1, <2>3
  <2>. QED BY <2>2, <2>4
<1>9. acc[n] = fold[DOMAIN steps]
  BY <1>2
<1>. HIDE DEF acc
<1>. QED BY <1>1, <1>7, <1>8, <1>9 DEF Follows

\* The schema after a part of the steps is the one that all the steps go through.
LEMMA PrefixesFollow ==
    ASSUME NEW steps \in Seq(Nat)
    PROVE  \E acc : Follows(acc, steps) /\ \A n \in 0..Len(steps) : Folded(SubSeq(steps, 1, n)) = acc[n]
<1>1. PICK acc : Follows(acc, steps)
  BY FoldedIs
<1>2. ASSUME NEW n \in 0..Len(steps) PROVE Folded(SubSeq(steps, 1, n)) = acc[n]
  <2> DEFINE part == SubSeq(steps, 1, n)
  <2>1. part \in Seq(Nat) /\ Len(part) = n /\ \A i \in 1..n : part[i] = steps[i]
    OBVIOUS
  <2>2. PICK own : Follows(own, part) /\ Folded(part) = own[n]
    <3>. HIDE DEF part
    <3>. QED BY <2>1, FoldedIs
  <2> DEFINE S == {k \in 0..n : own[k] = acc[k]}
  <2>3. 0 \in S
    BY <1>1, <2>2 DEF Follows
  <2>4. ASSUME NEW k \in 0..(n - 1), k \in S PROVE k + 1 \in S
    <3>1. k + 1 \in 1..n /\ k + 1 \in 0..n /\ k \in 0..(Len(steps) - 1)
      BY <2>1
    <3>2. own[k + 1] = Stepped(own[k], part[k + 1])
      <4>. HIDE DEF part
      <4>. QED BY <2>1, <2>2 DEF Follows
    <3>3. acc[k + 1] = Stepped(acc[k], steps[k + 1])
      BY <1>1, <3>1 DEF Follows
    <3>4. own[k] = acc[k] /\ part[k + 1] = steps[k + 1]
      BY <2>1, <2>4, <3>1
    <3>5. own[k + 1] = acc[k + 1]
      BY <3>2, <3>3, <3>4
    <3>. QED BY <3>1, <3>5
  <2>5. 0..n \subseteq S
    <3>1. n \in Nat
      OBVIOUS
    <3>. HIDE DEF S
    <3>. QED BY <2>3, <2>4, <3>1, Induction
  <2>. QED BY <2>2, <2>5
<1>. QED BY <1>1, <1>2

LEMMA SchemasFollow ==
    ASSUME NEW steps \in Seq(Nat), NEW acc, Follows(acc, steps)
    PROVE  /\ \A k \in 0..Len(steps) : SchemaFits(acc[k])
           /\ \A m \in 0..Len(steps) : \A n \in m..Len(steps) : Later(acc[m], acc[n])
<1> DEFINE all == Len(steps)
<1>0. /\ all \in Nat
      /\ \A k \in 0..(all - 1) : k \in 0..all /\ k + 1 \in 0..all /\ steps[k + 1] \in Nat
  <2>1. all \in Nat /\ \A i \in 1..all : steps[i] \in Nat
    OBVIOUS
  <2>2. \A k \in 0..(all - 1) : k \in 0..all /\ k + 1 \in 0..all /\ k + 1 \in 1..all
    BY <2>1
  <2>. QED BY <2>1, <2>2
<1>1. \A k \in 0..(all - 1) : acc[k + 1] = Stepped(acc[k], steps[k + 1])
  BY DEF Follows
<1>2. 0..all \subseteq {k \in 0..all : SchemaFits(acc[k])}
  <2> DEFINE S == {k \in 0..all : SchemaFits(acc[k])}
  <2>1. 0 \in S
    BY <1>0, SchemaBegins DEF Follows
  <2>2. ASSUME NEW k \in 0..(all - 1), k \in S PROVE k + 1 \in S
    BY <1>0, <1>1, <2>2, SchemaSteps
  <2>. HIDE DEF S
  <2>3. 0..all \subseteq S
    BY <1>0, <2>1, <2>2, Induction
  <2>. QED BY <2>3 DEF S
<1>3. \A k \in 0..all : SchemaFits(acc[k])
  BY <1>2
<1>4. ASSUME NEW m \in 0..all
      PROVE  \A n \in m..all : Later(acc[m], acc[n])
  <2> DEFINE S == {n \in 0..all : n >= m => Later(acc[m], acc[n])}
  <2>0. Later(acc[m], acc[m])
    BY DEF Later
  <2>1. 0 \in S
    <3>1. 0 >= m => m = 0
      BY <1>0
    <3>. QED BY <1>0, <2>0, <3>1
  <2>2. ASSUME NEW n \in 0..(all - 1), n \in S PROVE n + 1 \in S
    <3>1. CASE n + 1 < m
      BY <1>0, <3>1
    <3>2. CASE n + 1 = m
      BY <1>0, <2>0, <3>2
    <3>3. CASE n + 1 > m
      <4>1. n >= m /\ n \in 0..all /\ n + 1 \in 0..all
        BY <1>0, <3>3
      <4>2. Later(acc[m], acc[n]) /\ SchemaFits(acc[m]) /\ SchemaFits(acc[n])
        BY <1>3, <2>2, <4>1
      <4>3. SchemaFits(acc[n + 1]) /\ Later(acc[n], acc[n + 1])
        BY <1>0, <1>1, <4>2, SchemaSteps
      <4>4. Later(acc[m], acc[n + 1])
        BY <4>2, <4>3, LaterFollows
      <4>. QED BY <4>1, <4>4
    <3>. QED BY <1>0, <3>1, <3>2, <3>3
  <2>. HIDE DEF S
  <2>3. 0..all \subseteq S
    BY <1>0, <2>1, <2>2, Induction
  <2>4. \A n \in m..all : n \in 0..all /\ n >= m
    BY <1>0
  <2>. HIDE DEF all
  <2>. QED BY <2>3, <2>4 DEF S
<1>. QED BY <1>3, <1>4

\* A definition read at three moments is that of one of them.
LEMMA TakenIsWhole ==
    ASSUME NEW s, NEW t, NEW u, NEW v \in DOMAIN t.versions,
           SchemaFits(s), SchemaFits(t), SchemaFits(u), Later(s, t), Later(t, u),
           DefinitionIsTaken(s, t, u, v)
    PROVE  s.current = t.current /\ t.versions[v] = u.versions[v]
<1>1. s.current \in Nat /\ t.current \in Nat /\ u.current \in Nat
  BY DEF SchemaFits, SchemaStates
<1>2. u.current = s.current
  BY <1>1 DEF SchemaFits, DefinitionIsTaken, CurrentHolds, NoVersion
<1>3. t.current = s.current
  <2>1. CASE s.current = 0
    BY <1>2, <2>1 DEF Later, NoVersion
  <2>2. CASE s.current # 0 /\ t.current # s.current
    <3>1. s.current \in ActiveIn(s) /\ s.current \notin ActiveIn(t)
          /\ s.current \in ActiveIn(u)
      BY <1>1, <1>2, <2>2 DEF SchemaFits, NoVersion
    <3>2. /\ s.current \in DOMAIN s.versions /\ s.versions[s.current] = "active"
          /\ s.current \in DOMAIN t.versions
          /\ t.versions[s.current] # "active" /\ u.versions[s.current] = "active"
      BY <3>1 DEF ActiveIn, Later
    <3>3. t.versions[s.current] = "retired"
      BY <3>2 DEF Later
    <3>4. u.versions[s.current] = "retired"
      BY <3>2, <3>3 DEF Later
    <3>. QED BY <3>2, <3>4
  <2>. QED BY <2>1, <2>2
<1>. QED BY <1>2, <1>3 DEF Later

\* Whatever drafts are made and versions activated, what was retired stays so, exactly the
\* current version is active, and a definition that is read while versions are activated
\* is that of one moment (dynamic_schema.py, dynamic_schema_query.py).
THEOREM SchemaTheorem == Spec => []SchemaMovesForward
<1>1. ASSUME Chosen, input.kind = "schema" PROVE SchemaMovesForward
  <2> DEFINE steps == input.steps
  <2>1. steps \in Seq(Nat)
    BY <1>1, InputsAssumption DEF Chosen
  <2>2. PICK acc : /\ Follows(acc, steps)
                   /\ \A n \in 0..Len(steps) : Folded(SubSeq(steps, 1, n)) = acc[n]
    <3>. HIDE DEF steps
    <3>. QED BY <2>1, PrefixesFollow
  <2>3. \A n \in Moments : After(n) = acc[n]
    BY <2>2, Zenon DEF After, Folded, Moments
  <2>4. /\ \A k \in Moments : SchemaFits(acc[k])
        /\ \A m \in Moments : \A n \in m..Len(steps) : Later(acc[m], acc[n])
    <3>. HIDE DEF steps
    <3>1. /\ \A k \in 0..Len(steps) : SchemaFits(acc[k])
          /\ \A m \in 0..Len(steps) : \A n \in m..Len(steps) : Later(acc[m], acc[n])
      BY <2>1, <2>2, SchemasFollow
    <3>. QED BY <3>1 DEF Moments, steps
  <2>5. Len(steps) \in Nat /\ \A m \in Moments : \A n \in m..Len(steps) : n \in Moments
    BY <2>1 DEF Moments
  <2>6. RetiredForever
    <3>1. ASSUME NEW m \in Moments, NEW n \in m..Len(steps)
          PROVE  /\ \A v \in DOMAIN acc[m].versions :
                      acc[m].versions[v] = "retired" => acc[n].versions[v] = "retired"
                 /\ ActiveIn(acc[n]) = {acc[n].current} \ {NoVersion}
                 /\ acc[m].current # NoVersion => acc[n].current # NoVersion
      <4>1. SchemaFits(acc[n]) /\ Later(acc[m], acc[n])
        BY <2>4, <2>5
      <4>. QED BY <4>1 DEF SchemaFits, Later
    <3>2. ASSUME NEW m \in Moments, NEW n \in m..Len(steps)
          PROVE  After(m) = acc[m] /\ After(n) = acc[n]
      BY <2>3, <2>5
    <3>. QED BY <3>1, <3>2 DEF RetiredForever
  <2>7. DefinitionIsOfOneMoment
    <3>1. ASSUME NEW l \in Moments, NEW m \in l..Len(steps), NEW n \in m..Len(steps),
                 NEW v \in DOMAIN acc[m].versions,
                 DefinitionIsTaken(acc[l], acc[m], acc[n], v)
          PROVE  acc[l].current = acc[m].current /\ acc[m].versions[v] = acc[n].versions[v]
      <4>1. /\ SchemaFits(acc[l]) /\ SchemaFits(acc[m]) /\ SchemaFits(acc[n])
            /\ Later(acc[l], acc[m]) /\ Later(acc[m], acc[n])
        BY <2>4, <2>5
      <4>. QED BY <3>1, <4>1, TakenIsWhole
    <3>2. ASSUME NEW l \in Moments, NEW m \in l..Len(steps), NEW n \in m..Len(steps)
          PROVE  After(l) = acc[l] /\ After(m) = acc[m] /\ After(n) = acc[n]
      BY <2>3, <2>5
    <3>. QED BY <3>1, <3>2 DEF DefinitionIsOfOneMoment
  <2>. QED BY <2>6, <2>7 DEF SchemaMovesForward
<1>2. input.kind # "schema" => SchemaMovesForward
  BY DEF SchemaMovesForward, RetiredForever, DefinitionIsOfOneMoment, Of
<1>3. Chosen => SchemaMovesForward
  BY <1>1, <1>2
<1>. QED BY <1>3, InputIsChosen, PTL

-----------------------------------------------------------------------------
(* Differences of blocks. *)

LEMMA ComparedSides ==
    ASSUME Chosen, Compared
    PROVE  Side(input.base) /\ Side(input.target)
<1>1. input \in Inputs /\ input.kind = "blocks"
  BY DEF Chosen, Compared, Of
<1>2. input.base \in Seq(BlockRows) /\ input.target \in Seq(BlockRows)
  BY <1>1, InputsAssumption
<1>3. /\ IsInjective([i \in DOMAIN input.base |-> input.base[i].place])
      /\ IsInjective([i \in DOMAIN input.target |-> input.target[i].place])
  BY DEF Compared, BlocksFit
<1>. QED BY <1>2, <1>3 DEF Side, IsInjective

LEMMA BlocksFollow ==
    ASSUME Chosen
    PROVE  BlocksAreMatched
<1>. SUFFICES ASSUME Compared PROVE BlocksAreMatched
  BY DEF BlocksAreMatched, EveryBlockOnce, BlocksMirror, KindsAreTrue
<1> DEFINE base == input.base
           target == input.target
           items == BlockDiff(base, target)
           m == Matches(Range(base), Range(target))
<1>1. Side(base) /\ Side(target)
  BY ComparedSides
<1>2. EveryBlockOnce
  <2>1. Shows(items, m, Range(base), Range(target))
    <3>. HIDE DEF base, target
    <3>. QED BY <1>1, DiffShowsMatches
  <2>2. /\ MatchesFit(m, Range(base), Range(target))
        /\ Range(base) \in SUBSET BlockRows /\ Range(target) \in SUBSET BlockRows
    <3>. HIDE DEF base, target
    <3>. QED BY <1>1, SideIsPlaced, MatchesAreFit DEF Placed
  <2>3. /\ \A b \in Range(base) : Cardinality({i \in DOMAIN items : items[i].base = b}) = 1
        /\ \A t \in Range(target) : Cardinality({i \in DOMAIN items : items[i].target = t}) = 1
    <3>. HIDE DEF base, target, items, m
    <3>. QED BY <2>1, <2>2, ShownOnce
  <2>4. Len(items) = Len(base) + Len(target)
           - Cardinality({i \in DOMAIN items : Nobody \notin {items[i].base, items[i].target}})
    <3>. HIDE DEF base, target
    <3>. QED BY <1>1, PairsAreCounted
  <2>. QED BY <2>3, <2>4 DEF EveryBlockOnce, In
<1>3. BlocksMirror
  <2>1. {<<i.kind, i.base, i.target>> : i \in Range(BlockDiff(base, target))} =
        {<<Mirrored(i.kind), i.target, i.base>> : i \in Range(BlockDiff(target, base))}
    <3>. HIDE DEF base, target
    <3>. QED BY <1>1, DiffMirrors
  <2>. QED BY <2>1 DEF BlocksMirror, Mirrored
<1>4. KindsAreTrue
  <2>1. /\ \A i \in Range(items) : KindIsTrue(i)
        /\ Len(items) = SumOfKinds(items, AllKinds)
        /\ SideFits({[block |-> b.id] : b \in Range(base)}, items, "base")
        /\ SideFits({[block |-> t.id] : t \in Range(target)}, items, "target")
    <3>. HIDE DEF base, target
    <3>. QED BY <1>1, DiffTellsKinds
  <2>2. Len(items) = MapThenSumSet(LAMBDA k : KindCount(items, k),
                                   MatchKinds \cup {"added", "removed"})
    <3>. HIDE DEF items
    <3>. QED BY <2>1 DEF SumOfKinds, AllKinds
  <2>. QED BY <2>1, <2>2 DEF KindsAreTrue, KindIsTrue
<1>. QED BY <1>2, <1>3, <1>4 DEF BlocksAreMatched

\* For any two extractions that can be compared: each block of either side is told of
\* exactly once, the items are fewer than the blocks by the pairs, the comparison the other
\* way round mirrors it, kinds say truly what changed and their counts make up the whole,
\* and every block that may be cited is found.
THEOREM BlocksTheorem == Spec => []BlocksAreMatched
<1>1. Chosen => BlocksAreMatched
  BY BlocksFollow
<1>. QED BY <1>1, InputIsChosen, PTL

-----------------------------------------------------------------------------
(* Updates: what differences of facts tell, and what is reviewed. *)

LEMMA ToldIs ==
    ASSUME NEW base, NEW target, RowsGiven(base), RowsGiven(target), NEW f
    PROVE  Told(base, target, f) =
             IF f \in Facts(base) \cup Facts(target) THEN FactChange(base, target, f) ELSE "none"
<1> DEFINE all == FactDiff(base, target)
           items == Range(all)
<1>1. FactDiffIs(all, base, target)
  BY FactDiffTells DEF RowsGiven
<1>. HIDE DEF all
<1>2. PICK order :
        /\ Lists(order, Facts(base) \cup Facts(target))
        /\ all = [i \in DOMAIN order |-> FactItem(base, target, order[i])]
  BY <1>1 DEF FactDiffIs
<1>3. /\ DOMAIN all = DOMAIN order
      /\ \A n \in DOMAIN all : /\ all[n].fact = order[n]
                              /\ all[n].kind = FactChange(base, target, order[n])
  BY <1>2 DEF FactItem
<1>4. /\ \A n \in DOMAIN order : order[n] \in Facts(base) \cup Facts(target)
      /\ \A g \in Facts(base) \cup Facts(target) : \E n \in DOMAIN order : order[n] = g
  BY <1>2 DEF Lists
<1>5. Told(base, target, f) =
        IF \E i \in items : i.fact = f
        THEN (CHOOSE i \in items : i.fact = f).kind ELSE "none"
  BY DEF Told, all
<1>6. \A i \in items : i.fact \in Facts(base) \cup Facts(target)
                         /\ i.kind = FactChange(base, target, i.fact)
  BY <1>3, <1>4 DEF Range
<1>7. \A g \in Facts(base) \cup Facts(target) : \E i \in items : i.fact = g
  BY <1>3, <1>4 DEF Range
<1>. HIDE DEF items
<1>. QED BY <1>5, <1>6, <1>7

LEMMA MeaningsTell ==
    ASSUME NEW rows, RowsGiven(rows), NEW f
    PROVE  f \in Facts(rows) <=> Meanings(rows, f) # {}
BY RowsOfNumbers DEF RowsGiven

LEMMA UpdatesFollow ==
    ASSUME Chosen
    PROVE  UpdatesCompose
<1>. SUFFICES ASSUME Of("facts") PROVE UpdatesCompose
  BY DEF UpdatesCompose
<1>1. RowsGiven(input.first) /\ RowsGiven(input.second) /\ RowsGiven(input.third)
  BY InputsAssumption DEF Chosen, Of
<1>2. ASSUME NEW a, NEW b, NEW c, RowsGiven(a), RowsGiven(b), RowsGiven(c), NEW f
      PROVE  LET first == Told(a, b, f)
                 second == Told(b, c, f)
                 whole == Told(a, c, f) IN
             /\ first = "unchanged" /\ second = "unchanged" => whole = "unchanged"
             /\ first = "unchanged" => whole = second
             /\ second = "unchanged" => whole = first
             /\ first = "added" /\ second = "removed" => whole = "none"
  <2>1. /\ Told(a, b, f) =
             IF f \in Facts(a) \cup Facts(b) THEN FactChange(a, b, f) ELSE "none"
        /\ Told(b, c, f) =
             IF f \in Facts(b) \cup Facts(c) THEN FactChange(b, c, f) ELSE "none"
        /\ Told(a, c, f) =
             IF f \in Facts(a) \cup Facts(c) THEN FactChange(a, c, f) ELSE "none"
    BY <1>2, ToldIs
  <2>. QED BY <2>1 DEF FactChange
<1>. QED BY <1>1, <1>2 DEF UpdatesCompose

\* An effective value that was authenticated gives a context that its readers accept.
LEMMA GivenIsValid ==
    ASSUME NEW e, EffectiveGiven(e), IsInjective(e.resolution.values)
    PROVE  ContextIsValid(ContextGiven(e), Range(e.resolution.values))
<1> DEFINE r == e.resolution
           members == [i \in DOMAIN e.members |-> e.members[i].value]
           c == ContextGiven(e)
<1>1. /\ c.assessment = e.assessment /\ c.review = e.review /\ c.status = r.status
      /\ c.basis = r.basis /\ c.decision = e.decision /\ c.kind = e.kind
      /\ c.values = r.values
  BY DEF ContextGiven
<1>2. \/ /\ r.status = "resolved" /\ e.review = "reviewed" /\ e.decision # 0
         /\ \/ /\ r.basis = "human_selection" /\ e.kind \in {"select_one", "keep_multiple"}
               /\ SelectionShape(e.kind, Len(r.values))
            \/ /\ r.basis = "human_confirmed_compatibility" /\ e.kind = "confirm_compatible"
               /\ r.values = members
      \/ /\ r.basis = "none" /\ r.values = << >> /\ e.decision = 0 /\ e.kind = "none"
         /\ \/ r.status = "pending_review" /\ e.review = "pending_review"
            \/ r.status = "unreviewed_compatible" /\ e.review = "not_required"
      \/ /\ r.status = "deferred" /\ r.basis = "none" /\ r.values = << >>
         /\ e.review = "deferred" /\ e.decision # 0 /\ e.kind = "defer"
  BY DEF EffectiveGiven, AuthenticItem, NoDecision
<1>3. ASSUME e.kind \in {"select_one", "keep_multiple"},
             SelectionShape(e.kind, Len(r.values))
      PROVE  r.values # << >>
  <2>0. ASSUME NEW kind \in {"select_one", "keep_multiple"}, NEW n, SelectionShape(kind, n)
        PROVE  n # 0
    BY <2>0 DEF SelectionShape, MostKept
  <2>1. Len(r.values) # 0
    BY <1>3, <2>0, Zenon
  <2>2. Len(<< >>) = 0
    OBVIOUS
  <2>. QED BY <2>1, <2>2
<1>4. members # << >>
  <2>1. e.members \in Seq([value: Nat, links: SUBSET Nat]) /\ e.members # << >>
    BY DEF EffectiveGiven
  <2>2. DOMAIN e.members # {}
    BY <2>1
  <2>3. DOMAIN members = DOMAIN e.members /\ DOMAIN << >> = {}
    OBVIOUS
  <2>. HIDE DEF members
  <2>. QED BY <2>2, <2>3
<1>5. c.assessment # 0
  BY <1>1 DEF EffectiveGiven
<1>. HIDE DEF c, members, r
<1>6. IsInjective(c.values) /\ Range(c.values) = Range(r.values)
  BY <1>1 DEF r
<1>. QED BY <1>1, <1>2, <1>3, <1>4, <1>5, <1>6 DEF ContextIsValid, c, r

LEMMA NothingSlips ==
    ASSUME Chosen
    PROVE  NothingSlipsThrough
<1> DEFINE items == FactDiff(input.first, input.second)
           impact == UpdateImpact(items, input.effective, "complete")
<1>. SUFFICES ASSUME Of("impact"), ContextsFit(items, input.effective)
              PROVE  NothingSlipsThrough
  BY DEF NothingSlipsThrough
<1>1. /\ RowsGiven(input.first) /\ RowsGiven(input.second)
      /\ \A e \in Range(input.effective) : EffectiveGiven(e)
  BY InputsAssumption DEF Chosen, Of
<1>2. /\ input.first \in SUBSET FactRows /\ input.second \in SUBSET FactRows
      /\ IsFiniteSet(input.first) /\ IsFiniteSet(input.second)
  BY <1>1 DEF RowsGiven
<1>3. FactDiffIs(items, input.first, input.second)
  BY <1>2, FactDiffTells
<1>4. ContextsGiven(input.effective)
  <2>1. \A e \in Range(input.effective) : IsInjective(e.resolution.values)
    BY DEF ContextsFit
  <2>. QED BY <2>1, <1>1, GivenIsValid DEF ContextsGiven
<1>. HIDE DEF items
<1>5. AuthenticImpact(impact)
  BY <1>2, <1>3, <1>4, ImpactIsAuthentic
<1>6. \A n \in DOMAIN items : LET i == ImpactItem(items[n], input.effective) IN
        ~i.review =>
          /\ Meanings(input.first, i.fact) = Meanings(input.second, i.fact)
          /\ \A e \in Range(input.effective) : e.fact = i.fact => e.resolution.status = "resolved"
  BY <1>2, <1>3, <1>4, PassesOnlyIf
<1>7. \A i \in Range(impact.items) :
        \E n \in DOMAIN items : i = ImpactItem(items[n], input.effective)
  BY DEF UpdateImpact, Range
<1>. HIDE DEF impact
<1>8. \A i \in Range(impact.items) : ~i.review =>
        /\ Meanings(input.first, i.fact) = Meanings(input.second, i.fact)
        /\ \A e \in Range(input.effective) : e.fact = i.fact => e.resolution.status = "resolved"
  BY <1>6, <1>7
<1> DEFINE Ended(s, skip, check) ==
             UpdateResult([status |-> s, skipped |-> skip, check |-> check],
                          [status |-> s], impact)
<1>9. /\ Ended("partial", "none", 1) = "impact" /\ Ended("partial", "none", 0) = "refused"
      /\ Ended("failed", "extraction_failed", 0) = "target_extraction_failed"
  BY <1>5 DEF UpdateResult, PipelineShape
<1>. HIDE DEF Ended
<1>. QED BY <1>8, <1>9 DEF NothingSlipsThrough, items, impact, Ended

\* For any rows of three revisions and any effective values: what two updates tell of a
\* fact and what the whole tells fit together, an update passes without review only where
\* a fact kept its meanings and was settled, and what is built of it is accepted.
THEOREM UpdatesTheorem == Spec => []UpdatesAreReviewed
<1>1. Chosen => UpdatesAreReviewed
  BY UpdatesFollow, NothingSlips DEF UpdatesAreReviewed
<1>. QED BY <1>1, InputIsChosen, PTL

-----------------------------------------------------------------------------
(* EffectiveIsCurrent. *)

LEMMA DecisionsFollow ==
    ASSUME Chosen, Of("decisions")
    PROVE  /\ AssessmentsGiven(input.assessments) /\ LogGiven(input.log, input.assessments)
           /\ \A log : Items(log) = ItemsOf(input.assessments, log)
<1>1. input \in Inputs /\ input.kind = "decisions"
  BY DEF Chosen, Of
<1>2. AssessmentsGiven(input.assessments) /\ LogGiven(input.log, input.assessments)
  BY <1>1, InputsAssumption
<1>. QED BY <1>2 DEF Items

LEMMA LastDecisionTells ==
    ASSUME Chosen
    PROVE  LastDecisionRules
<1>. SUFFICES ASSUME Of("decisions") PROVE LastDecisionRules
  BY DEF LastDecisionRules
<1>1. /\ AssessmentsGiven(input.assessments) /\ input.log \in Seq(LoggedRows)
      /\ \A log : Items(log) = ItemsOf(input.assessments, log)
  BY DecisionsFollow, GivenLogs
<1>2. LET all == EffectiveValues(ItemsOf(input.assessments, input.log)).items
          last == EffectiveValues(ItemsOf(input.assessments, OnlyLast(input.log))).items IN
      DOMAIN all = DOMAIN last /\ \A i \in DOMAIN all : ResolveAlike(all[i], last[i])
  BY <1>1, LastRules
<1>. QED BY <1>1, <1>2 DEF LastDecisionRules, ResolveAlike

LEMMA EffectiveHolds ==
    ASSUME Chosen
    PROVE  EffectiveIsAuthentic
<1>. SUFFICES ASSUME Of("decisions") PROVE EffectiveIsAuthentic
  BY DEF EffectiveIsAuthentic
<1>1. /\ AssessmentsGiven(input.assessments) /\ LogGiven(input.log, input.assessments)
      /\ \A log : Items(log) = ItemsOf(input.assessments, log)
  BY DecisionsFollow
<1>2. Authentic(input.assessments, input.log)
  BY <1>1, ValuesAreAuthentic
<1>. QED BY <1>1, <1>2 DEF EffectiveIsAuthentic, Authentic, Counts

\* The decisions of any log and check resolve as their last ones, and the values they
\* resolve to are accepted and counted by those who read them.
THEOREM EffectiveTheorem == Spec => []EffectiveIsCurrent
<1>1. Chosen => EffectiveIsCurrent
  BY LastDecisionTells, EffectiveHolds DEF EffectiveIsCurrent
<1>. QED BY <1>1, InputIsChosen, PTL

-----------------------------------------------------------------------------
(* AlterationsAreRefused. *)

LEMMA AlteredFollow ==
    ASSUME Chosen
    PROVE  AlteredLedgersAreRefused
<1>. SUFFICES ASSUME Of("values") PROVE AlteredLedgersAreRefused
  BY DEF AlteredLedgersAreRefused
<1> DEFINE V == input.values
           plan == CandidatePlan(V, GroupingPlan(V))
           rows == CandidateRows(plan)
           members == MemberRows(plan)
<1>1. input \in Inputs /\ input.kind = "values"
  BY DEF Chosen, Of
<1>2. ValuesGiven(V)
  BY <1>1, InputsAssumption
<1>3. plan = PlanOf(V)
  BY DEF PlanOf
<1>. HIDE DEF V, plan
<1>4. SubledgersMatch(rows, members, plan)
  BY <1>2, <1>3, LedgersMatch
<1>5. ASSUME NEW v \in V
      PROVE  LET other == GroupingPlan(V \ {v}) IN
             ~MatchesPlan(other, GroupingPlan(V)) /\ ~SameSource(other, GroupingPlan(V))
  <2>1. GroupingPlan(V \ {v}).input # GroupingPlan(V).input
    BY <1>2, LostValueShows
  <2>. QED BY <2>1 DEF MatchesPlan, SameSource
<1>6. ASSUME NEW m \in members, NEW n \in {[m EXCEPT !.key = @ + 1], [m EXCEPT !.batch = @ + 1]}
      PROVE  ~SubledgersMatch(rows, (members \ {m}) \cup {n}, plan)
  <2>1. PICK v \in UNION plan.candidates :
          m = [fact |-> v.fact, value |-> v.id, key |-> v.key, batch |-> v.batch]
    BY DEF MemberRows
  <2>2. v \in V
    BY <1>2, <1>3, CandidatesAre, PlanIs
  <2>3. v.key \in Nat /\ v.batch \in Nat
    BY <1>2, <2>2 DEF ValuesGiven, ValueRows
  <2>4. n.fact = m.fact /\ n.value = m.value /\ (n.key # m.key \/ n.batch # m.batch)
    BY <2>1, <2>3
  <2>5. m \in MemberRows(PlanOf(V))
    BY <1>3
  <2>. QED BY <1>2, <1>3, <2>4, <2>5, AlteredMemberShows
<1>. QED BY <1>4, <1>5, <1>6 DEF AlteredLedgersAreRefused, V, plan

LEMMA AnswerGiven ==
    ASSUME Chosen, Of("answer")
    PROVE  /\ CandidatesGiven(input.batch) /\ input.batch # << >>
           /\ input.answer \in Seq(AssessmentRows)
           /\ \A C \in Range(input.batch) : LinksOf(C) \subseteq DOMAIN input.blockOf
<1>1. input \in Inputs /\ input.kind = "answer"
  BY DEF Chosen, Of
<1>. QED BY <1>1, InputsAssumption DEF AssessmentRows

LEMMA StoredFollows ==
    ASSUME Chosen
    PROVE  StoredCheckIsAuthentic
<1>. SUFFICES ASSUME Of("answer"), Acceptable(input.batch, input.answer)
              PROVE  StoredCheckIsAuthentic
  BY DEF StoredCheckIsAuthentic
<1>1. CandidatesGiven(input.batch) /\ input.batch # << >> /\ input.answer \in Seq(AssessmentRows)
  BY AnswerGiven
<1> DEFINE kept == Ordered(input.batch, input.answer)
<1>2. PlanResult(<<input.batch>>, <<input.answer>>).assessments = kept
  BY <1>1, KeptIs DEF KeptOf
<1>3. /\ Taken(input.batch, kept, CitationsTold(input.batch, kept))
      /\ \A x \in CitationsTold(input.batch, kept) :
           ~Taken(input.batch, kept, CitationsTold(input.batch, kept) \ {x})
  BY <1>1, CheckIsTaken
<1>. HIDE DEF kept
<1>4. KeptOf(input.batch, input.answer) = kept
  BY <1>2 DEF KeptOf
<1>5. /\ Taken(input.batch, KeptOf(input.batch, input.answer),
               CitationsTold(input.batch, KeptOf(input.batch, input.answer)))
      /\ \A x \in CitationsTold(input.batch, KeptOf(input.batch, input.answer)) :
           ~Taken(input.batch, KeptOf(input.batch, input.answer),
                  CitationsTold(input.batch, KeptOf(input.batch, input.answer)) \ {x})
  BY <1>3, <1>4
<1>. QED BY <1>5 DEF StoredCheckIsAuthentic, KeptOf, Taken, CitationsTold, CheckTold, CandidatesTold,
                 AssessmentsTold, AssessmentTold, CitationTold, MemberTold

LEMMA TornFollows ==
    ASSUME Chosen
    PROVE  TornReadIsRefused
<1>. SUFFICES ASSUME Of("decisions"), NEW m \in 0..Len(input.log), NEW n \in m..Len(input.log)
              PROVE  Holds(DecisionsOf(Until(input.log, m)), SelectionRows(Until(input.log, n)))
                       <=> SelectionRows(Until(input.log, m)) = SelectionRows(Until(input.log, n))
  BY DEF TornReadIsRefused
<1>1. AssessmentsGiven(input.assessments) /\ LogGiven(input.log, input.assessments)
  BY DecisionsFollow
<1>. QED BY <1>1, TornRefused DEF Holds

LEMMA LostFollows ==
    ASSUME Chosen
    PROVE  LostSelectionIsRefused
<1>. SUFFICES ASSUME Of("decisions"), NEW i \in DOMAIN SelectionRows(input.log)
              PROVE  ~Holds(DecisionsOf(input.log), RemoveAt(SelectionRows(input.log), i))
  BY DEF LostSelectionIsRefused
<1>1. AssessmentsGiven(input.assessments) /\ LogGiven(input.log, input.assessments)
  BY DecisionsFollow
<1>. QED BY <1>1, LostRefused DEF Holds

LEMMA WholeFollows ==
    ASSUME Chosen
    PROVE  RowsAreWhole
<1>. SUFFICES ASSUME Of("facts") PROVE RowsAreWhole
  BY DEF RowsAreWhole
<1> DEFINE rows == input.first
           order == input.order
           snapshot == FactSnapshot(rows, "completed", order)
           groups == GroupList(rows, order)
<1>1. input \in Inputs /\ input.kind = "facts"
  BY DEF Chosen, Of
<1>2. /\ RowsStored(rows) /\ order \in [DOMAIN order -> Nat] /\ IsInjective(order)
      /\ Facts(rows) \subseteq DOMAIN order
  BY <1>1, InputsAssumption
<1>. HIDE DEF rows, order
<1>3. /\ DOMAIN snapshot.items = DOMAIN FactsInOrder(rows, order)
      /\ \A i \in DOMAIN snapshot.items :
           snapshot.items[i].groups = ValueGroups(rows, FactsInOrder(rows, order)[i])
      /\ snapshot.values = Cardinality({r.value : r \in rows})
      /\ snapshot.evidences = Cardinality(rows)
  BY DEF FactSnapshot, FactsInOrder
<1>4. FlattenSeq([i \in DOMAIN snapshot.items |-> snapshot.items[i].groups]) = groups
  <2>. HIDE DEF snapshot
  <2>1. [i \in DOMAIN snapshot.items |-> snapshot.items[i].groups]
          = [i \in DOMAIN FactsInOrder(rows, order) |-> ValueGroups(rows, FactsInOrder(rows, order)[i])]
    BY <1>3
  <2>. QED BY <2>1 DEF GroupList
<1>5. Lists(groups, AllGroups(rows)) /\ groups \in Seq(AllGroups(rows))
  BY <1>2, GroupsListed
<1>. HIDE DEF snapshot, groups
<1>6. /\ Lists(ValuesList(groups), ValuesTold(rows)) /\ ValuesList(groups) \in Seq(ValuesTold(rows))
      /\ Lists(EvidencesList(groups), rows) /\ EvidencesList(groups) \in Seq(rows)
  BY <1>2, <1>5, SnapshotLists
<1>7. /\ IsInjective(ValuesList(groups)) /\ Len(ValuesList(groups)) = Cardinality(ValuesTold(rows))
      /\ IsInjective(EvidencesList(groups)) /\ Len(EvidencesList(groups)) = Cardinality(rows)
  BY <1>6, ListIsInjective
<1>8. RowsFit(rows, SourceOf(rows), 1) /\ \A r \in rows : ~RowsFit(rows \ {r}, SourceOf(rows), 1)
  BY <1>2, StoredRowsFit, LostRowShows
<1>9. Cardinality(ValuesTold(rows)) = Cardinality({r.value : r \in rows})
  BY <1>2, ValuesCounted
<1>10. Len(ValuesList(groups)) = snapshot.values /\ Len(EvidencesList(groups)) = snapshot.evidences
  BY <1>3, <1>7, <1>9
<1>11. /\ RowsFit(rows, SourceOf(rows), 1) /\ \A r \in rows : ~RowsFit(rows \ {r}, SourceOf(rows), 1)
       /\ IsInjective(ValuesList(groups)) /\ Len(ValuesList(groups)) = snapshot.values
       /\ IsInjective(EvidencesList(groups)) /\ Len(EvidencesList(groups)) = snapshot.evidences
  BY <1>7, <1>8, <1>10
<1>. QED BY <1>4, <1>11 DEF RowsAreWhole, SourceOf, ValuesList, EvidencesList, snapshot, rows, order

\* What was stored of groups, candidates, checks, decisions, selections and rows is accepted,
\* and refused once a value, a citation or a row was lost, a member altered, or the decisions
\* and the selections were read at two moments with a selection in between.
THEOREM AlterationsTheorem == Spec => []AlterationsAreRefused
<1>1. Chosen => AlterationsAreRefused
  BY AlteredFollow, StoredFollows, WholeFollows, TornFollows, LostFollows DEF AlterationsAreRefused
<1>. QED BY <1>1, InputIsChosen, PTL

-----------------------------------------------------------------------------
(* RequestsAreRight. *)

LEMMA OrderFollows ==
    ASSUME Chosen
    PROVE  AnswerOrderIsLost
<1>. SUFFICES ASSUME Of("answer"), Acceptable(input.batch, input.answer)
              PROVE  AnswerOrderIsLost
  BY DEF AnswerOrderIsLost
<1>1. CandidatesGiven(input.batch) /\ input.answer \in Seq(AssessmentRows)
  BY AnswerGiven
<1>2. Ordered(input.batch, input.answer) = Ordered(input.batch, Reverse(input.answer))
  BY <1>1, OrderIsLost
<1> DEFINE kept == Ordered(input.batch, input.answer)
<1>3. DOMAIN kept = 1..Len(input.batch) /\ \A i \in 1..Len(input.batch) : kept[i].fact = FactOf(input.batch[i])
  BY <1>1, OrderedIs
<1>. QED BY <1>2, <1>3 DEF AnswerOrderIsLost

LEMMA EvidenceFollows ==
    ASSUME Chosen
    PROVE  EvidenceIsOwn
<1>. SUFFICES ASSUME Of("answer"), Acceptable(input.batch, input.answer)
              PROVE  EvidenceIsOwn
  BY DEF EvidenceIsOwn
<1>1. CandidatesGiven(input.batch)
  BY AnswerGiven
<1>. QED BY <1>1, CitesOwn DEF EvidenceIsOwn

LEMMA RepliesFollow ==
    ASSUME Chosen
    PROVE  RepliesAreUsedOnce
<1>. SUFFICES ASSUME Of("replies") PROVE RepliesAreUsedOnce
  BY DEF RepliesAreUsedOnce
<1> DEFINE replies == input.replies
           retries == Len(replies) - 1
           told == Complete(replies, retries)
<1>1. input \in Inputs /\ input.kind = "replies"
  BY DEF Chosen, Of
<1>2. replies \in Seq(ReplyRows) /\ replies # << >>
  BY <1>1, InputsAssumption
<1>. HIDE DEF replies
<1>3. retries \in Nat
  BY <1>2
<1>. HIDE DEF retries
<1>4. PICK n : CompletesAt(replies, retries, n)
  BY <1>3, CompletesOnce
<1>5. told.attempts = n /\ told.code = ReplyCode(replies[n]) /\ n \in 1..(retries + 1)
  BY <1>4 DEF CompletesAt
<1>6. \A j \in 1..(n - 1) : AskAgain(ReplyCode(replies[j]))
  BY <1>4 DEF CompletesAt
<1>7. told.attempts = retries + 1 \/ ~AskAgain(told.code)
  BY <1>4, <1>5 DEF CompletesAt
<1>. HIDE DEF told
<1>8. ~AskAgain("completed")
  BY DEF AskAgain, Transient
<1>9. told.code = "completed" <=>
        \E i \in 1..(retries + 1) : ReplyCode(replies[i]) = "completed"
                                     /\ \A j \in 1..(i - 1) : AskAgain(ReplyCode(replies[j]))
  <2>1. ASSUME NEW i \in 1..(retries + 1), ReplyCode(replies[i]) = "completed",
               \A j \in 1..(i - 1) : AskAgain(ReplyCode(replies[j]))
        PROVE  told.code = "completed"
    <3>1. ~(i < n)
      <4>1. i < n => i \in 1..(n - 1)
        BY <1>5
      <4>. QED BY <1>6, <1>8, <2>1, <4>1
    <3>2. ~(n < i)
      <4>1. n < i => n \in 1..(i - 1) /\ n # retries + 1
        BY <1>3, <1>5
      <4>. QED BY <1>5, <1>7, <2>1, <4>1
    <3>3. i = n
      BY <1>5, <3>1, <3>2
    <3>. QED BY <1>5, <2>1, <3>3
  <2>. QED BY <1>5, <1>6, <2>1
<1>10. \A j \in 1..(told.attempts - 1) : ReplyCode(replies[j]) \in Transient \cup {"empty"}
  BY <1>5, <1>6 DEF AskAgain
<1>11. BatchIsRetried(told.code) => told.attempts = retries + 1 \/ told.code = "client_error"
  BY <1>7 DEF BatchIsRetried, AskAgain
<1>12. told.code = ReplyCode(replies[told.attempts])
  BY <1>5
<1>. QED BY <1>9, <1>10, <1>11, <1>12 DEF RepliesAreUsedOnce, told, retries, replies

LEMMA InputFollows ==
    ASSUME Chosen
    PROVE  InputIsPresent
<1>. SUFFICES ASSUME Of("answer") PROVE InputIsPresent
  BY DEF InputIsPresent
<1> DEFINE batch == input.batch
           blockOf == input.blockOf
           named == BlocksOf(batch, blockOf)
           before == [b \in Range(blockOf) |-> 0]
           made == MadeOf(named, before)
<1>1. CandidatesGiven(batch) /\ \A C \in Range(batch) : LinksOf(C) \subseteq DOMAIN blockOf
  BY AnswerGiven
<1>. HIDE DEF batch, blockOf
<1>2. /\ named \in Seq(Range(blockOf)) /\ IsInjective(named)
      /\ Range(named) = BlocksAt(BatchLinks(batch), blockOf)
  BY <1>1, BlocksOfBatch
<1>3. Range(named) \subseteq Range(blockOf)
  BY <1>2 DEF Range
<1>4. \A content : Materialized(made, batch, blockOf, content) <=>
                     \A b \in Range(named) : before[b] = content[b]
  BY <1>2, InputTells
<1>5. \A i \in DOMAIN named : ~Materialized(RemoveAt(made, i), batch, blockOf, before)
  BY <1>2, InputTells
<1>6. Materialized(made, batch, blockOf, before)
  BY <1>4
<1>7. ASSUME NEW b \in Range(blockOf)
      PROVE  Materialized(made, batch, blockOf, [before EXCEPT ![b] = 1]) <=> b \notin Range(named)
  <2> DEFINE after == [before EXCEPT ![b] = 1]
  <2>1. \A c \in Range(blockOf) : before[c] = 0 /\ after[c] = IF c = b THEN 1 ELSE 0
    OBVIOUS
  <2>2. Materialized(made, batch, blockOf, after) <=> \A c \in Range(named) : before[c] = after[c]
    BY <1>4
  <2>. HIDE DEF after, before, made, named
  <2>3. (\A c \in Range(named) : before[c] = after[c]) <=> b \notin Range(named)
    BY <1>3, <2>1
  <2>. QED BY <2>2, <2>3 DEF after
<1>8. DOMAIN made = DOMAIN named
  BY DEF MadeOf
<1>9. Range(named) = {blockOf[l] : l \in UNION {LinksOf(C) : C \in Range(batch)}}
  BY <1>2 DEF BlocksAt, BatchLinks
<1>. HIDE DEF named
<1>10. /\ IsInjective(named)
       /\ Range(named) = {blockOf[l] : l \in UNION {LinksOf(C) : C \in Range(batch)}}
       /\ Materialized(made, batch, blockOf, before)
       /\ \A b \in Range(blockOf) :
            Materialized(made, batch, blockOf, [before EXCEPT ![b] = 1]) <=> b \notin Range(named)
       /\ \A i \in DOMAIN made : ~Materialized(RemoveAt(made, i), batch, blockOf, before)
  BY <1>2, <1>5, <1>6, <1>7, <1>8, <1>9
<1>. QED BY <1>10 DEF InputIsPresent, MadeOf, named, batch, blockOf

LEMMA SourceCheckFollows ==
    ASSUME Chosen
    PROVE  SourceIsChecked
<1>. SUFFICES ASSUME Of("plan") PROVE SourceIsChecked
  BY DEF SourceIsChecked
<1> DEFINE blocks == input.blocks
<1>1. input \in Inputs /\ input.kind = "plan"
  BY DEF Chosen, Of
<1>2. blocks \in Seq(SourceRows)
  BY <1>1, InputsAssumption
<1>. HIDE DEF blocks
<1>3. DOMAIN blocks = 1..Len(blocks)
  BY <1>2
<1>4. /\ SourceFits(1, Reverse(blocks)) <=> SourceFits(1, blocks)
      /\ SourceFits(1, blocks) => InSourceOrder(Reverse(blocks)) = InSourceOrder(blocks)
      /\ \A i \in 1..Len(blocks) : SourceFits(1, blocks) /\ Len(blocks) > 1 =>
           (SourceFits(1, RemoveAt(blocks, i)) <=> blocks[i].order = Len(blocks) - 1)
  BY <1>2, SourceChecked
<1>. QED BY <1>3, <1>4 DEF SourceIsChecked, blocks

LEMMA PackingFollows ==
    ASSUME Chosen
    PROVE  PackingIsTight
<1>. SUFFICES ASSUME Of("packing"), Plannable(input.bundles, input.config) PROVE PackingIsTight
  BY DEF PackingIsTight
<1> DEFINE bundles == input.bundles
           config == input.config
           batches == CheckBatches(bundles, config)
           E == Range(bundles)
<1>1. input \in Inputs /\ input.kind = "packing"
  BY DEF Chosen, Of
<1>2. CandidatesGiven(bundles) /\ config \in [candidates: Nat \ {0}, chars: Nat]
  BY <1>1, InputsAssumption
<1>3. Plannable(bundles, config)
  OBVIOUS
<1>. HIDE DEF bundles, config
<1>4. bundles \in Seq(E) /\ ChecksFit(E, config)
  BY <1>2, <1>3, CandidatesFit
<1>. HIDE DEF E
<1>5. /\ batches \in Seq(Seq(E)) /\ FlattenSeq(batches) = bundles
      /\ TightBatches(batches, config)
  BY <1>4, PackedTight
<1>6. \A i \in DOMAIN batches : BatchOfPlan(batches, i, batches[i], config)
  <2>1. batches = CheckBatches(FlattenSeq(batches), config)
    BY <1>5
  <2>2. DOMAIN batches = 1..Len(batches)
    BY <1>5
  <2>. HIDE DEF batches
  <2>. QED BY <2>1, <2>2 DEF BatchOfPlan
<1>. HIDE DEF batches
<1>7. \A i \in DOMAIN batches : Len(batches[i]) <= config.candidates /\ CharsIn(batches[i]) <= config.chars
  BY <1>5 DEF TightBatches
<1>8. ASSUME NEW i \in 1..(Len(batches) - 1)
      PROVE  /\ batches[i + 1] # << >>
             /\ ~(Len(Append(batches[i], batches[i + 1][1])) <= config.candidates
                   /\ CharsIn(Append(batches[i], batches[i + 1][1])) <= config.chars)
  BY <1>4, <1>5, NoneFitsBefore
<1>. QED BY <1>5, <1>6, <1>7, <1>8 DEF PackingIsTight, batches, bundles, config

\* The plan of sound blocks, whatever they and the limits are.
LEMMA BatchesAreTold ==
    ASSUME NEW source \in Seq(SourceRows), NEW config \in Configs, NEW p \in GoodPlans(source, config)
    PROVE  /\ Len(p.batches) \in Nat /\ DOMAIN p.batches = 1..Len(p.batches)
           /\ \A m \in 1..Len(p.batches) : BatchTells(source, config, p.batches, m)
           /\ \A b \in Range(p.batches) : \E m \in 1..Len(p.batches) : b = p.batches[m]
<1>1. p.batches \in Seq(BatchRows(Len(source)))
  BY DEF GoodPlans, GoodPlan
<1>2. Len(p.batches) \in Nat /\ DOMAIN p.batches = 1..Len(p.batches)
  BY <1>1
<1>3. \A m \in 1..Len(p.batches) : BatchTells(source, config, p.batches, m)
  BY EachTells
<1>. QED BY <1>2, <1>3 DEF Range

LEMMA BlocksArePlanned ==
    ASSUME NEW source \in Seq(SourceRows), NEW config \in Configs, NEW p \in GoodPlans(source, config),
           p.tooLarge = NoBlock => p.cursor = Len(source) + 1
    PROVE  EveryBlockIsPlanned(source, config, p)
<1> DEFINE bs == p.batches
           l == Len(bs)
<1>1. /\ l \in Nat /\ DOMAIN bs = 1..l
      /\ \A m \in 1..l : BatchTells(source, config, bs, m)
      /\ \A b \in Range(bs) : \E m \in 1..l : b = bs[m]
  BY BatchesAreTold
<1>2. Covered(bs, p.cursor) /\ InTurn(bs)
  BY DEF GoodPlans, GoodPlan
<1>3. p.tooLarge = IF {i \in DOMAIN source : ~BatchFits(source, {i}, config)} = {} THEN NoBlock
                   ELSE Min({i \in DOMAIN source : ~BatchFits(source, {i}, config)})
  BY TooLargeIs
<1>. HIDE DEF bs, l
<1>4. UNION {b.primary : b \in Range(bs)} = 1..(p.cursor - 1)
  <2>1. \A b \in Range(bs) : b.primary \subseteq 1..(p.cursor - 1)
    BY <1>1, <1>2 DEF Covered, l
  <2>2. \A m \in 1..l : bs[m] \in Range(bs)
    BY <1>1 DEF Range
  <2>3. \A i \in 1..(p.cursor - 1) : \E b \in Range(bs) : i \in b.primary
    BY <1>2, <2>2 DEF Covered, l
  <2>. QED BY <2>1, <2>3
<1>5. \A n \in DOMAIN bs : bs[n].primary # {}
  BY <1>1 DEF BatchTells
<1>6. \A n \in DOMAIN bs : \A m \in 1..(n - 1) : \A i \in bs[m].primary, j \in bs[n].primary : i < j
  <2>. SUFFICES ASSUME NEW n \in 1..l, NEW m \in 1..(n - 1)
                PROVE  \A i \in bs[m].primary, j \in bs[n].primary : i < j
    BY <1>1
  <2>1. m \in 1..l /\ m < n
    BY <1>1
  <2>. QED BY <1>2, <2>1 DEF InTurn, l
<1>7. \A b \in Range(bs) : BatchFits(source, Final(b), config)
  BY <1>1 DEF BatchTells
<1>. QED BY <1>3, <1>4, <1>5, <1>6, <1>7 DEF EveryBlockIsPlanned, bs

LEMMA MessagesAreTold ==
    ASSUME NEW source \in Seq(SourceRows), NEW config \in Configs, NEW p \in GoodPlans(source, config)
    PROVE  /\ HeadingsAreCurrent(source, p) /\ SurroundingsAreKept(source, config, p)
           /\ EndsAreNear(source, config, p)
<1> DEFINE bs == p.batches
           l == Len(bs)
<1>1. /\ l \in Nat /\ DOMAIN bs = 1..l
      /\ \A m \in 1..l : BatchTells(source, config, bs, m)
      /\ \A b \in Range(bs) : \E m \in 1..l : b = bs[m]
  BY BatchesAreTold
<1>. HIDE DEF bs, l
<1>2. \A c : LatestHeading(source, c) = HeadingAt(source, c)
  BY DEF LatestHeading, HeadingAt
<1>3. HeadingsAreCurrent(source, p)
  <2>. SUFFICES ASSUME NEW b \in Range(bs),
                       {i \in Final(b) : i < Firsts(b) /\ source[i].heading} # {}
                PROVE  LatestHeading(source, Firsts(b))
                          \in {i \in Final(b) : i < Firsts(b) /\ source[i].heading}
    BY DEF HeadingsAreCurrent, bs
  <2>1. HeadingTells(source, Final(b), Min(b.primary))
    BY <1>1 DEF BatchTells
  <2>2. HeadingAt(source, Min(b.primary))
          \in {i \in Final(b) : i < Min(b.primary) /\ source[i].heading}
    BY <2>1 DEF HeadingTells, Firsts
  <2>. QED BY <1>2, <2>2 DEF Firsts
<1>4. SurroundingsAreKept(source, config, p)
  <2>. SUFFICES ASSUME NEW n \in 2..l
                PROVE  /\ bs[n].overlap \subseteq Final(bs[n - 1])
                       /\ \A i \in Final(bs[n - 1]) \ bs[n].overlap :
                            Cardinality(bs[n].overlap) < config.overlap
                              /\ i = Max(Final(bs[n - 1]) \ bs[n].overlap) =>
                            ~BatchFits(source, bs[n].overlap \cup {i} \cup {Firsts(bs[n])}, config)
                       /\ \A heading \in {LatestHeading(source, Firsts(bs[n]))} \ {0} :
                            config.headings /\ heading \notin Final(bs[n]) =>
                            ~BatchFits(source, bs[n].overlap \cup {heading} \cup {Firsts(bs[n])}, config)
    BY DEF SurroundingsAreKept, bs, l
  <2>1. n \in 1..l /\ n # 1
    BY <1>1
  <2>2. SurroundTells(bs[n], Min(bs[n].primary), source, BeforeBatch(bs, n), config)
    BY <1>1, <2>1 DEF BatchTells
  <2>3. BeforeBatch(bs, n) = Final(bs[n - 1])
    BY <2>1 DEF BeforeBatch
  <2>4. LatestHeading(source, Firsts(bs[n])) = HeadingAt(source, Min(bs[n].primary))
    BY <1>2 DEF Firsts
  <2>. QED BY <2>2, <2>3, <2>4 DEF SurroundTells, Firsts
<1>5. EndsAreNear(source, config, p)
  <2>1. \A b \in Range(bs) : EndTells(source, config, Final(b), Max(b.primary), b.primary)
    BY <1>1 DEF BatchTells
  <2>. QED BY <2>1 DEF EndsAreNear, EndTells, bs
<1>. QED BY <1>3, <1>4, <1>5

LEMMA PlansFollow ==
    ASSUME Chosen
    PROVE  PlansAreRight
<1>. SUFFICES ASSUME Of("plan"), ConfigFits(input.config), SourceFits(1, input.blocks)
              PROVE  PlanIsRight(InSourceOrder(input.blocks), input.config,
                                 Plan(InSourceOrder(input.blocks), input.config))
  BY DEF PlansAreRight
<1> DEFINE blocks == input.blocks
           config == input.config
           source == InSourceOrder(blocks)
           n == Len(blocks)
<1>1. input \in Inputs /\ input.kind = "plan"
  BY DEF Chosen, Of
<1>2. blocks \in Seq(SourceRows) /\ config \in Configs
  BY <1>1, InputsAssumption
<1>. HIDE DEF blocks, config
<1>3. n \in Nat /\ DOMAIN blocks = 1..n /\ \A i \in 1..n : blocks[i] \in SourceRows
  BY <1>2
<1>4. Arranges(Places(blocks), source, blocks, n)
  BY <1>2, <1>3, SourceListed
<1>. HIDE DEF source, n
<1>5. /\ source = [k \in 1..n |-> source[k]]
      /\ \A k \in 1..n : source[k] \in SourceRows
  BY <1>3, <1>4 DEF Arranges
<1>6. source \in Seq(SourceRows)
  BY <1>3, <1>5, TableIsSeq
<1> DEFINE p == Plan(source, config)
<1>7. p \in GoodPlans(source, config) /\ (p.tooLarge = NoBlock => p.cursor = Len(source) + 1)
  BY <1>2, <1>6, PlanIsGood
<1>. HIDE DEF p
<1>8. EveryBlockIsPlanned(source, config, p)
  BY <1>2, <1>6, <1>7, BlocksArePlanned
<1>9. /\ HeadingsAreCurrent(source, p) /\ SurroundingsAreKept(source, config, p)
      /\ EndsAreNear(source, config, p)
  BY <1>2, <1>6, <1>7, MessagesAreTold
<1>. QED BY <1>8, <1>9 DEF PlanIsRight, p, source, blocks, config

\* What is sent to the model, and what is taken from its replies, is right whatever
\* the candidates, blocks, limits and replies are: the packing of a check is in order,
\* within its limits and tight, evidence is that of its block, and a plan of blocks
\* covers each once, in order, nearest to the target that the limits allow.
THEOREM RequestsTheorem == Spec => []RequestsAreRight
<1>1. Chosen => RequestsAreRight
  BY PackingFollows, OrderFollows, EvidenceFollows, InputFollows, SourceCheckFollows,
     PlansFollow, RepliesFollow DEF RequestsAreRight
<1>. QED BY <1>1, InputIsChosen, PTL

-----------------------------------------------------------------------------
(* Views. *)

\* A view of the facts of persons, with the projections it was made of.
Viewed(known, fields, decided, filter, subjects, placed, p, q, view) ==
    /\ fields \in Seq(FieldRows) /\ FactsKnown(known) /\ known \in Seq(KnownRows)
    /\ DecidedGiven(decided) /\ filter.keys \in Seq(Nat)
    /\ subjects = SubjectsAsked("person", known, filter) /\ subjects \in Seq(Nat)
    /\ placed = InPlaceOrder(fields) /\ placed \in Seq(FieldRows)
    /\ RawShape(p, known, "person", subjects, placed)
    /\ AllBind(known, "person", subjects, placed, decided)
    /\ ReviewedShape(q, known, "person", subjects, placed, decided)
    /\ ViewShape(view, known, "person", subjects, placed, decided)

LEMMA ViewIsMade ==
    ASSUME NEW known, FactsKnown(known), NEW fields \in Seq(FieldRows), NEW decided,
           DecidedGiven(decided), NEW filter, filter.keys \in Seq(Nat),
           NEW p, p = RawProjection("person", fields, known, filter),
           NEW q, q = ReviewedProjection(p, decided), ReviewBinds(p, decided)
    PROVE  Viewed(known, fields, decided, filter, SubjectsAsked("person", known, filter),
                  InPlaceOrder(fields), p, q, View(q))
<1> DEFINE subjects == SubjectsAsked("person", known, filter)
           placed == InPlaceOrder(fields)
<1>1. known \in Seq(KnownRows)
  BY DEF FactsKnown
<1>2. subjects \in Seq(Nat)
  BY <1>1, SubjectsAre
<1>3. placed \in Seq(FieldRows)
  BY FieldsInPlace
<1>4. RawShape(p, known, "person", subjects, placed)
  BY <1>1, RawProjectionIs
<1>5. subjects = SubjectsAsked("person", known, filter) /\ placed = InPlaceOrder(fields)
  OBVIOUS
<1>. HIDE DEF subjects, placed
<1>6. Len(subjects) \in Nat /\ Len(placed) \in Nat
  BY <1>2, <1>3
<1>7. AllBind(known, "person", subjects, placed, decided)
  BY <1>4, BindsOfProjection
<1>8. ReviewedShape(q, known, "person", subjects, placed, decided)
  BY <1>4, <1>6, ReviewedProjectionIs
<1>9. ViewShape(View(q), known, "person", subjects, placed, decided)
  BY <1>8, ViewIs
<1>. QED BY <1>1, <1>2, <1>3, <1>4, <1>5, <1>7, <1>8, <1>9 DEF Viewed

\* What is built is accepted when it is read again.
LEMMA ViewAccepted ==
    ASSUME NEW known, NEW fields, NEW decided, NEW filter, NEW subjects, NEW placed, NEW p, NEW q,
           NEW view, Viewed(known, fields, decided, filter, subjects, placed, p, q, view),
           FieldsFit(fields), FilterFits(filter)
    PROVE  /\ AuthenticRaw(p, filter) /\ AuthenticReviewed(q, filter) /\ AuthenticView(view, filter)
           /\ filter = Everything => AuthenticVersion(Kept(view, "manual", 0))
<1>1. /\ fields \in Seq(FieldRows) /\ FactsKnown(known) /\ DecidedGiven(decided)
      /\ filter.keys \in Seq(Nat) /\ subjects = SubjectsAsked("person", known, filter)
      /\ placed = InPlaceOrder(fields)
      /\ RawShape(p, known, "person", subjects, placed)
      /\ AllBind(known, "person", subjects, placed, decided)
      /\ ReviewedShape(q, known, "person", subjects, placed, decided)
      /\ ViewShape(view, known, "person", subjects, placed, decided)
      /\ subjects \in Seq(Nat) /\ placed \in Seq(FieldRows)
  BY DEF Viewed
<1>2. AuthenticRaw(p, filter)
  BY <1>1, RawIsAuthentic
<1>3. AuthenticReviewed(q, filter)
  BY <1>1, ReviewedIsAuthentic
<1>4. AuthenticView(view, filter)
  BY <1>1, ViewAuthentic
<1>5. Len(subjects) \in Nat /\ Len(placed) \in Nat
  BY <1>1
<1>6. ASSUME filter = Everything
      PROVE  AuthenticVersion(Kept(view, "manual", 0))
  <2>1. AuthenticView(view, Everything)
    BY <1>4, <1>6
  <2>. QED BY <1>1, <1>5, <2>1, VersionAuthentic
<1>. QED BY <1>2, <1>3, <1>4, <1>6

\* The fields of the view are those of the schema, for each subject.
LEMMA FieldsOfView ==
    ASSUME NEW known, NEW fields, NEW decided, NEW filter, NEW subjects, NEW placed, NEW p, NEW q,
           NEW view, Viewed(known, fields, decided, filter, subjects, placed, p, q, view),
           NEW f \in ViewFields(view)
    PROVE  \E s, field : /\ f = KnownOf(known, "person", s, field, decided)
                         /\ f.raw = RawOf(known, "person", s, field) /\ f.raw.field = field
                         /\ FactsBind(RawOf(known, "person", s, field), decided)
<1> DEFINE kind == "person"
<1>1. /\ FactsKnown(known) /\ DecidedGiven(decided) /\ placed \in Seq(FieldRows)
      /\ AllBind(known, kind, subjects, placed, decided)
      /\ ViewShape(view, known, kind, subjects, placed, decided)
  BY DEF Viewed
<1>2. f \in FieldsSeen(view) /\ Len(placed) \in Nat
  BY <1>1 DEF ViewFields, FieldsSeen
<1>. HIDE DEF kind
<1> DEFINE K(i, j) == KnownOf(known, kind, subjects[i], placed[j], decided)
<1>3. /\ \A k \in FieldsSeen(view) : \E i \in 1..Len(subjects), j \in 1..Len(placed) : k = K(i, j)
      /\ \A i \in 1..Len(subjects), j \in 1..Len(placed) : K(i, j) \in FieldsSeen(view)
  <2>1. Len(placed) \in Nat /\ ViewShape(view, known, kind, subjects, placed, decided)
    BY <1>1, <1>2
  <2>. QED BY ONLY <2>1, FieldsSeenAre
<1>. HIDE DEF K
<1>4. PICK i \in 1..Len(subjects), j \in 1..Len(placed) : f = K(i, j)
  BY <1>2, <1>3
<1>5. f = KnownOf(known, kind, subjects[i], placed[j], decided)
  BY <1>4 DEF K
<1>6. FactsBind(RawOf(known, kind, subjects[i], placed[j]), decided)
  BY <1>1 DEF AllBind
<1>7. f.raw = RawOf(known, kind, subjects[i], placed[j]) /\ f.raw.field = placed[j]
  BY <1>1, <1>5, <1>6, FieldOfView
<1>. QED BY <1>5, <1>6, <1>7 DEF kind

LEMMA UndecidedHidden ==
    ASSUME NEW known, NEW fields, NEW decided, NEW filter, NEW subjects, NEW placed, NEW p, NEW q,
           NEW view, Viewed(known, fields, decided, filter, subjects, placed, p, q, view)
    PROVE  \A f \in ViewFields(view) : \A g \in Range(f.raw.facts) : \A e \in Range(decided) :
             e.fact = g.id /\ e.resolution.status # "resolved" =>
               f.state = "review_required" /\ Range(f.values) \cap Range(FactValues(g)) = {}
<1>. SUFFICES ASSUME NEW f \in ViewFields(view), NEW g \in Range(f.raw.facts),
                     NEW e \in Range(decided), e.fact = g.id, e.resolution.status # "resolved"
              PROVE  f.state = "review_required" /\ Range(f.values) \cap Range(FactValues(g)) = {}
  OBVIOUS
<1>1. FactsKnown(known) /\ DecidedGiven(decided)
  BY DEF Viewed
<1>2. PICK s, field : /\ f = KnownOf(known, "person", s, field, decided)
                      /\ f.raw = RawOf(known, "person", s, field)
                      /\ FactsBind(RawOf(known, "person", s, field), decided)
  BY FieldsOfView
<1>3. g \in Range(RawOf(known, "person", s, field).facts)
  BY <1>2
<1>. QED BY <1>1, <1>2, <1>3, UndecidedField

LEMMA ScopesOfView ==
    ASSUME NEW known, NEW fields, NEW decided, NEW filter, NEW subjects, NEW placed, NEW p, NEW q,
           NEW view, Viewed(known, fields, decided, filter, subjects, placed, p, q, view)
    PROVE  /\ \A f, g \in ViewFields(view) :
                f.raw.field.one /\ g.raw.field.one /\ f.raw.field.scope # g.raw.field.scope =>
                   Range(f.raw.facts) \cap Range(g.raw.facts) = {}
           /\ CorruptIsTold(p, fields, known) /\ p.kind = "person"
<1>1. /\ fields \in Seq(FieldRows) /\ FactsKnown(known) /\ placed = InPlaceOrder(fields)
      /\ RawShape(p, known, "person", subjects, placed)
  BY DEF Viewed
<1>2. ASSUME NEW f \in ViewFields(view), NEW g \in ViewFields(view), f.raw.field.one,
             g.raw.field.one, f.raw.field.scope # g.raw.field.scope
      PROVE  Range(f.raw.facts) \cap Range(g.raw.facts) = {}
  <2>1. PICK s, field : f.raw = RawOf(known, "person", s, field) /\ f.raw.field = field
    BY FieldsOfView
  <2>2. PICK t, other : g.raw = RawOf(known, "person", t, other) /\ g.raw.field = other
    BY FieldsOfView
  <2>3. field.one /\ other.one /\ field.scope # other.scope
    BY <1>2, <2>1, <2>2
  <2>4. Range(RawOf(known, "person", s, field).facts)
          \cap Range(RawOf(known, "person", t, other).facts) = {}
    BY <1>1, <2>3, ScopesApart
  <2>. QED BY <2>1, <2>2, <2>4
<1>3. CorruptIsTold(p, fields, known)
  BY <1>1, CorruptTold
<1>4. p.kind = "person"
  BY <1>1 DEF RawShape
<1>. QED BY <1>2, <1>3, <1>4

\* Facts that are reviewed, as the items of the lists.
LEMMA ItemsOfView ==
    ASSUME NEW known, NEW fields, NEW decided, NEW filter, NEW subjects, NEW placed, NEW p, NEW q,
           NEW view, Viewed(known, fields, decided, filter, subjects, placed, p, q, view)
    PROVE  /\ ItemSetFits(q) /\ Indexed(q) = ReviewsSeen(view)
           /\ ReviewedWell(Indexed(q), known, "person", subjects, placed, decided)
<1>1. /\ FactsKnown(known) /\ DecidedGiven(decided) /\ subjects \in Seq(Nat)
      /\ placed \in Seq(FieldRows) /\ AllBind(known, "person", subjects, placed, decided)
      /\ ReviewedShape(q, known, "person", subjects, placed, decided)
      /\ ViewShape(view, known, "person", subjects, placed, decided)
  BY DEF Viewed
<1>2. ItemSetFits(q)
  BY <1>1, ItemSetIs
<1>3. Indexed(q) = EachReviewed(q.records)
  BY <1>1, IndexedIs
<1>4. Len(placed) \in Nat
  BY <1>1
<1>5. ReviewsSeen(view) = EachReviewed(q.records)
  BY <1>1, <1>4, SameReviewsSeen
<1>6. ReviewedWell(EachReviewed(q.records), known, "person", subjects, placed, decided)
  BY <1>1, EachIsReviewed
<1>. QED BY <1>2, <1>3, <1>5, <1>6

ListsAreFilled(q, those) ==
    \A s \in ItemStates \cup {"all"} : ListTells(those[s], AskedOf(q, s), MostListed)

LEMMA ListsAreTold ==
    ASSUME NEW q, ItemSetFits(q), NEW those,
           those = [s \in ItemStates \cup {"all"} |-> Listed(q, s, MostListed)]
    PROVE  ListsAreFilled(q, those)
<1>. SUFFICES ASSUME NEW s \in ItemStates \cup {"all"}
              PROVE  ListTells(those[s], AskedOf(q, s), MostListed)
  BY DEF ListsAreFilled
<1>1. MostListed \in Nat
  BY DEF MostListed
<1>2. those[s] = Listed(q, s, MostListed)
  OBVIOUS
<1>. QED BY <1>1, <1>2, ListedTells

\* No item is in the lists of two states, and what needs a review comes first.
LEMMA ListsAreOrdered ==
    ASSUME NEW q, ItemSetFits(q), NEW those, ListsAreFilled(q, those)
    PROVE  ListsFit(those["all"], those, q)
<1>1. \A s \in ItemStates : s \in ItemStates \cup {"all"}
  OBVIOUS
<1>2. ASSUME NEW s \in ItemStates, NEW t \in ItemStates, s # t
      PROVE  Range(those[s]) \cap Range(those[t]) = {}
  <2>1. Range(those[s]) \subseteq AskedOf(q, s) /\ Range(those[t]) \subseteq AskedOf(q, t)
    BY DEF ListsAreFilled, ListTells
  <2>2. \A i \in AskedOf(q, s) : Classifies(i, s)
    BY DEF AskedOf, ItemStates
  <2>3. \A i \in AskedOf(q, t) : Classifies(i, t)
    BY DEF AskedOf, ItemStates
  <2>4. \A i : ~(Classifies(i, s) /\ Classifies(i, t))
    BY <1>2 DEF Classifies, ItemStates
  <2>. QED BY <2>1, <2>2, <2>3, <2>4
<1> DEFINE all == those["all"]
<1>3. ListTells(all, AskedOf(q, "all"), MostListed)
  BY DEF ListsAreFilled
<1>4. AskedOf(q, "all") = ItemSet(q)
  BY DEF AskedOf
<1>5. ASSUME NEW i \in DOMAIN all, NEW j \in DOMAIN all, i < j, all[j].review
      PROVE  all[i].review
  <2>1. Ahead(all[i], all[j])
    BY <1>3, <1>5 DEF ListTells, InReviewOrder
  <2>2. Precedes(all[i], all[j])
    BY <2>1, AheadIs
  <2>. QED BY <1>5, <2>2 DEF Precedes, Before5, Rank
<1>6. ASSUME NEW i \in Range(all)
      PROVE  \E d \in Detail(q, i.fact) :
               AuthenticDetail(d) /\ d.fields = i.fields /\ d.reviewed.state = i.state
  <2>1. i \in ItemSet(q)
    BY <1>3, <1>4, <1>6 DEF ListTells
  <2>. QED BY <2>1, DetailShown
<1>. QED BY <1>2, <1>5, <1>6 DEF ListsFit

\* Lists that the limit does not cut have every item.
LEMMA AskedAreListed ==
    ASSUME NEW q, ItemSetFits(q), AllAreListed(q), NEW s, NEW list,
           ListTells(list, AskedOf(q, s), MostListed)
    PROVE  Range(list) = AskedOf(q, s)
<1>1. AskedOf(q, s) \subseteq ItemSet(q)
  BY DEF AskedOf
<1>2. IsFiniteSet(ItemSet(q))
  BY DEF ItemSetFits
<1>3. /\ IsFiniteSet(AskedOf(q, s))
      /\ Cardinality(AskedOf(q, s)) <= Cardinality(ItemSet(q))
      /\ Cardinality(AskedOf(q, s)) \in Nat
  BY <1>1, <1>2, FS_Subset, FS_CardinalityType
<1>4. /\ Cardinality(ItemSet(q)) <= Cardinality(Indexed(q)) /\ Cardinality(Indexed(q)) \in Nat
      /\ Cardinality(ItemSet(q)) \in Nat
  BY DEF ItemSetFits
<1>5. Cardinality(Indexed(q)) <= MostListed /\ MostListed \in Nat
  BY DEF AllAreListed, MostListed
<1>. QED BY <1>3, <1>4, <1>5 DEF ListTells

LEMMA NothingMissing ==
    ASSUME NEW q, ItemSetFits(q), AllAreListed(q), NEW those, ListsAreFilled(q, those), NEW view,
           Indexed(q) = ReviewsSeen(view)
    PROVE  NothingIsMissing(those["all"], those, view)
<1>1. \A s \in ItemStates \cup {"all"} : Range(those[s]) = AskedOf(q, s)
  BY AskedAreListed DEF ListsAreFilled
<1>2. Range(those["all"]) = ItemSet(q)
  BY <1>1 DEF AskedOf
<1> DEFINE facts(f) == {r.fact.id : r \in Range(f.reviewed)}
           seen == UNION {facts(f) : f \in ViewFields(view)}
<1>3. ViewFields(view) = FieldsSeen(view)
  BY DEF ViewFields, FieldsSeen
<1>4. \A r : r \in Indexed(q) <=> \E f \in ViewFields(view) : r \in Range(f.reviewed)
  BY <1>3 DEF ReviewsSeen
<1>5. \A i \in ItemSet(q) : \E r \in Indexed(q) : i.fact = r.fact.id
  BY DEF ItemSetFits, IsItemOf, ItemShows
<1>6. \A r \in Indexed(q) : ItemOf(q, r) \in ItemSet(q) /\ ItemOf(q, r).fact = r.fact.id
  BY DEF ItemSetFits, IsItemOf, ItemShows, ItemSet
<1>7. \A x : x \in seen <=> \E f \in ViewFields(view) : \E r \in Range(f.reviewed) : x = r.fact.id
  OBVIOUS
<1>. HIDE DEF facts, seen
<1>8. {i.fact : i \in ItemSet(q)} = seen
  <2>1. \A x \in {i.fact : i \in ItemSet(q)} : x \in seen
    BY <1>4, <1>5, <1>7
  <2>2. \A x \in seen : x \in {i.fact : i \in ItemSet(q)}
    BY <1>4, <1>6, <1>7
  <2>. QED BY <2>1, <2>2
<1>9. ItemSet(q) = UNION {Range(those[s]) : s \in ItemStates}
  <2>1. \A s \in ItemStates : Range(those[s]) = AskedOf(q, s)
    BY <1>1
  <2>2. \A i \in ItemSet(q) : \E s \in ItemStates : i \in AskedOf(q, s)
    BY DEF ItemSetFits, IsItemOf, AskedOf
  <2>3. \A s : AskedOf(q, s) \subseteq ItemSet(q)
    BY DEF AskedOf
  <2>. QED BY <2>1, <2>2, <2>3
<1>10. {i.fact : i \in Range(those["all"])} = seen
  BY <1>2, <1>8
<1>. QED BY <1>2, <1>9, <1>10 DEF NothingIsMissing, seen, facts

LEMMA ListsWhole ==
    ASSUME NEW known, NEW fields, NEW decided, NEW filter, NEW subjects, NEW placed, NEW p, NEW q,
           NEW view, Viewed(known, fields, decided, filter, subjects, placed, p, q, view)
    PROVE  ListsAreWhole(q, view)
<1>1. ItemSetFits(q) /\ Indexed(q) = ReviewsSeen(view)
  BY ItemsOfView
<1>2. ASSUME NEW those, those = [s \in ItemStates \cup {"all"} |-> Listed(q, s, MostListed)]
      PROVE  /\ ListsFit(those["all"], those, q)
             /\ AllAreListed(q) => NothingIsMissing(those["all"], those, view)
  <2>1. ListsAreFilled(q, those)
    BY <1>1, <1>2, ListsAreTold
  <2>2. ListsFit(those["all"], those, q)
    BY <1>1, <2>1, ListsAreOrdered
  <2>3. AllAreListed(q) => NothingIsMissing(those["all"], those, view)
    BY <1>1, <2>1, NothingMissing
  <2>. QED BY <2>2, <2>3
<1>3. ASSUME NEW s \in ItemStates \cup {"all"}, NEW limit \in 1..3
      PROVE  AuthenticList(Listed(q, s, limit), s, limit)
  <2>1. limit \in 1..MostListed
    BY DEF MostListed
  <2>. QED BY <1>1, <2>1, ListAuthentic
<1>. QED BY <1>2, <1>3 DEF ListsAreWhole

\* What is open can be decided, and is shown so by the record of a version.
LEMMA OpenDecidable ==
    ASSUME NEW known, NEW fields, NEW decided, NEW filter, NEW subjects, NEW placed, NEW p, NEW q,
           NEW view, Viewed(known, fields, decided, filter, subjects, placed, p, q, view),
           ~filter.given, FieldsFit(fields), AllAreListed(q),
           NEW open, open = Range(Listed(q, "review_required", MostListed))
    PROVE  OpenDecided(open, q, known, decided) /\ OpenShown(open, view)
<1>1. /\ fields \in Seq(FieldRows) /\ FactsKnown(known) /\ DecidedGiven(decided)
      /\ known \in Seq(KnownRows) /\ filter.keys \in Seq(Nat)
      /\ subjects = SubjectsAsked("person", known, filter) /\ subjects \in Seq(Nat)
      /\ placed = InPlaceOrder(fields)
      /\ AllBind(known, "person", subjects, placed, decided)
      /\ ReviewedShape(q, known, "person", subjects, placed, decided)
      /\ ViewShape(view, known, "person", subjects, placed, decided)
  BY DEF Viewed
<1>2. /\ ItemSetFits(q)
      /\ ReviewedWell(Indexed(q), known, "person", subjects, placed, decided)
  BY ItemsOfView
<1>3. MostListed \in Nat
  BY DEF MostListed
<1>4. ListTells(Listed(q, "review_required", MostListed), AskedOf(q, "review_required"), MostListed)
  BY <1>2, <1>3, ListedTells
<1>5. open = AskedOf(q, "review_required")
  BY <1>2, <1>4, AskedAreListed
<1>6. OpenDecided(open, q, known, decided)
  BY <1>1, <1>2, <1>5, OpenCanBeDecided
<1>7. \A i, j \in DOMAIN subjects : i < j => subjects[i] < subjects[j]
  BY <1>1, SubjectsAre
<1>8. IsInjective(subjects)
  <2>1. \A i \in DOMAIN subjects : i \in Nat /\ subjects[i] \in Nat
    BY <1>1
  <2>2. \A i, j \in DOMAIN subjects : subjects[i] = subjects[j] => i = j
    BY <1>7, <2>1
  <2>. QED BY <2>2 DEF IsInjective
<1>9. OpenShown(open, view)
  BY <1>1, <1>2, <1>5, <1>8, OpenAreShown
<1>. QED BY <1>6, <1>9

LEMMA ViewsFollow ==
    ASSUME Chosen
    PROVE  ViewsTellTheTruth
<1>. SUFFICES ASSUME Of("view"), NEW p, NEW q,
                     p = RawProjection("person", input.fields, input.known, Filter),
                     q = ReviewedProjection(p, input.decided), ReviewBinds(p, input.decided)
              PROVE  ViewTellsTheTruth(p, q, View(q))
  BY DEF ViewsTellTheTruth
<1> DEFINE known == input.known
           fields == input.fields
           decided == input.decided
           subjects == SubjectsAsked("person", known, Filter)
           placed == InPlaceOrder(fields)
           view == View(q)
<1>1. input \in Inputs /\ input.kind = "view"
  BY DEF Chosen, Of
<1>2. /\ fields \in Seq(FieldRows) /\ FactsKnown(known) /\ input.subjects \in Seq(Nat)
      /\ \A e \in Range(decided) : EffectiveGiven(e)
      /\ \A d, e \in Range(decided) : d.fact = e.fact => d = e
  BY <1>1, InputsAssumption
<1>3. DecidedGiven(decided)
  BY <1>2 DEF DecidedGiven, EffectiveGiven
<1>4. Filter.keys \in Seq(Nat) /\ (Filter.given <=> input.subjects # << >>)
  BY <1>2 DEF Filter
<1>5. ~Filter.given => Filter = Everything
  BY DEF Filter, Everything
<1>6. Viewed(known, fields, decided, Filter, subjects, placed, p, q, view)
  BY <1>2, <1>3, <1>4, ViewIsMade
<1>. HIDE DEF known, fields, decided, subjects, placed, view
<1>7. ViewIsAuthentic(p, q, view)
  <2>. SUFFICES ASSUME FieldsFit(fields), FilterFits(Filter)
                PROVE  /\ AuthenticRaw(p, Filter) /\ AuthenticReviewed(q, Filter)
                       /\ AuthenticView(view, Filter)
                       /\ ~Filter.given => AuthenticVersion(Kept(view, "manual", 0))
    BY DEF ViewIsAuthentic, fields
  <2>. QED BY <1>5, <1>6, ViewAccepted
<1>8. UndecidedIsNotKnown(view)
  BY <1>6, UndecidedHidden DEF UndecidedIsNotKnown, decided
<1>9. ScopesAreApart(p, view)
  <2>1. /\ \A f, g \in ViewFields(view) :
             f.raw.field.one /\ g.raw.field.one /\ f.raw.field.scope # g.raw.field.scope =>
                Range(f.raw.facts) \cap Range(g.raw.facts) = {}
        /\ CorruptIsTold(p, fields, known)
    BY <1>6, ScopesOfView
  <2>. QED BY <2>1 DEF ScopesAreApart, CorruptIsTold, fields, known
<1>10. ListsAreWhole(q, view)
  BY <1>6, ListsWhole
<1>11. ASSUME WholeView, AllAreListed(q)
       PROVE  ListedCanBeDecided(q, Range(Listed(q, "review_required", MostListed)),
                                 Kept(view, "manual", 0))
  <2> DEFINE open == Range(Listed(q, "review_required", MostListed))
  <2>1. ~Filter.given /\ FieldsFit(fields)
    BY <1>11 DEF WholeView, fields
  <2>2. OpenDecided(open, q, known, decided) /\ OpenShown(open, view)
    BY <1>6, <1>11, <2>1, OpenDecidable
  <2>3. Kept(view, "manual", 0).view = view
    BY DEF Kept
  <2>. HIDE DEF open
  <2>4. \A subject : VersionRecord(Kept(view, "manual", 0), subject)
                       = Where(view.records, LAMBDA r : r.subject = subject)
    BY <2>3 DEF VersionRecord
  <2>5. ListedCanBeDecided(q, open, Kept(view, "manual", 0))
    BY <2>2, <2>3, <2>4 DEF ListedCanBeDecided, OpenDecided, OpenShown, VersionRecord, known, decided
  <2>. QED BY <2>5 DEF open
<1>. QED BY <1>7, <1>8, <1>9, <1>10, <1>11 DEF ViewTellsTheTruth, view

\* Whatever the schema, the facts, the decisions and the filter are: what is built of them
\* is accepted by all who read it again and as a version of the project, no field that
\* somebody still has to decide shows a value of it as known, fields of different scopes
\* share no fact, and a reviewer finds every fact in one list, what is open before what is
\* settled, and can decide exactly what is listed as open.
THEOREM ViewsTheorem == Spec => []ViewsTellTheTruth
<1>1. Chosen => ViewsTellTheTruth
  BY ViewsFollow
<1>. QED BY <1>1, InputIsChosen, PTL
================================================================================
