------------------------------ MODULE OperatorProofs -----------------------------
(* Proofs about the operators of DuplicateGrouping, RevisionDifferences, DecisionRows  *)
(* and EffectiveValues, for any values, blocks, facts and decisions; RequestProofs and *)
(* ViewProofs build on them.  They begin with what proofs about sequences need:        *)
(* induction over numbers, and the states a fold over a sequence goes through.  The    *)
(* induction principles of the library take an operator; here a set stands for what is *)
(* proved, and its complement has a least element.                                     *)
EXTENDS RevisionDifferences, DecisionRows, DuplicateGrouping,
        FiniteSetTheorems, TLAPS

LEMMA LeastNumber ==
    ASSUME NEW S \in SUBSET Nat, S # {}
    PROVE  \E m \in S : \A n \in S : m <= n
<1>1. PICK k \in S : TRUE
  OBVIOUS
<1> DEFINE D == 0..k
           T == {0..n : n \in {x \in S : x <= k}}
<1>2. IsFiniteSet(D)
  BY <1>1, FS_Interval
<1>3. IsWellFoundedOn(StrictSubsetOrdering(D), SUBSET D)
  BY <1>2, FS_StrictSubsetOrderingWellFounded, FS_FiniteSubsetsOfFinite
<1>4. T \subseteq SUBSET D /\ T # {}
  BY <1>1
<1>5. \E x \in T : \A y \in T : ~(<<y, x>> \in StrictSubsetOrdering(D))
  <2>. HIDE DEF T, D
  <2>. QED BY <1>3, <1>4, WFMin
<1>6. PICK m \in {x \in S : x <= k} : \A y \in T : ~(<<y, 0..m>> \in StrictSubsetOrdering(D))
  BY <1>5
<1>7. ASSUME NEW n \in S, n < m PROVE FALSE
  <2>1. 0..n \in T /\ 0..n \in SUBSET D /\ 0..m \in SUBSET D
    BY <1>7, <1>1
  <2>2. 0..n \subseteq 0..m /\ m \in 0..m /\ m \notin 0..n
    BY <1>7
  <2>. QED BY <1>6, <2>1, <2>2 DEF StrictSubsetOrdering
<1>. QED BY <1>6, <1>7

LEMMA Induction ==
    ASSUME NEW n \in Nat, NEW S, 0 \in S, \A k \in 0..(n - 1) : k \in S => k + 1 \in S
    PROVE  0..n \subseteq S
<1>. SUFFICES ASSUME 0..n \ S # {} PROVE FALSE
  OBVIOUS
<1>1. 0..n \ S \in SUBSET Nat
  OBVIOUS
<1>2. PICK m \in 0..n \ S : \A k \in 0..n \ S : m <= k
  BY <1>1, LeastNumber
<1>3. m - 1 \in 0..(n - 1) /\ m - 1 \in S
  BY <1>2
<1>. QED BY <1>2, <1>3

LEMMA MaxIs ==
    ASSUME NEW n \in Nat, NEW s \in SUBSET (1..n), s # {}
    PROVE  Max(s) \in s /\ \A y \in s : y <= Max(s)
<1> DEFINE T == {n - x : x \in s}
<1>0. \A x \in s : x \in 1..n /\ n - x \in Nat
  OBVIOUS
<1>1. T \in SUBSET Nat /\ T # {}
  BY <1>0
<1>2. PICK m \in T : \A k \in T : m <= k
  BY <1>1, LeastNumber
<1>3. PICK x \in s : m = n - x
  BY <1>2
<1>4. \A y \in s : x >= y
  BY <1>0, <1>2, <1>3
<1>5. Max(s) \in s /\ \A y \in s : Max(s) >= y
  BY <1>3, <1>4 DEF Max
<1>. QED BY <1>0, <1>5

LEMMA MaxOfInterval ==
    ASSUME NEW k \in Nat \ {0}
    PROVE  Max(1..k) = k /\ (1..k) \ {k} = 1..(k - 1)
<1>1. k \in 1..k /\ 1..k \in SUBSET (1..k) /\ 1..k # {}
  OBVIOUS
<1>2. Max(1..k) \in 1..k /\ k <= Max(1..k)
  BY <1>1, MaxIs
<1>. QED BY <1>2

\* A fold over positions, as the library defines it, and the states it goes through.
FoldsTo(g, n, base, F) ==
    /\ g[{}] = base
    /\ \A s \in SUBSET (1..n) : s # {} => g[s] = F[<<g[s \ {Max(s)}], Max(s)>>]

LEMMA FoldExists ==
    ASSUME NEW n \in Nat, NEW T, NEW base \in T, NEW F \in [T \X (1..n) -> T]
    PROVE  \E g \in [SUBSET (1..n) -> T] : FoldsTo(g, n, base, F)
<1> DEFINE Is(g, k) == g \in [SUBSET (1..k) -> T] /\ FoldsTo(g, k, base, F)
           S == {k \in 0..n : \E g : Is(g, k)}
<1>1. 0 \in S
  <2> DEFINE g == [s \in SUBSET (1..0) |-> base]
  <2>1. 1..0 = {} /\ SUBSET (1..0) = {{}}
    OBVIOUS
  <2>2. Is(g, 0)
    BY <2>1 DEF FoldsTo
  <2>. HIDE DEF Is
  <2>. QED BY <2>2
<1>2. ASSUME NEW k \in 0..(n - 1), k \in S PROVE k + 1 \in S
  <2>1. PICK g : Is(g, k)
    BY <1>2
  <2> DEFINE h == [s \in SUBSET (1..(k + 1)) |->
                     IF k + 1 \in s THEN F[<<g[s \ {k + 1}], k + 1>>] ELSE g[s]]
  <2>2. \A s \in SUBSET (1..(k + 1)) : s \ {k + 1} \in SUBSET (1..k) /\ (k + 1 \notin s => s \in SUBSET (1..k))
    OBVIOUS
  <2>3. h \in [SUBSET (1..(k + 1)) -> T]
    <3>1. ASSUME NEW s \in SUBSET (1..(k + 1)) PROVE h[s] \in T
      <4>1. CASE k + 1 \in s
        <5>1. g[s \ {k + 1}] \in T /\ k + 1 \in 1..n
          BY <2>1, <2>2
        <5>. QED BY <4>1, <5>1
      <4>2. CASE k + 1 \notin s
        BY <4>2, <2>1, <2>2
      <4>. QED BY <4>1, <4>2
    <3>. QED BY <3>1
  <2>4. ASSUME NEW s \in SUBSET (1..(k + 1)), s # {}
        PROVE  h[s] = F[<<h[s \ {Max(s)}], Max(s)>>]
    <3>1. Max(s) \in s /\ \A y \in s : y <= Max(s)
      <4>1. k + 1 \in Nat
        OBVIOUS
      <4>. QED BY <2>4, <4>1, MaxIs
    <3>2. CASE k + 1 \in s
      <4>1. Max(s) = k + 1
        <5>1. Max(s) \in 1..(k + 1) /\ k + 1 <= Max(s)
          BY <3>1, <3>2
        <5>. QED BY <5>1
      <4>2. s \ {k + 1} \in SUBSET (1..(k + 1)) /\ k + 1 \notin s \ {k + 1}
        OBVIOUS
      <4>3. h[s \ {k + 1}] = g[s \ {k + 1}]
        BY <4>2
      <4>. QED BY <3>2, <4>1, <4>3
    <3>3. CASE k + 1 \notin s
      <4>1. s \in SUBSET (1..k) /\ s \ {Max(s)} \in SUBSET (1..k) /\ k + 1 \notin s \ {Max(s)}
        BY <2>2, <3>3
      <4>2. h[s] = g[s] /\ h[s \ {Max(s)}] = g[s \ {Max(s)}]
        BY <4>1, <3>3
      <4>. QED BY <2>1, <2>4, <4>1, <4>2 DEF FoldsTo
    <3>. QED BY <3>2, <3>3
  <2>5. h[{}] = base
    BY <2>1 DEF FoldsTo
  <2>6. Is(h, k + 1)
    <3>. HIDE DEF h
    <3>. QED BY <2>3, <2>4, <2>5 DEF FoldsTo
  <2>. HIDE DEF Is
  <2>. QED BY <2>6
<1>3. n \in S
  <2>. HIDE DEF S
  <2>1. 0..n \subseteq S
    BY <1>1, <1>2, Induction
  <2>. QED BY <2>1
<1>. QED BY <1>3

\* What holds of the first state and is kept by each step holds of all of them.
LEMMA StatesStay ==
    ASSUME NEW n \in Nat, NEW T, NEW acc, acc[0] \in T,
           \A k \in 0..(n - 1) : acc[k] \in T => acc[k + 1] \in T
    PROVE  \A k \in 0..n : acc[k] \in T
<1> DEFINE S == {k \in 0..n : acc[k] \in T}
<1>1. 0 \in S
  OBVIOUS
<1>2. \A k \in 0..(n - 1) : k \in S => k + 1 \in S
  OBVIOUS
<1>3. 0..n \subseteq S
  <2>. HIDE DEF S
  <2>. QED BY <1>1, <1>2, Induction
<1>. QED BY <1>3

States(acc, n, T, base, F) ==
    /\ acc \in [0..n -> T] /\ acc[0] = base
    /\ \A k \in 0..(n - 1) : acc[k + 1] = F[<<acc[k], k + 1>>]

LEMMA StatesExist ==
    ASSUME NEW n \in Nat, NEW T, NEW base \in T, NEW F \in [T \X (1..n) -> T]
    PROVE  \E acc : States(acc, n, T, base, F)
<1>1. PICK g \in [SUBSET (1..n) -> T] : FoldsTo(g, n, base, F)
  BY FoldExists
<1> DEFINE acc == [k \in 0..n |-> g[1..k]]
<1>2. \A k \in 0..n : 1..k \in SUBSET (1..n)
  OBVIOUS
<1>3. acc \in [0..n -> T]
  BY <1>1, <1>2
<1>4. acc[0] = base
  <2>1. 1..0 = {}
    OBVIOUS
  <2>. QED BY <1>1, <2>1 DEF FoldsTo
<1>5. ASSUME NEW k \in 0..(n - 1) PROVE acc[k + 1] = F[<<acc[k], k + 1>>]
  <2>1. Max(1..(k + 1)) = k + 1 /\ (1..(k + 1)) \ {k + 1} = 1..k
    BY MaxOfInterval
  <2>2. 1..(k + 1) # {} /\ 1..(k + 1) \in SUBSET (1..n) /\ k \in 0..n /\ k + 1 \in 0..n
    OBVIOUS
  <2>3. g[1..(k + 1)] = F[<<g[1..k], k + 1>>]
    BY <1>1, <2>1, <2>2 DEF FoldsTo
  <2>4. acc[k] = g[1..k] /\ acc[k + 1] = g[1..(k + 1)]
    BY <2>2
  <2>. QED BY <2>3, <2>4
<1>6. States(acc, n, T, base, F)
  <2>. HIDE DEF acc
  <2>. QED BY <1>3, <1>4, <1>5 DEF States
<1>. QED BY <1>6

\* Flattening appends one sequence after the other.
LEMMA FlattenIs ==
    ASSUME NEW E, NEW seqs \in Seq(Seq(E))
    PROVE  \E acc \in [0..Len(seqs) -> Seq(E)] :
              /\ acc[0] = << >> /\ FlattenSeq(seqs) = acc[Len(seqs)]
              /\ \A k \in 0..(Len(seqs) - 1) : acc[k + 1] = acc[k] \o seqs[k + 1]
<1> DEFINE n == Len(seqs)
           none == << >>
           T == Seq(E)
           F == [p \in T \X (1..n) |-> p[1] \o seqs[p[2]]]
           Body(f) == [i \in 1..Len(seqs) |-> IF i = 1 THEN seqs[i] ELSE f[i - 1] \o seqs[i]]
           flat == CHOOSE f : f = Body(f)
<1>1. n \in Nat /\ none \in T /\ F \in [T \X (1..n) -> T]
  OBVIOUS
<1>2. PICK acc : States(acc, n, T, none, F)
  <2>. HIDE DEF n, F, none, T
  <2>. QED BY <1>1, StatesExist
<1>3. ASSUME NEW k \in 0..(n - 1)
      PROVE  acc[k + 1] = acc[k] \o seqs[k + 1] /\ acc[k] \in T /\ seqs[k + 1] \in T
  <2>1. k \in 0..n /\ k + 1 \in 1..n
    BY <1>1
  <2>2. seqs[k + 1] \in T
    BY <2>1
  <2>3. acc[k] \in T /\ acc[k + 1] = F[<<acc[k], k + 1>>]
    <3>. HIDE DEF F, n, T
    <3>. QED BY <1>2, <2>1 DEF States
  <2>4. <<acc[k], k + 1>> \in T \X (1..n)
    BY <2>1, <2>3
  <2>. QED BY <2>2, <2>3, <2>4
<1>4. CASE n = 0
  <2>1. FlattenSeq(seqs) = none
    BY <1>4 DEF FlattenSeq
  <2>2. acc \in [0..n -> T] /\ acc[0] = none
    BY <1>2 DEF States
  <2>. QED BY <1>3, <1>4, <2>1, <2>2
<1>5. CASE n # 0
  <2> DEFINE own == [i \in 1..n |-> acc[i]]
  <2>1. acc[1] = seqs[1]
    <3>1. 0 \in 0..(n - 1) /\ 0 + 1 = 1
      BY <1>1, <1>5
    <3>2. acc[1] = acc[0] \o seqs[1] /\ seqs[1] \in Seq(E)
      BY <1>3, <3>1
    <3>3. acc[0] = none
      BY <1>2 DEF States
    <3>. QED BY <3>2, <3>3
  <2>2. ASSUME NEW i \in 1..n, i # 1 PROVE acc[i] = acc[i - 1] \o seqs[i] /\ i - 1 \in 1..n
    <3>1. i - 1 \in 0..(n - 1) /\ (i - 1) + 1 = i /\ i - 1 \in 1..n
      BY <2>2
    <3>2. acc[(i - 1) + 1] = acc[i - 1] \o seqs[(i - 1) + 1]
      BY <1>3, <3>1
    <3>. QED BY <3>1, <3>2
  <2>3. own = Body(own)
    BY <2>1, <2>2
  <2>4. flat = Body(flat)
    <3>. HIDE DEF Body, own
    <3>. QED BY <2>3
  <2>5. FlattenSeq(seqs) = flat[n]
    BY <1>5 DEF FlattenSeq
  <2>. HIDE DEF flat
  <2>6. flat[1] = seqs[1] /\ \A i \in 1..n : i # 1 => flat[i] = flat[i - 1] \o seqs[i]
    <3>1. 1 \in 1..n
      BY <1>1, <1>5
    <3>2. ASSUME NEW f, f = Body(f)
          PROVE  f[1] = seqs[1] /\ \A i \in 1..n : i # 1 => f[i] = f[i - 1] \o seqs[i]
      BY <3>1, <3>2
    <3>. HIDE DEF Body, n
    <3>. QED BY <2>4, <3>2
  <2> DEFINE S == {k \in 0..n : k # 0 => flat[k] = acc[k]}
  <2>7. 0 \in S
    OBVIOUS
  <2>8. ASSUME NEW k \in 0..(n - 1), k \in S PROVE k + 1 \in S
    <3>1. CASE k = 0
      BY <2>1, <2>6, <3>1
    <3>2. CASE k # 0
      <4>1. k + 1 \in 1..n /\ k + 1 # 1 /\ (k + 1) - 1 = k /\ flat[k] = acc[k]
        BY <3>2, <2>8
      <4>2. flat[k + 1] = flat[k] \o seqs[k + 1]
        BY <2>6, <4>1
      <4>3. acc[k + 1] = acc[k] \o seqs[k + 1]
        BY <1>3
      <4>4. flat[k + 1] = acc[k + 1]
        <5>. HIDE DEF S, n, F, none, T, Body
        <5>. QED BY <4>1, <4>2, <4>3
      <4>. QED BY <4>1, <4>4
    <3>. QED BY <3>1, <3>2
  <2>9. 0..n \subseteq S
    <3>. HIDE DEF S, n
    <3>. QED BY <1>1, <2>7, <2>8, Induction
  <2>10. flat[n] = acc[n]
    BY <2>9, <1>5
  <2>11. acc \in [0..n -> T] /\ acc[0] = none
    BY <1>2 DEF States
  <2>. QED BY <1>3, <2>5, <2>10, <2>11
<1>. QED BY <1>4, <1>5

-----------------------------------------------------------------------------
(* Sets that are sorted. *)

\* A sequence of the members of a set, each once.
Lists(seq, set) ==
    /\ DOMAIN seq = 1..Cardinality(set) /\ Cardinality(set) \in Nat
    /\ \A i \in DOMAIN seq : seq[i] \in set
    /\ \A x \in set : \E i \in DOMAIN seq : seq[i] = x
    /\ \A i, j \in DOMAIN seq : seq[i] = seq[j] => i = j

\* Ranks that differ name every place once, since there are as many.
LEMMA RankedIs ==
    ASSUME NEW S, IsFiniteSet(S), NEW rank, \A x \in S : rank[x] \in 0..(Cardinality(S) - 1),
           \A x, y \in S : rank[x] = rank[y] => x = y
    PROVE  /\ Lists(Ranked(S, rank), S) /\ Ranked(S, rank) \in Seq(S)
           /\ \A i \in DOMAIN Ranked(S, rank) : rank[Ranked(S, rank)[i]] = i - 1
<1> DEFINE n == Cardinality(S)
           places == 0..(n - 1)
           f == [x \in S |-> rank[x]]
<1>1. n \in Nat
  BY FS_CardinalityType
<1>2. IsFiniteSet(places) /\ Cardinality(places) = n
  <2>1. 0 \in Int /\ n - 1 \in Int
    BY <1>1
  <2>2. IsFiniteSet(0..(n - 1)) /\
        Cardinality(0..(n - 1)) = IF 0 > n - 1 THEN 0 ELSE (n - 1) - 0 + 1
    <3>. HIDE DEF n
    <3>. QED BY <2>1, FS_Interval
  <2>. QED BY <2>2, <1>1
<1>3. f \in [S -> places] /\ \A x, y \in S : f[x] = f[y] => x = y
  OBVIOUS
<1>4. f \in Injection(S, places)
  <2>. HIDE DEF f, places
  <2>. QED BY <1>3 DEF Injection, IsInjective
<1>5. f \in Surjection(S, places)
  <2>. HIDE DEF f, places
  <2>. QED BY <1>2, <1>4, FS_Injection
<1>6. \A p \in places : \E x \in S : rank[x] = p
  <2>1. \A p \in places : \E x \in S : f[x] = p
    <3>. HIDE DEF f, places
    <3>. QED BY <1>5 DEF Surjection
  <2>. QED BY <2>1
<1> DEFINE seq == Ranked(S, rank)
<1>7. DOMAIN seq = 1..n /\ \A i \in 1..n : seq[i] = CHOOSE x \in S : rank[x] = i - 1
  BY DEF Ranked
<1>8. \A i \in 1..n : seq[i] \in S /\ rank[seq[i]] = i - 1
  <2>1. \A i \in 1..n : i - 1 \in places
    BY <1>1
  <2>. HIDE DEF seq
  <2>. QED BY <2>1, <1>6, <1>7
<1>9. \A x \in S : rank[x] + 1 \in 1..n /\ seq[rank[x] + 1] = x
  <2>1. \A x \in S : rank[x] + 1 \in 1..n /\ (rank[x] + 1) - 1 = rank[x]
    BY <1>1
  <2>. HIDE DEF seq
  <2>. QED BY <2>1, <1>8
<1>10. seq \in [1..n -> S]
  <2>1. seq = [i \in 1..n |-> seq[i]]
    BY DEF Ranked
  <2>. HIDE DEF seq
  <2>. QED BY <2>1, <1>8
<1>11. \A i, j \in 1..n : seq[i] = seq[j] => i = j
  <2>. HIDE DEF seq
  <2>. QED BY <1>1, <1>8
<1>. HIDE DEF seq
<1>. QED BY <1>1, <1>7, <1>8, <1>9, <1>10, <1>11 DEF seq, Lists

Below(S, R, x) == {y \in S : <<y, x>> \in R}
StrictOrder(R, S) ==
    /\ \A x \in S : <<x, x>> \notin R
    /\ \A x, y \in S : x = y \/ <<x, y>> \in R \/ <<y, x>> \in R
    /\ \A x, y, z \in S : <<x, y>> \in R /\ <<y, z>> \in R => <<x, z>> \in R

\* Under a strict order the number of members below tells them apart.
LEMMA RanksDiffer ==
    ASSUME NEW S, IsFiniteSet(S), NEW R, StrictOrder(R, S)
    PROVE  /\ \A x \in S : Cardinality(Below(S, R, x)) \in 0..(Cardinality(S) - 1)
           /\ \A x, y \in S :
                Cardinality(Below(S, R, x)) = Cardinality(Below(S, R, y)) => x = y
<1>1. \A x \in S : Below(S, R, x) \in SUBSET S /\ x \notin Below(S, R, x)
  BY DEF Below, StrictOrder
<1>2. \A x \in S : IsFiniteSet(Below(S, R, x))
  BY <1>1, FS_Subset
<1>3. Cardinality(S) \in Nat /\ \A x \in S : Cardinality(Below(S, R, x)) \in Nat
  BY <1>2, FS_CardinalityType
<1>4. ASSUME NEW x \in S PROVE Cardinality(Below(S, R, x)) \in 0..(Cardinality(S) - 1)
  <2>1. /\ Cardinality(Below(S, R, x)) <= Cardinality(S)
        /\ Cardinality(S) = Cardinality(Below(S, R, x)) => S = Below(S, R, x)
    BY <1>1, FS_Subset
  <2>2. Cardinality(Below(S, R, x)) # Cardinality(S)
    BY <2>1, <1>1, <1>4
  <2>. QED BY <2>1, <2>2, <1>3
<1>5. ASSUME NEW x \in S, NEW y \in S, <<x, y>> \in R
      PROVE  Cardinality(Below(S, R, x)) # Cardinality(Below(S, R, y))
  <2>1. Below(S, R, x) \in SUBSET Below(S, R, y)
    BY <1>5 DEF Below, StrictOrder
  <2>2. x \in Below(S, R, y) /\ x \notin Below(S, R, x)
    BY <1>5, <1>1 DEF Below
  <2>3. Cardinality(Below(S, R, y)) = Cardinality(Below(S, R, x)) =>
           Below(S, R, y) = Below(S, R, x)
    BY <2>1, <1>2, FS_Subset
  <2>. QED BY <2>2, <2>3
<1>6. \A x, y \in S : x = y \/ <<x, y>> \in R \/ <<y, x>> \in R
  BY DEF StrictOrder
<1>. QED BY <1>4, <1>5, <1>6

LEMMA RankedInOrder ==
    ASSUME NEW S, IsFiniteSet(S), NEW R, StrictOrder(R, S),
           NEW rank, \A x \in S : rank[x] = Cardinality(Below(S, R, x))
    PROVE  Lists(Ranked(S, rank), S) /\ Ranked(S, rank) \in Seq(S)
<1>1. /\ \A x \in S : rank[x] \in 0..(Cardinality(S) - 1)
      /\ \A x, y \in S : rank[x] = rank[y] => x = y
  BY RanksDiffer
<1>. QED BY <1>1, RankedIs

-----------------------------------------------------------------------------
(* What is filtered. *)

\* In order means that ranks grow.
LEMMA RanksGrow ==
    ASSUME NEW S, IsFiniteSet(S), NEW R, StrictOrder(R, S),
           NEW rank, \A x \in S : rank[x] = Cardinality(Below(S, R, x))
    PROVE  LET seq == Ranked(S, rank) IN
           \A i, j \in DOMAIN seq : i < j => <<seq[i], seq[j]>> \in R
<1> DEFINE seq == Ranked(S, rank)
           n == Cardinality(S)
<1>1. /\ \A x \in S : Cardinality(Below(S, R, x)) \in 0..(n - 1)
      /\ \A x, y \in S :
           Cardinality(Below(S, R, x)) = Cardinality(Below(S, R, y)) => x = y
  BY RanksDiffer
<1>2. n \in Nat /\ DOMAIN seq = 1..n
  BY FS_CardinalityType DEF Ranked
<1>3. Lists(seq, S)
  BY RankedInOrder
<1>. HIDE DEF seq
<1>5. \A i \in 1..n : seq[i] \in S /\ rank[seq[i]] = i - 1
  <2>1. /\ \A x \in S : rank[x] \in 0..(n - 1)
        /\ \A x, y \in S : rank[x] = rank[y] => x = y
    BY <1>1
  <2>2. \A i \in DOMAIN seq : rank[seq[i]] = i - 1
    BY <2>1, RankedIs DEF seq
  <2>. QED BY <2>2, <1>2, <1>3 DEF Lists
<1>6. ASSUME NEW i \in 1..n, NEW j \in 1..n, i < j
      PROVE  <<seq[i], seq[j]>> \in R
  <2>1. seq[i] # seq[j]
    BY <1>5, <1>6, <1>2
  <2>2. ASSUME <<seq[j], seq[i]>> \in R
        PROVE  FALSE
    <3>1. Below(S, R, seq[j]) \in SUBSET Below(S, R, seq[i])
      BY <1>5, <2>2 DEF Below, StrictOrder
    <3>2. IsFiniteSet(Below(S, R, seq[i]))
      <4>1. Below(S, R, seq[i]) \in SUBSET S
        BY DEF Below
      <4>. QED BY <4>1, FS_Subset
    <3>3. Cardinality(Below(S, R, seq[j])) <= Cardinality(Below(S, R, seq[i]))
      BY <3>1, <3>2, FS_Subset
    <3>4. Cardinality(Below(S, R, seq[i])) = i - 1 /\ Cardinality(Below(S, R, seq[j])) = j - 1
      BY <1>5
    <3>. QED BY <3>3, <3>4, <1>6, <1>2
  <2>. QED BY <2>1, <2>2, <1>5 DEF StrictOrder
<1>. QED BY <1>2, <1>6 DEF seq

Increasing(order) == \A i, j \in DOMAIN order : i < j => order[i] < order[j]

\* Numbers in their order.
LEMMA NumbersSorted ==
    ASSUME NEW P \in SUBSET Nat, IsFiniteSet(P)
    PROVE  /\ Lists(Sorted(P, <), P) /\ Sorted(P, <) \in Seq(P) /\ Increasing(Sorted(P, <))
<1> DEFINE R == {p \in P \X P : p[1] < p[2]}
           rank == [x \in P |-> Cardinality({y \in P : y < x})]
<1>1. StrictOrder(R, P)
  BY DEF StrictOrder
<1>2. \A x \in P : rank[x] = Cardinality(Below(P, R, x))
  <2>1. \A x \in P : {y \in P : y < x} = Below(P, R, x)
    BY DEF Below
  <2>. HIDE DEF R
  <2>. QED BY <2>1
<1> DEFINE seq == Ranked(P, rank)
<1>3. Sorted(P, <) = seq
  BY DEF Sorted
<1>. HIDE DEF rank, R
<1>4. Lists(seq, P) /\ seq \in Seq(P)
  BY <1>1, <1>2, RankedInOrder
<1>5. \A i, j \in DOMAIN seq : i < j => <<seq[i], seq[j]>> \in R
  BY <1>1, <1>2, RanksGrow
<1>. HIDE DEF seq
<1>6. Increasing(seq)
  BY <1>5 DEF Increasing, R
<1>. QED BY <1>3, <1>4, <1>6

PickedBy(kept, order, places, seq) ==
    /\ Lists(order, places) /\ Increasing(order)
    /\ DOMAIN kept = DOMAIN order /\ \A n \in DOMAIN order : kept[n] = seq[order[n]]

LEMMA PickedIs ==
    ASSUME NEW E, NEW seq \in Seq(E), NEW places \in SUBSET (1..Len(seq))
    PROVE  /\ Picked(seq, places) \in Seq(E) /\ IsFiniteSet(places)
           /\ Len(Picked(seq, places)) = Cardinality(places)
           /\ \E order : PickedBy(Picked(seq, places), order, places, seq)
<1> DEFINE order == Sorted(places, <)
           kept == Picked(seq, places)
<1>1. Len(seq) \in Nat /\ DOMAIN seq = 1..Len(seq) /\ \A i \in DOMAIN seq : seq[i] \in E
  OBVIOUS
<1>2. IsFiniteSet(places) /\ places \in SUBSET Nat
  <2>1. 1 \in Int /\ Len(seq) \in Int
    BY <1>1
  <2>2. IsFiniteSet(1..Len(seq))
    BY <2>1, FS_Interval
  <2>3. IsFiniteSet(places)
    BY <2>2, FS_Subset
  <2>. QED BY <2>3, <1>1
<1>3. Lists(order, places) /\ Increasing(order)
  BY <1>2, NumbersSorted
<1>4. kept = [n \in DOMAIN order |-> seq[order[n]]]
  BY DEF Picked
<1>. HIDE DEF order, kept
<1>5. /\ DOMAIN order = 1..Cardinality(places) /\ Cardinality(places) \in Nat
      /\ \A n \in DOMAIN order : order[n] \in 1..Len(seq)
  BY <1>3 DEF Lists
<1>6. kept \in [1..Cardinality(places) -> E]
  BY <1>1, <1>4, <1>5
<1>7. kept \in Seq(E) /\ Len(kept) = Cardinality(places)
  BY <1>5, <1>6
<1>8. PickedBy(kept, order, places, seq)
  BY <1>3, <1>4 DEF PickedBy
<1>. QED BY <1>2, <1>7, <1>8 DEF kept

\* What a loop keeps: what stands at the places that are left, once.
Keeps(kept, left, seq) ==
    /\ \A i \in 1..Len(kept) : \E j \in left : kept[i] = seq[j]
    /\ \A j \in left : \E i \in 1..Len(kept) : kept[i] = seq[j]
    /\ IsFiniteSet(left) /\ Len(kept) = Cardinality(left)
    /\ (\A i, j \in 1..Len(seq) : seq[i] = seq[j] => i = j) =>
          \A i, j \in 1..Len(kept) : kept[i] = kept[j] => i = j

Without(seq, dropped) == Picked(seq, {i \in DOMAIN seq : seq[i] \notin dropped})

LEMMA WithoutKeeps ==
    ASSUME NEW E, NEW seq \in Seq(E), NEW D
    PROVE  /\ Without(seq, D) \in Seq(E)
           /\ Keeps(Without(seq, D), {i \in 1..Len(seq) : seq[i] \notin D}, seq)
<1> DEFINE left == {i \in 1..Len(seq) : seq[i] \notin D}
           kept == Picked(seq, left)
<1>1. Without(seq, D) = kept
  <2>1. DOMAIN seq = 1..Len(seq)
    OBVIOUS
  <2>. QED BY <2>1 DEF Without
<1>2. left \in SUBSET (1..Len(seq))
  OBVIOUS
<1>. HIDE DEF left
<1>3. kept \in Seq(E) /\ IsFiniteSet(left) /\ Len(kept) = Cardinality(left)
  BY <1>2, PickedIs
<1>4. PICK order : PickedBy(kept, order, left, seq)
  BY <1>2, PickedIs
<1>. HIDE DEF kept
<1>5. DOMAIN kept = 1..Len(kept)
  BY <1>3
<1>6. /\ DOMAIN order = 1..Len(kept) /\ \A n \in 1..Len(kept) : kept[n] = seq[order[n]]
      /\ \A n \in 1..Len(kept) : order[n] \in left
      /\ \A j \in left : \E n \in 1..Len(kept) : order[n] = j
      /\ \A m, n \in 1..Len(kept) : order[m] = order[n] => m = n
  BY <1>4, <1>5 DEF PickedBy, Lists
<1>7. \A i \in 1..Len(kept) : kept[i] = seq[order[i]] /\ order[i] \in 1..Len(seq)
  BY <1>2, <1>6
<1>8. /\ \A i \in 1..Len(kept) : \E j \in left : kept[i] = seq[j]
      /\ \A j \in left : \E i \in 1..Len(kept) : kept[i] = seq[j]
  BY <1>6
<1>9. (\A i, j \in 1..Len(seq) : seq[i] = seq[j] => i = j) =>
        \A i, j \in 1..Len(kept) : kept[i] = kept[j] => i = j
  BY <1>6, <1>7
<1>10. Keeps(kept, left, seq)
  BY <1>3, <1>8, <1>9 DEF Keeps
<1>. QED BY <1>1, <1>3, <1>10 DEF left

-----------------------------------------------------------------------------
(* Sequences that are joined, sorted in one way and shortened. *)

Joins(s, t, whole) ==
    /\ Len(whole) = Len(s) + Len(t)
    /\ \A p \in 1..Len(s) : whole[p] = s[p]
    /\ \A n \in 1..Len(t) : whole[Len(s) + n] = t[n]

LEMMA JoinIs ==
    ASSUME NEW E, NEW s \in Seq(E), NEW t \in Seq(E)
    PROVE  Joins(s, t, s \o t)
<1>1. Len(s \o t) = Len(s) + Len(t)
  OBVIOUS
<1>2. \A p \in 1..Len(s) : (s \o t)[p] = s[p]
  OBVIOUS
<1>3. ASSUME NEW n \in 1..Len(t) PROVE (s \o t)[Len(s) + n] = t[n]
  <2>1. Len(s) + n \in 1..(Len(s) + Len(t)) /\ ~(Len(s) + n <= Len(s)) /\ (Len(s) + n) - Len(s) = n
    OBVIOUS
  <2>. QED BY <2>1
<1>. QED BY <1>1, <1>2, <1>3 DEF Joins

\* What is made one for one is as many.
LEMMA ManyAs ==
    ASSUME NEW S, IsFiniteSet(S), NEW f, NEW T, T = {f[x] : x \in S},
           \A x, y \in S : f[x] = f[y] => x = y
    PROVE  IsFiniteSet(T) /\ Cardinality(T) = Cardinality(S) /\ Cardinality(T) \in Nat
<1> DEFINE g == [x \in S |-> f[x]]
<1>1. g \in Surjection(S, T)
  BY DEF Surjection
<1>2. g \in Injection(S, T)
  BY DEF Injection, IsInjective
<1>. HIDE DEF g
<1>3. IsFiniteSet(T) /\ Cardinality(T) = Cardinality(S)
  BY <1>1, <1>2, FS_Surjection
<1>. QED BY <1>3, FS_CardinalityType

LEMMA CountTo ==
    ASSUME NEW n \in Nat
    PROVE  IsFiniteSet(1..n) /\ Cardinality(1..n) = n
<1>1. 1 \in Int /\ n \in Int
  OBVIOUS
<1>2. IsFiniteSet(1..n) /\ Cardinality(1..n) = IF 1 > n THEN 0 ELSE n - 1 + 1
  BY <1>1, FS_Interval
<1>. QED BY <1>2

Smaller(P, x) == {y \in P : y < x}
FirstOnes(order, i) == {order[j] : j \in 1..(i - 1)}

\* Every place of an increasing list tells how many are below.
Enumerates(order, P, n) ==
    /\ DOMAIN order = 1..n /\ order = [i \in 1..n |-> order[i]]
    /\ \A i \in 1..n : order[i] \in P
    /\ \A x \in P : \E i \in 1..n : order[i] = x
    /\ \A i, j \in 1..n : i < j => order[i] < order[j]

LEMMA PlaceTells ==
    ASSUME NEW P \in SUBSET Nat, NEW order, NEW n \in Nat, Enumerates(order, P, n), NEW i \in 1..n
    PROVE  /\ Smaller(P, order[i]) = FirstOnes(order, i)
           /\ Cardinality(Smaller(P, order[i])) = i - 1
           /\ IsFiniteSet(Smaller(P, order[i]))
<1> DEFINE B == {y \in P : y < order[i]}
           J == 1..(i - 1)
<1>1. \A j, k \in 1..n : order[j] \in Nat /\ (order[j] < order[k] <=> j < k)
  <2>1. \A j \in 1..n : order[j] \in Nat
    BY DEF Enumerates
  <2>2. \A j, k \in 1..n : j < k \/ k < j \/ j = k
    OBVIOUS
  <2>. QED BY <2>1, <2>2 DEF Enumerates
<1>2. J \subseteq 1..n /\ \A j \in 1..n : j < i <=> j \in J
  OBVIOUS
<1>3. B = {order[j] : j \in J}
  <2>. HIDE DEF J
  <2>. QED BY <1>1, <1>2 DEF Enumerates
<1>4. \A j, k \in J : order[j] = order[k] => j = k
  <2>1. \A j, k \in J : j < k \/ k < j \/ j = k
    OBVIOUS
  <2>. HIDE DEF J
  <2>. QED BY <1>1, <1>2, <2>1
<1>5. IsFiniteSet(J) /\ Cardinality(J) = i - 1
  <2>1. i - 1 \in Nat
    OBVIOUS
  <2>. QED BY <2>1, CountTo
<1>6. IsFiniteSet(B) /\ Cardinality(B) = i - 1
  <2>. HIDE DEF B, J
  <2>. QED BY <1>3, <1>4, <1>5, ManyAs
<1>. QED BY <1>3, <1>6 DEF Smaller, FirstOnes

\* A set is sorted in one way only.
LEMMA SortedUnique ==
    ASSUME NEW P \in SUBSET Nat, NEW order, NEW n \in Nat, Enumerates(order, P, n)
    PROVE  Sorted(P, <) = order /\ IsFiniteSet(P) /\ Cardinality(P) = n
<1>1. \A i, j \in 1..n : order[i] = order[j] => i = j
  <2>1. \A i \in 1..n : order[i] \in Nat
    BY DEF Enumerates
  <2>2. \A i, j \in 1..n : i < j \/ j < i \/ i = j
    OBVIOUS
  <2>. QED BY <2>1, <2>2 DEF Enumerates
<1>2. IsFiniteSet(P) /\ Cardinality(P) = n
  <2>1. P = {order[i] : i \in 1..n}
    BY DEF Enumerates
  <2> DEFINE D == 1..n
  <2>2. IsFiniteSet(D) /\ Cardinality(D) = n
    BY CountTo
  <2>3. P = {order[i] : i \in D} /\ \A i, j \in D : order[i] = order[j] => i = j
    BY <1>1, <2>1
  <2>. HIDE DEF D
  <2>. QED BY <2>2, <2>3, ManyAs
<1> DEFINE rank == [x \in P |-> Cardinality({y \in P : y < x})]
<1>3. \A i \in 1..n : order[i] \in P /\ rank[order[i]] = i - 1
  <2>. SUFFICES ASSUME NEW i \in 1..n PROVE order[i] \in P /\ rank[order[i]] = i - 1
    OBVIOUS
  <2>1. order[i] \in P
    BY DEF Enumerates
  <2>2. Cardinality(Smaller(P, order[i])) = i - 1
    BY PlaceTells
  <2>. QED BY <2>1, <2>2 DEF Smaller
<1>4. Sorted(P, <) = [i \in 1..n |-> CHOOSE x \in P : rank[x] = i - 1]
  BY <1>2 DEF Sorted, Ranked
<1>5. \A i \in 1..n : (CHOOSE x \in P : rank[x] = i - 1) = order[i]
  <2>1. \A x \in P : \E j \in 1..n : order[j] = x /\ rank[x] = j - 1
    <3>. HIDE DEF rank
    <3>. QED BY <1>3 DEF Enumerates
  <2>. HIDE DEF rank
  <2>2. \A i \in 1..n : \A x \in P : rank[x] = i - 1 => x = order[i]
    <3>. SUFFICES ASSUME NEW i \in 1..n, NEW x \in P, rank[x] = i - 1 PROVE x = order[i]
      OBVIOUS
    <3>1. PICK j \in 1..n : order[j] = x /\ rank[x] = j - 1
      BY <2>1
    <3>. QED BY <3>1
  <2>. QED BY <1>3, <2>2
<1>6. order = [i \in 1..n |-> order[i]]
  BY DEF Enumerates
<1>. HIDE DEF rank
<1>7. Sorted(P, <) = order
  BY <1>4, <1>5, <1>6
<1>. QED BY <1>2, <1>7

LEMMA SortedEnumerates ==
    ASSUME NEW n \in Nat, NEW P \in SUBSET (1..n)
    PROVE  /\ Enumerates(Sorted(P, <), P, Cardinality(P))
           /\ IsFiniteSet(P) /\ Cardinality(P) \in Nat /\ P \in SUBSET Nat
<1>1. IsFiniteSet(P) /\ P \in SUBSET Nat
  <2>1. IsFiniteSet(1..n)
    BY CountTo
  <2>2. IsFiniteSet(P)
    BY <2>1, FS_Subset
  <2>. QED BY <2>2
<1>2. Cardinality(P) \in Nat
  BY <1>1, FS_CardinalityType
<1>3. Lists(Sorted(P, <), P) /\ Sorted(P, <) \in Seq(P) /\ Increasing(Sorted(P, <))
  BY <1>1, NumbersSorted
<1> DEFINE order == Sorted(P, <)
<1>5. order \in Seq(P)
  BY <1>3
<1>. HIDE DEF order
<1>4. order = [i \in DOMAIN order |-> order[i]]
  BY <1>5
<1>. QED BY <1>1, <1>2, <1>3, <1>4 DEF Enumerates, Lists, Increasing, order

\* What is picked from what was picked is picked at once.
LEMMA PickedTwice ==
    ASSUME NEW E, NEW seq \in Seq(E), NEW P \in SUBSET (1..Len(seq)), NEW Q \in SUBSET P
    PROVE  LET kept == Picked(seq, P)
               order == Sorted(P, <) IN
           Picked(kept, {n \in DOMAIN kept : order[n] \in Q}) = Picked(seq, Q)
<1> DEFINE kept == Picked(seq, P)
           order == Sorted(P, <)
           N == {n \in DOMAIN kept : order[n] \in Q}
           inner == Sorted(N, <)
           c == Cardinality(P)
           m == Cardinality(N)
           both == [k \in 1..m |-> order[inner[k]]]
<1>1. /\ Len(seq) \in Nat /\ Enumerates(order, P, c) /\ c \in Nat /\ P \in SUBSET Nat
  <2>1. Len(seq) \in Nat
    OBVIOUS
  <2>. QED BY <2>1, SortedEnumerates
<1>2. kept = [n \in DOMAIN order |-> seq[order[n]]]
  BY DEF Picked
<1>3. DOMAIN kept = 1..c /\ \A n \in 1..c : kept[n] = seq[order[n]]
  <2>. HIDE DEF order, c, kept
  <2>. QED BY <1>1, <1>2 DEF Enumerates
<1>. HIDE DEF kept, order, c
<1>4. N \in SUBSET (1..c)
  BY <1>3
<1>5. Enumerates(inner, N, m) /\ m \in Nat
  <2>. HIDE DEF N
  <2>. QED BY <1>1, <1>4, SortedEnumerates
<1>. HIDE DEF inner, m
<1>6. \A k \in 1..m : inner[k] \in N /\ inner[k] \in 1..c /\ order[inner[k]] \in Q
  <2>1. \A k \in 1..m : inner[k] \in N
    BY <1>5 DEF Enumerates
  <2>. QED BY <2>1, <1>4
<1>7. Enumerates(both, Q, m)
  <2>1. \A x \in Q : \E k \in 1..m : both[k] = x
    <3>. SUFFICES ASSUME NEW x \in Q PROVE \E k \in 1..m : both[k] = x
      OBVIOUS
    <3>1. PICK n \in 1..c : order[n] = x
      BY <1>1 DEF Enumerates
    <3>2. n \in N
      BY <1>3, <3>1
    <3>. HIDE DEF N
    <3>3. PICK k \in 1..m : inner[k] = n
      BY <1>5, <3>2 DEF Enumerates
    <3>. QED BY <3>1, <3>3
  <2>2. \A i, j \in 1..m : i < j => both[i] < both[j]
    <3>1. \A i, j \in 1..m : i < j => inner[i] < inner[j]
      BY <1>5 DEF Enumerates
    <3>2. \A i, j \in 1..c : i < j => order[i] < order[j]
      BY <1>1 DEF Enumerates
    <3>. HIDE DEF N
    <3>. QED BY <1>6, <3>1, <3>2
  <2>3. \A k \in 1..m : both[k] \in Q
    BY <1>6
  <2>4. both = [k \in 1..m |-> both[k]] /\ DOMAIN both = 1..m
    OBVIOUS
  <2>. HIDE DEF both
  <2>. QED BY <2>1, <2>2, <2>3, <2>4 DEF Enumerates
<1>8. Sorted(Q, <) = both
  <2>1. Q \in SUBSET Nat
    BY <1>1
  <2>. HIDE DEF both
  <2>. QED BY <1>5, <1>7, <2>1, SortedUnique
<1>9. Picked(seq, Q) = [k \in 1..m |-> seq[both[k]]]
  <2>1. DOMAIN both = 1..m
    OBVIOUS
  <2>. HIDE DEF both
  <2>. QED BY <1>8, <2>1 DEF Picked
<1>10. Picked(kept, N) = [k \in 1..m |-> kept[inner[k]]]
  <2>1. DOMAIN inner = 1..m
    BY <1>5 DEF Enumerates
  <2>. HIDE DEF N
  <2>. QED BY <2>1 DEF Picked, inner
<1>11. [k \in 1..m |-> kept[inner[k]]] = [k \in 1..m |-> seq[both[k]]]
  <2>1. \A k \in 1..m : kept[inner[k]] = seq[both[k]]
    BY <1>3, <1>6
  <2>. HIDE DEF both
  <2>. QED BY <2>1
<1>. QED BY <1>9, <1>10, <1>11 DEF kept, order

\* What is left of a sequence when one place is lost.
After1(i, p) == IF p < i THEN p ELSE p + 1
LEMMA RemovedIs ==
    ASSUME NEW E, NEW seq \in Seq(E), NEW i \in 1..Len(seq)
    PROVE  LET left == RemoveAt(seq, i) IN
           /\ left \in Seq(E) /\ Len(left) = Len(seq) - 1
           /\ \A p \in 1..(Len(seq) - 1) :
                /\ left[p] = seq[After1(i, p)]
                /\ After1(i, p) \in (1..Len(seq)) \ {i}
           /\ \A p, q \in 1..(Len(seq) - 1) : After1(i, p) = After1(i, q) => p = q
<1> DEFINE s == SubSeq(seq, 1, i - 1)
           t == SubSeq(seq, i + 1, Len(seq))
           left == s \o t
<1>1. Len(seq) \in Nat /\ i \in Nat /\ i >= 1 /\ i <= Len(seq)
  OBVIOUS
<1>2. s \in Seq(E) /\ Len(s) = i - 1 /\ \A p \in 1..(i - 1) : s[p] = seq[p]
  OBVIOUS
<1>3. t \in Seq(E) /\ Len(t) = Len(seq) - i /\ \A p \in 1..(Len(seq) - i) : t[p] = seq[i + p]
  OBVIOUS
<1>. HIDE DEF s, t
<1>4. left \in Seq(E) /\ Len(left) = Len(seq) - 1
  BY <1>1, <1>2, <1>3
<1>5. /\ \A p \in 1..Len(s) : left[p] = s[p]
      /\ \A n \in 1..Len(t) : left[Len(s) + n] = t[n]
  <2>1. Joins(s, t, left)
    BY <1>2, <1>3, JoinIs
  <2>. HIDE DEF left
  <2>. QED BY <2>1 DEF Joins
<1>. HIDE DEF left
<1>6. ASSUME NEW p \in 1..(Len(seq) - 1)
      PROVE  left[p] = seq[After1(i, p)] /\ After1(i, p) \in (1..Len(seq)) \ {i}
  <2>1. CASE p < i
    <3>1. p \in 1..(i - 1)
      BY <2>1, <1>1
    <3>. QED BY <2>1, <3>1, <1>1, <1>2, <1>5 DEF After1
  <2>2. CASE ~(p < i)
    <3> DEFINE n == p - (i - 1)
    <3>1. n \in 1..(Len(seq) - i) /\ (i - 1) + n = p /\ i + n = p + 1
      BY <2>2, <1>1
    <3>. HIDE DEF n
    <3>2. left[p] = t[n] /\ t[n] = seq[i + n]
      BY <3>1, <1>2, <1>3, <1>5
    <3>3. After1(i, p) = p + 1
      BY <2>2 DEF After1
    <3>4. p + 1 \in (1..Len(seq)) \ {i}
      BY <2>2, <1>1
    <3>. QED BY <3>1, <3>2, <3>3, <3>4
  <2>. QED BY <2>1, <2>2
<1>7. \A p, q \in 1..(Len(seq) - 1) : After1(i, p) = After1(i, q) => p = q
  BY <1>1 DEF After1
<1>8. RemoveAt(seq, i) = left
  BY DEF RemoveAt, left, s, t
<1>. QED BY <1>4, <1>6, <1>7, <1>8

KeyBefore(key, i, j) == key[i] < key[j] \/ (key[i] = key[j] /\ i < j)

\* A stable sort by a number lists the places, in order of the number.
LEMMA StablyIs ==
    ASSUME NEW n \in Nat, NEW key, DOMAIN key = 1..n, \A i \in 1..n : key[i] \in Nat
    PROVE  /\ Lists(Stably(key), 1..n)
           /\ \A k, l \in 1..n : k < l => KeyBefore(key, Stably(key)[k], Stably(key)[l])
<1> DEFINE D == 1..n
           R == {p \in D \X D : KeyBefore(key, p[1], p[2])}
           rank == [x \in D |-> Cardinality({y \in D : KeyBefore(key, y, x)})]
<1>2. IsFiniteSet(D) /\ Cardinality(D) = n
  BY CountTo
<1>3. \A i, j \in D : <<i, j>> \in R <=> KeyBefore(key, i, j)
  OBVIOUS
<1>4. StrictOrder(R, D)
  <2>1. \A i \in D : ~KeyBefore(key, i, i)
    BY DEF KeyBefore
  <2>2. \A i, j \in D : i = j \/ KeyBefore(key, i, j) \/ KeyBefore(key, j, i)
    BY DEF KeyBefore
  <2>3. \A i, j, k \in D : KeyBefore(key, i, j) /\ KeyBefore(key, j, k) => KeyBefore(key, i, k)
    BY DEF KeyBefore
  <2>. HIDE DEF R, D
  <2>. QED BY <1>3, <2>1, <2>2, <2>3 DEF StrictOrder
<1>5. \A x \in D : rank[x] = Cardinality(Below(D, R, x))
  <2>1. \A x \in D : {y \in D : KeyBefore(key, y, x)} = Below(D, R, x)
    BY <1>3 DEF Below
  <2>. HIDE DEF R
  <2>. QED BY <2>1
<1>6. Stably(key) = Ranked(D, rank)
  BY DEF Stably, Sorted, KeyBefore
<1> DEFINE seq == Ranked(D, rank)
<1>. HIDE DEF R, rank, D
<1>7. Lists(seq, D)
  BY <1>2, <1>4, <1>5, RankedInOrder
<1>8. \A i, j \in DOMAIN seq : i < j => <<seq[i], seq[j]>> \in R
  BY <1>2, <1>4, <1>5, RanksGrow
<1>. HIDE DEF seq
<1>9. DOMAIN seq = D
  BY <1>2, <1>7 DEF Lists, D
<1>10. \A k, l \in D : k < l => KeyBefore(key, seq[k], seq[l])
  <2>1. \A k \in D : seq[k] \in D
    BY <1>7, <1>9 DEF Lists
  <2>. QED BY <1>3, <1>8, <1>9, <2>1
<1>. QED BY <1>6, <1>7, <1>10 DEF seq, D

-----------------------------------------------------------------------------
(* Counts that make up a whole. *)

SumOfKinds(items, S) == MapThenSumSet(LAMBDA k : KindCount(items, k), S)

LEMMA KindsMakeTheWhole ==
    ASSUME NEW n \in Nat, NEW items, DOMAIN items = 1..n, NEW S, IsFiniteSet(S),
           \A i \in 1..n : items[i].kind \in S
    PROVE  SumOfKinds(items, S) = n
<1>0. IsFiniteSet(1..n) /\ Cardinality(1..n) = n
  <2>1. 1 \in Int /\ n \in Int
    OBVIOUS
  <2>. QED BY <2>1, FS_Interval
<1> DEFINE One(s) == CHOOSE x \in s : TRUE
           Rows(s) == {i \in 1..n : items[i].kind \in s}
           count == [s \in SUBSET S |-> Cardinality(Rows(s))]
           Body(g) == [s \in SUBSET S |->
                         IF s = {} THEN 0 ELSE KindCount(items, One(s)) + g[s \ {One(s)}]]
           fold == CHOOSE h : h = Body(h)
<1>1. SumOfKinds(items, S) = fold[S]
  BY DEF SumOfKinds, MapThenSumSet, MapThenFoldSet
<1>2. \A s \in SUBSET S : IsFiniteSet(Rows(s)) /\ Cardinality(Rows(s)) \in Nat
  <2>1. IsFiniteSet(1..n)
    BY <1>0
  <2>2. \A s \in SUBSET S : Rows(s) \in SUBSET (1..n)
    OBVIOUS
  <2>. HIDE DEF Rows
  <2>. QED BY <2>1, <2>2, FS_Subset, FS_CardinalityType
<1>3. ASSUME NEW s \in SUBSET S, s # {}
      PROVE  count[s] = KindCount(items, One(s)) + count[s \ {One(s)}]
  <2> DEFINE k == One(s)
             these == {i \in 1..n : items[i].kind = k}
  <2>1. k \in s /\ s \ {k} \in SUBSET S
    BY <1>3
  <2>. HIDE DEF k
  <2>2. Rows(s) = these \cup Rows(s \ {k}) /\ these \cap Rows(s \ {k}) = {}
    BY <2>1
  <2>3. IsFiniteSet(these)
    <3>1. IsFiniteSet(1..n)
      BY <1>0
    <3>2. these \in SUBSET (1..n)
      OBVIOUS
    <3>. HIDE DEF these
    <3>. QED BY <3>1, <3>2, FS_Subset
  <2>4. KindCount(items, k) = Cardinality(these)
    BY DEF KindCount
  <2>5. Cardinality(these) \in Nat /\ Cardinality(Rows(s \ {k})) \in Nat /\ IsFiniteSet(Rows(s \ {k}))
    <3>. HIDE DEF these, Rows
    <3>. QED BY <2>1, <2>3, <1>2, FS_CardinalityType
  <2>6. Cardinality(Rows(s)) = Cardinality(these) + Cardinality(Rows(s \ {k}))
    <3>1. Cardinality(these \cup Rows(s \ {k})) =
             Cardinality(these) + Cardinality(Rows(s \ {k}))
               - Cardinality(these \cap Rows(s \ {k}))
      <4>. HIDE DEF these, Rows
      <4>. QED BY <2>3, <2>5, FS_Union
    <3>2. Cardinality({}) = 0
      BY FS_EmptySet
    <3>. HIDE DEF these, Rows
    <3>3. Cardinality(these \cap Rows(s \ {k})) = 0
      BY <2>2, <3>2
    <3>. QED BY <2>2, <2>5, <3>1, <3>3
  <2>7. count[s] = Cardinality(Rows(s)) /\ count[s \ {k}] = Cardinality(Rows(s \ {k}))
    <3>. HIDE DEF Rows
    <3>. QED BY <2>1
  <2>8. count[s] = KindCount(items, k) + count[s \ {k}]
    <3>. HIDE DEF Rows, these, count
    <3>. QED BY <2>4, <2>6, <2>7
  <2>. HIDE DEF count
  <2>. QED BY <2>8 DEF k
<1>4. count[{}] = 0
  <2>1. Rows({}) = {} /\ {} \in SUBSET S
    OBVIOUS
  <2>. HIDE DEF Rows
  <2>. QED BY <2>1, FS_EmptySet
<1>5. count = Body(count)
  <2>1. \A s \in SUBSET S : s # {} =>
          count[s] = KindCount(items, One(s)) + count[s \ {One(s)}]
    <3>. HIDE DEF One, count
    <3>. QED BY <1>3
  <2>2. count = [s \in SUBSET S |-> count[s]]
    OBVIOUS
  <2>. HIDE DEF count, One
  <2>. QED BY <2>1, <2>2, <1>4
<1>6. fold = Body(fold)
  <2>. HIDE DEF Body, count
  <2>. QED BY <1>5
<1>. HIDE DEF fold
<1>7. ASSUME NEW s \in SUBSET S
      PROVE  fold[s] = IF s = {} THEN 0 ELSE KindCount(items, One(s)) + fold[s \ {One(s)}]
  <2>. HIDE DEF One
  <2>. QED BY <1>6
<1>8. \A s \in SUBSET S : fold[s] = count[s]
  <2> DEFINE Bad == {s \in SUBSET S : fold[s] # count[s]}
  <2>. SUFFICES ASSUME Bad # {} PROVE FALSE
    OBVIOUS
  <2>1. IsWellFoundedOn(StrictSubsetOrdering(S), SUBSET S)
    BY FS_StrictSubsetOrderingWellFounded, FS_FiniteSubsetsOfFinite
  <2>2. \E s \in Bad : \A y \in Bad : ~(<<y, s>> \in StrictSubsetOrdering(S))
    <3>1. Bad \subseteq SUBSET S
      OBVIOUS
    <3>. HIDE DEF Bad
    <3>. QED BY <2>1, <3>1, WFMin
  <2>3. PICK s \in Bad : \A y \in Bad : ~(<<y, s>> \in StrictSubsetOrdering(S))
    BY <2>2
  <2>4. s \in SUBSET S /\ fold[s] # count[s]
    OBVIOUS
  <2>5. s # {}
    <3>. HIDE DEF count
    <3>. QED BY <2>4, <1>4, <1>7
  <2> DEFINE x == One(s)
  <2>6. x \in s /\ s \ {x} \in SUBSET S
    BY <2>4, <2>5
  <2>. HIDE DEF x, count
  <2>7. fold[s \ {x}] = count[s \ {x}]
    <3>1. <<s \ {x}, s>> \in StrictSubsetOrdering(S)
      BY <2>4, <2>6 DEF StrictSubsetOrdering
    <3>. QED BY <2>3, <2>6, <3>1
  <2>8. fold[s] = KindCount(items, x) + fold[s \ {x}]
    <3>. HIDE DEF One
    <3>. QED BY <2>4, <2>5, <1>7 DEF x
  <2>9. count[s] = KindCount(items, x) + count[s \ {x}]
    <3>. HIDE DEF One
    <3>. QED BY <2>4, <2>5, <1>3 DEF x
  <2>. QED BY <2>4, <2>7, <2>8, <2>9
<1>9. count[S] = n
  <2>1. Rows(S) = 1..n /\ S \in SUBSET S
    OBVIOUS
  <2>2. Cardinality(1..n) = n
    BY <1>0
  <2>. HIDE DEF Rows
  <2>. QED BY <2>1, <2>2
<1>. HIDE DEF count
<1>. QED BY <1>1, <1>8, <1>9

-----------------------------------------------------------------------------
(* Sums over finite sets. *)

Some(s) == CHOOSE x \in s : TRUE
Weighs(w, S) == IsFiniteSet(S) /\ \A x \in S : w[x] \in Nat

\* The table of the sums of all subsets.
SumsUp(g, S, w) ==
    /\ g \in [SUBSET S -> Nat] /\ g[{}] = 0
    /\ \A s \in SUBSET S : s # {} => g[s] = w[Some(s)] + g[s \ {Some(s)}]

LEMMA SmallerByOne ==
    ASSUME NEW S, IsFiniteSet(S), NEW x \in S
    PROVE  /\ IsFiniteSet(S \ {x}) /\ Cardinality(S \ {x}) = Cardinality(S) - 1
           /\ Cardinality(S) \in Nat \ {0} /\ Cardinality(S \ {x}) \in Nat
<1>1. IsFiniteSet(S \ {x}) /\ Cardinality(S \ {x}) = Cardinality(S) - 1
  BY FS_RemoveElement
<1>2. Cardinality(S) \in Nat /\ Cardinality(S \ {x}) \in Nat
  BY <1>1, FS_CardinalityType
<1>. QED BY <1>1, <1>2

LEMMA SumsExist ==
    ASSUME NEW S, NEW w, Weighs(w, S)
    PROVE  \E g : SumsUp(g, S, w)
<1> DEFINE n == Cardinality(S)
           Small(k) == {s \in SUBSET S : Cardinality(s) <= k}
           Is(g, k) == /\ g \in [Small(k) -> Nat] /\ g[{}] = 0
                       /\ \A s \in Small(k) : s # {} => g[s] = w[Some(s)] + g[s \ {Some(s)}]
           K == {k \in 0..n : \E g : Is(g, k)}
<1>0. \A s \in SUBSET S : IsFiniteSet(s) /\ Cardinality(s) \in Nat /\ Cardinality(s) <= n
  BY FS_Subset, FS_CardinalityType DEF Weighs
<1>1. n \in Nat
  BY FS_CardinalityType DEF Weighs
<1>2. \A s \in SUBSET S : s # {} => Some(s) \in s
  BY DEF Some
<1>3. \A s \in SUBSET S : s # {} =>
         /\ w[Some(s)] \in Nat /\ s \ {Some(s)} \in SUBSET S
         /\ Cardinality(s \ {Some(s)}) = Cardinality(s) - 1
  <2>. SUFFICES ASSUME NEW s \in SUBSET S, s # {}
                PROVE  /\ w[Some(s)] \in Nat /\ s \ {Some(s)} \in SUBSET S
                       /\ Cardinality(s \ {Some(s)}) = Cardinality(s) - 1
    OBVIOUS
  <2>1. Some(s) \in s /\ IsFiniteSet(s)
    BY <1>0, <1>2
  <2>2. Cardinality(s \ {Some(s)}) = Cardinality(s) - 1
    BY <2>1, SmallerByOne
  <2>. QED BY <2>1, <2>2 DEF Weighs
<1>4. \A s \in SUBSET S : Cardinality(s) = 0 <=> s = {}
  BY <1>0, FS_EmptySet
<1>5. 0 \in K
  <2> DEFINE g == [s \in Small(0) |-> 0]
  <2>1. \A s \in Small(0) : s = {}
    BY <1>0, <1>4
  <2>2. {} \in Small(0)
    BY <1>4
  <2>3. Is(g, 0)
    BY <2>1, <2>2
  <2>. HIDE DEF Is
  <2>. QED BY <1>1, <2>3
<1>6. ASSUME NEW k \in 0..(n - 1), k \in K PROVE k + 1 \in K
  <2>1. PICK g : Is(g, k)
    BY <1>6
  <2> DEFINE h == [s \in Small(k + 1) |->
                     IF Cardinality(s) <= k THEN g[s] ELSE w[Some(s)] + g[s \ {Some(s)}]]
  <2>2. \A s \in Small(k + 1) : /\ s \in SUBSET S /\ Cardinality(s) \in Nat
                                /\ Cardinality(s) <= k => s \in Small(k)
                                /\ ~(Cardinality(s) <= k) => s # {} /\ Cardinality(s) = k + 1
    BY <1>0, <1>4
  <2>3. \A s \in Small(k + 1) : s # {} =>
           s \ {Some(s)} \in Small(k) /\ s \ {Some(s)} \in Small(k + 1)
    BY <1>0, <1>1, <1>3
  <2>4. {} \in Small(k) /\ {} \in Small(k + 1) /\ Cardinality({}) <= k
    BY <1>1, <1>4
  <2>5. \A s \in Small(k) : g[s] \in Nat /\ Cardinality(s) <= k
    BY <2>1
  <2>6. h \in [Small(k + 1) -> Nat]
    <3>. HIDE DEF Small, Is
    <3>1. ASSUME NEW s \in Small(k + 1)
          PROVE  (IF Cardinality(s) <= k THEN g[s] ELSE w[Some(s)] + g[s \ {Some(s)}]) \in Nat
      <4>1. CASE Cardinality(s) <= k
        BY <2>2, <2>5, <4>1
      <4>2. CASE ~(Cardinality(s) <= k)
        <5>1. s # {} /\ s \in SUBSET S
          BY <2>2, <4>2
        <5>2. w[Some(s)] \in Nat /\ g[s \ {Some(s)}] \in Nat
          BY <1>3, <2>3, <2>5, <5>1
        <5>. QED BY <4>2, <5>2
      <4>. QED BY <4>1, <4>2
    <3>. QED BY <3>1
  <2>7. \A s \in Small(k + 1) : Cardinality(s) <= k => h[s] = g[s]
    OBVIOUS
  <2>8. \A s \in Small(k + 1) : ~(Cardinality(s) <= k) => h[s] = w[Some(s)] + g[s \ {Some(s)}]
    OBVIOUS
  <2>9. h[{}] = 0
    <3>. HIDE DEF h, Small
    <3>. QED BY <2>1, <2>4, <2>7
  <2>10. ASSUME NEW s \in Small(k + 1), s # {} PROVE h[s] = w[Some(s)] + h[s \ {Some(s)}]
    <3>. HIDE DEF h
    <3>1. h[s \ {Some(s)}] = g[s \ {Some(s)}]
      <4>. HIDE DEF Small, Is
      <4>. QED BY <2>3, <2>5, <2>7, <2>10
    <3>2. h[s] = w[Some(s)] + g[s \ {Some(s)}]
      <4>1. Cardinality(s) <= k => g[s] = w[Some(s)] + g[s \ {Some(s)}]
        BY <2>1, <2>2, <2>10
      <4>. HIDE DEF Small, Is
      <4>. QED BY <2>7, <2>8, <4>1
    <3>. QED BY <3>1, <3>2
  <2>11. Is(h, k + 1)
    <3>. HIDE DEF h, Small
    <3>. QED BY <2>6, <2>9, <2>10
  <2>12. k + 1 \in 0..n
    BY <1>1
  <2>. HIDE DEF Is
  <2>. QED BY <2>11, <2>12
<1>7. n \in K
  <2>. HIDE DEF K, n
  <2>1. 0..n \subseteq K
    BY <1>1, <1>5, <1>6, Induction
  <2>. QED BY <1>1, <2>1
<1>8. Small(n) = SUBSET S
  BY <1>0
<1>9. PICK g : Is(g, n)
  BY <1>7
<1>. QED BY <1>8, <1>9 DEF SumsUp

\* Of sets of which something fails there is one for whose proper subsets it does not.
LEMMA LeastSet ==
    ASSUME NEW S, IsFiniteSet(S), NEW Bad \in SUBSET (SUBSET S), Bad # {}
    PROVE  \E s \in Bad : \A t \in SUBSET s : t # s => t \notin Bad
<1>1. IsWellFoundedOn(StrictSubsetOrdering(S), SUBSET S)
  BY FS_StrictSubsetOrderingWellFounded, FS_FiniteSubsetsOfFinite
<1>2. \E s \in Bad : \A y \in Bad : ~(<<y, s>> \in StrictSubsetOrdering(S))
  BY <1>1, WFMin
<1>. QED BY <1>2 DEF StrictSubsetOrdering

LEMMA SumsAreOne ==
    ASSUME NEW S, IsFiniteSet(S), NEW w, NEW g, NEW h, SumsUp(g, S, w), SumsUp(h, S, w)
    PROVE  \A s \in SUBSET S : g[s] = h[s]
<1> DEFINE Bad == {s \in SUBSET S : g[s] # h[s]}
<1>. SUFFICES ASSUME Bad # {} PROVE FALSE
  OBVIOUS
<1>1. PICK s \in Bad : \A t \in SUBSET s : t # s => t \notin Bad
  <2>. HIDE DEF Bad
  <2>1. Bad \in SUBSET (SUBSET S)
    BY DEF Bad
  <2>. QED BY <2>1, LeastSet
<1>2. s \in SUBSET S /\ s # {}
  BY DEF SumsUp
<1>3. Some(s) \in s
  BY <1>2 DEF Some
<1>4. g[s \ {Some(s)}] = h[s \ {Some(s)}]
  BY <1>1, <1>2, <1>3
<1>. QED BY <1>2, <1>4 DEF SumsUp

\* The sum the library computes is that of the table.
LEMMA SumsAreTotals ==
    ASSUME NEW S, NEW w, Weighs(w, S)
    PROVE  \E g : SumsUp(g, S, w) /\ \A s \in SUBSET S : Total(w, s) = g[s]
<1>1. PICK g : SumsUp(g, S, w)
  BY SumsExist
<1>2. ASSUME NEW s \in SUBSET S PROVE Total(w, s) = g[s]
  <2> DEFINE Body(h) == [t \in SUBSET s |-> IF t = {} THEN 0 ELSE w[Some(t)] + h[t \ {Some(t)}]]
             fold == CHOOSE h : h = Body(h)
             r == [t \in SUBSET s |-> g[t]]
  <2>1. Total(w, s) = fold[s]
    BY DEF Total, FoldFunctionOnSet, MapThenFoldSet, Some
  <2>2. \A t \in SUBSET s : t \in SUBSET S /\ r[t] = g[t]
    OBVIOUS
  <2>3. \A t \in SUBSET s : t # {} => t \ {Some(t)} \in SUBSET s
    OBVIOUS
  <2>4. r \in [SUBSET s -> Nat]
    <3>1. \A t \in SUBSET s : g[t] \in Nat
      BY <1>1, <2>2 DEF SumsUp
    <3>. QED BY <3>1
  <2>5. SumsUp(r, s, w)
    <3>1. {} \in SUBSET s
      OBVIOUS
    <3>. HIDE DEF r
    <3>. QED BY <1>1, <2>2, <2>3, <2>4, <3>1 DEF SumsUp
  <2>6. r = [t \in SUBSET s |-> r[t]]
    OBVIOUS
  <2>7. r = Body(r)
    <3>. HIDE DEF r
    <3>. QED BY <2>5, <2>6 DEF SumsUp
  <2>8. fold = Body(fold)
    <3>. HIDE DEF Body, r
    <3>. QED BY <2>7
  <2>. HIDE DEF fold
  <2>9. \A t \in SUBSET s : fold[t] = IF t = {} THEN 0 ELSE w[Some(t)] + fold[t \ {Some(t)}]
    BY <2>8
  <2> DEFINE Bad == {t \in SUBSET s : fold[t] # r[t]}
  <2>10. Bad = {}
    <3>. SUFFICES ASSUME Bad # {} PROVE FALSE
      OBVIOUS
    <3>1. PICK t \in Bad : \A u \in SUBSET t : u # t => u \notin Bad
      <4>1. IsFiniteSet(s)
        BY FS_Subset DEF Weighs
      <4>2. Bad \in SUBSET (SUBSET s)
        OBVIOUS
      <4>. HIDE DEF Bad
      <4>. QED BY <4>1, <4>2, LeastSet
    <3>2. t \in SUBSET s /\ fold[t] # r[t]
      OBVIOUS
    <3>. HIDE DEF r
    <3>3. t # {}
      BY <2>5, <2>9, <3>2 DEF SumsUp
    <3>4. Some(t) \in t
      BY <3>3 DEF Some
    <3>5. t \ {Some(t)} \in SUBSET s /\ t \ {Some(t)} \notin Bad
      BY <3>1, <3>2, <3>4
    <3>6. fold[t \ {Some(t)}] = r[t \ {Some(t)}]
      BY <3>5
    <3>. QED BY <2>5, <2>9, <3>2, <3>3, <3>6 DEF SumsUp
  <2>11. fold[s] = r[s]
    BY <2>10
  <2>. QED BY <2>1, <2>2, <2>11
<1>. QED BY <1>1, <1>2

\* The order in which a sum is taken is of no matter.
InAnyOrder(g, S, w) == \A s \in SUBSET S : \A x \in s : g[s] = w[x] + g[s \ {x}]

LEMMA AnyFirst ==
    ASSUME NEW S, NEW w, Weighs(w, S), NEW g, SumsUp(g, S, w)
    PROVE  InAnyOrder(g, S, w)
<1>. SUFFICES \A s \in SUBSET S : \A x \in s : g[s] = w[x] + g[s \ {x}]
  BY DEF InAnyOrder
<1> DEFINE Bad == {s \in SUBSET S : \E x \in s : g[s] # w[x] + g[s \ {x}]}
<1>. SUFFICES ASSUME Bad # {} PROVE FALSE
  OBVIOUS
<1>1. PICK s \in Bad : \A t \in SUBSET s : t # s => t \notin Bad
  <2>1. IsFiniteSet(S) /\ Bad \in SUBSET (SUBSET S)
    BY DEF Weighs
  <2>. HIDE DEF Bad
  <2>. QED BY <2>1, LeastSet
<1>2. PICK x \in s : g[s] # w[x] + g[s \ {x}]
  OBVIOUS
<1> DEFINE y == Some(s)
<1>3. s \in SUBSET S /\ y \in s
  BY DEF Some
<1>4. g[s] = w[y] + g[s \ {y}]
  BY <1>3 DEF SumsUp
<1>. HIDE DEF y
<1>5. x # y
  BY <1>2, <1>4
<1> DEFINE both == s \ {x, y}
<1>6. g[s \ {y}] = w[x] + g[both]
  <2>1. s \ {y} \in SUBSET s /\ s \ {y} # s /\ x \in s \ {y} /\ (s \ {y}) \ {x} = both
    BY <1>3, <1>5
  <2>2. s \ {y} \notin Bad
    BY <1>1, <2>1
  <2>. QED BY <1>3, <2>1, <2>2
<1>7. g[s \ {x}] = w[y] + g[both]
  <2>1. s \ {x} \in SUBSET s /\ s \ {x} # s /\ y \in s \ {x} /\ (s \ {x}) \ {y} = both
    BY <1>3, <1>5
  <2>2. s \ {x} \notin Bad
    BY <1>1, <2>1
  <2>. QED BY <1>3, <2>1, <2>2
<1>8. w[x] \in Nat /\ w[y] \in Nat /\ g[both] \in Nat
  BY <1>3 DEF Weighs, SumsUp
<1>. HIDE DEF both
<1>. QED BY <1>2, <1>4, <1>6, <1>7, <1>8

\* What a sum is made of.
LEMMA TotalStep ==
    ASSUME NEW S, NEW w, Weighs(w, S)
    PROVE  /\ Total(w, {}) = 0
           /\ \A s \in SUBSET S : /\ Total(w, s) \in Nat
                                  /\ \A x \in s : Total(w, s) = w[x] + Total(w, s \ {x})
<1>1. PICK g : SumsUp(g, S, w) /\ \A s \in SUBSET S : Total(w, s) = g[s]
  BY SumsAreTotals
<1>a. SumsUp(g, S, w)
  BY <1>1
<1>2. \A s \in SUBSET S : \A x \in s : g[s] = w[x] + g[s \ {x}]
  <2>1. InAnyOrder(g, S, w)
    BY <1>a, AnyFirst
  <2>. QED BY <2>1 DEF InAnyOrder
<1>3. {} \in SUBSET S /\ \A s \in SUBSET S : \A x \in s : s \ {x} \in SUBSET S
  OBVIOUS
<1>. QED BY <1>1, <1>2, <1>3 DEF SumsUp

LEMMA TotalGrows ==
    ASSUME NEW S, NEW w, Weighs(w, S), NEW t \in SUBSET S, NEW s \in SUBSET t
    PROVE  Total(w, s) <= Total(w, t) /\ Total(w, s) \in Nat /\ Total(w, t) \in Nat
<1> DEFINE Bad == {u \in SUBSET S : s \subseteq u /\ ~(Total(w, s) <= Total(w, u))}
<1>1. \A u \in SUBSET S : Total(w, u) \in Nat
  BY TotalStep
<1>2. Bad = {}
  <2>. SUFFICES ASSUME Bad # {} PROVE FALSE
    OBVIOUS
  <2>1. PICK u \in Bad : \A v \in SUBSET u : v # u => v \notin Bad
    <3>1. IsFiniteSet(S) /\ Bad \in SUBSET (SUBSET S)
      BY DEF Weighs
    <3>. HIDE DEF Bad
    <3>. QED BY <3>1, LeastSet
  <2>2. PICK x \in u : x \notin s
    BY <1>1
  <2>3. u \ {x} \in SUBSET S /\ s \subseteq u \ {x} /\ u \ {x} \notin Bad
    BY <2>1, <2>2
  <2>4. Total(w, s) <= Total(w, u \ {x})
    BY <2>3
  <2>5. Total(w, u) = w[x] + Total(w, u \ {x}) /\ w[x] \in Nat
    <3>1. u \in SUBSET S /\ x \in S
      OBVIOUS
    <3>. QED BY <3>1, TotalStep DEF Weighs
  <2>6. ~(Total(w, s) <= Total(w, u))
    OBVIOUS
  <2>7. Total(w, s) \in Nat /\ Total(w, u \ {x}) \in Nat
    BY <1>1, <2>3
  <2>. HIDE DEF Bad
  <2>. QED BY <2>4, <2>5, <2>6, <2>7
<1>3. t \notin Bad
  BY <1>2
<1>. QED BY <1>1, <1>3

LEMMA TotalAgrees ==
    ASSUME NEW S, NEW w, NEW v, Weighs(w, S), \A x \in S : v[x] = w[x]
    PROVE  Total(v, S) = Total(w, S)
<1> DEFINE Bad == {u \in SUBSET S : Total(v, u) # Total(w, u)}
<1>1. Weighs(v, S)
  BY DEF Weighs
<1>2. Bad = {}
  <2>. SUFFICES ASSUME Bad # {} PROVE FALSE
    OBVIOUS
  <2>1. PICK u \in Bad : \A x \in SUBSET u : x # u => x \notin Bad
    <3>1. IsFiniteSet(S) /\ Bad \in SUBSET (SUBSET S)
      BY DEF Weighs
    <3>. HIDE DEF Bad
    <3>. QED BY <3>1, LeastSet
  <2>2. u \in SUBSET S /\ Total(v, u) # Total(w, u)
    OBVIOUS
  <2>3. u # {}
    BY <1>1, <2>2, TotalStep
  <2>4. PICK x \in u : TRUE
    BY <2>3
  <2>5. u \ {x} \in SUBSET S /\ u \ {x} \notin Bad
    BY <2>1, <2>2
  <2>6. Total(v, u \ {x}) = Total(w, u \ {x})
    BY <2>5
  <2>. HIDE DEF Bad
  <2>7. Total(w, u) = w[x] + Total(w, u \ {x})
    BY <2>2, TotalStep
  <2>8. Total(v, u) = v[x] + Total(v, u \ {x})
    BY <1>1, <2>2, TotalStep
  <2>. QED BY <2>2, <2>6, <2>7, <2>8
<1>. QED BY <1>2

-----------------------------------------------------------------------------
(* Matching the blocks of two revisions. *)

\* A set of blocks with no two in one place.
Placed(B) == B \subseteq BlockRows /\ \A x, y \in B : x.place = y.place => x = y

\* Each kind of match pairs blocks of both sides, and no block is matched twice.
MatchesFit(m, B, T) ==
    /\ \A k \in MatchKinds : m[k] \in SUBSET (B \X T)
    /\ \A k, l \in MatchKinds : \A p \in m[k], q \in m[l] :
         p[1] = q[1] \/ p[2] = q[2] => k = l /\ p = q

\* What a match says of the two blocks.
MatchIsTrue(k, b, t) ==
    /\ k = "unchanged" <=> b.raw = t.raw /\ b.place = t.place
    /\ k = "moved" => b.place # t.place /\ b.text = t.text /\ b.type = t.type
    /\ k = "modified" => b.raw # t.raw /\ b.place = t.place

LEMMA MatchesAreFit ==
    ASSUME NEW B, NEW T, Placed(B), Placed(T)
    PROVE  /\ MatchesFit(Matches(B, T), B, T)
           /\ \A k \in MatchKinds : \A p \in Matches(B, T)[k] : MatchIsTrue(k, p[1], p[2])
<1> DEFINE same == Unchanged(B, T)
           B1 == B \ Bases(same)
           T1 == T \ Targets(same)
           changed == Modified(B1, T1)
           B2 == B1 \ Bases(changed)
           T2 == T1 \ Targets(changed)
           moved == Moved(B2, T2)
           m == Matches(B, T)
<1>1. m = [unchanged |-> same, modified |-> changed, moved |-> moved]
  BY DEF Matches
<1>2. m["unchanged"] = same /\ m["modified"] = changed /\ m["moved"] = moved
  <2>. HIDE DEF same, changed, moved, m
  <2>. QED BY <1>1
<1>3. same \in SUBSET (B \X T) /\ \A p \in same : p[1].place = p[2].place /\ p[1].raw = p[2].raw
  BY DEF Unchanged, Anchor
<1>4. changed \in SUBSET (B1 \X T1) /\ \A p \in changed : p[1].place = p[2].place
  <2>. HIDE DEF B1, T1
  <2>. QED BY DEF Modified
<1>5. moved \in SUBSET (B2 \X T2) /\ \A p \in moved : p[1].type = p[2].type /\ p[1].text = p[2].text
  <2>. HIDE DEF B2, T2
  <2>. QED BY DEF Moved, Fingerprint
<1>6. \A p, q \in moved : p[1] = q[1] \/ p[2] = q[2] => p = q
  <2>. HIDE DEF B2, T2
  <2>1. \A p, q \in moved : p[1] = q[1] => p[2] = q[2]
    BY DEF Moved, Fingerprint
  <2>2. \A p, q \in moved : p[2] = q[2] => p[1] = q[1]
    BY DEF Moved, Fingerprint
  <2>. HIDE DEF moved
  <2>. QED BY <1>5, <2>1, <2>2
<1>7. /\ B1 \subseteq B /\ T1 \subseteq T /\ B2 \subseteq B1 /\ T2 \subseteq T1
      /\ \A p \in same : p[1] \notin B1 /\ p[2] \notin T1
      /\ \A p \in changed : p[1] \notin B2 /\ p[2] \notin T2
  BY DEF Bases, Targets
<1>8. \A p \in changed : p[1].raw # p[2].raw
  <2>1. ASSUME NEW p \in changed, p[1].raw = p[2].raw PROVE FALSE
    <3>1. p \in B \X T /\ p[1] \in B1
      <4>. HIDE DEF changed, B1, T1
      <4>. QED BY <1>4, <1>7
    <3>2. p \in same
      <4>. HIDE DEF changed, B1, T1
      <4>. QED BY <2>1, <3>1, <1>4 DEF Unchanged, Anchor
    <3>. QED BY <3>1, <3>2, <1>7
  <2>. QED BY <2>1
<1>9. \A p \in moved : p[1].place # p[2].place
  <2>1. ASSUME NEW p \in moved, p[1].place = p[2].place PROVE FALSE
    <3>1. p \in B1 \X T1 /\ p[1] \in B2
      <4>. HIDE DEF moved, B1, T1, B2, T2
      <4>. QED BY <1>5, <1>7
    <3>2. p \in changed
      <4>. HIDE DEF B1, T1
      <4>. QED BY <2>1, <3>1 DEF Modified
    <3>. QED BY <3>1, <3>2, <1>7
  <2>. QED BY <2>1
<1>. HIDE DEF same, changed, moved, B1, T1, B2, T2, m
<1>10. \A k \in MatchKinds : m[k] \in SUBSET (B \X T)
  <2>1. changed \in SUBSET (B \X T) /\ moved \in SUBSET (B \X T)
    BY <1>4, <1>5, <1>7
  <2>. QED BY <1>2, <1>3, <2>1 DEF MatchKinds
<1>11. \A p, q \in same : p[1] = q[1] \/ p[2] = q[2] => p = q
  BY <1>3 DEF Placed
<1>12. \A p, q \in changed : p[1] = q[1] \/ p[2] = q[2] => p = q
  BY <1>4, <1>7 DEF Placed
<1>13. /\ \A p \in same, q \in changed : p[1] # q[1] /\ p[2] # q[2]
       /\ \A p \in same, q \in moved : p[1] # q[1] /\ p[2] # q[2]
       /\ \A p \in changed, q \in moved : p[1] # q[1] /\ p[2] # q[2]
  BY <1>4, <1>5, <1>7
<1>14. ASSUME NEW k \in MatchKinds, NEW l \in MatchKinds, NEW p \in m[k], NEW q \in m[l],
              p[1] = q[1] \/ p[2] = q[2]
       PROVE  k = l /\ p = q
  BY <1>2, <1>6, <1>11, <1>12, <1>13, <1>14 DEF MatchKinds
<1>15. ASSUME NEW k \in MatchKinds, NEW p \in m[k]
       PROVE  MatchIsTrue(k, p[1], p[2])
  BY <1>2, <1>3, <1>4, <1>5, <1>8, <1>9 DEF MatchKinds, MatchIsTrue
<1>. QED BY <1>10, <1>14, <1>15 DEF MatchesFit, m

-----------------------------------------------------------------------------
(* The items of a difference of blocks. *)

\* The blocks of one side, in order and no two in one place.
Side(s) == s \in Seq(BlockRows) /\ \A i, j \in DOMAIN s : s[i].place = s[j].place => i = j

ItemWith(k, b, t) == [kind |-> k, base |-> b, target |-> t]

\* x is what the matches tell of some block.
IsMatch(x, m) == \E k \in MatchKinds : \E p \in m[k] : x = ItemWith(k, p[1], p[2])
IsAdded(x, m, T) == \E t \in T \ Targets(Matched(m)) : x = ItemWith("added", Nobody, t)
IsRemoved(x, m, B) == \E b \in B \ Bases(Matched(m)) : x = ItemWith("removed", b, Nobody)
IsShown(x, m, B, T) == IsMatch(x, m) \/ IsAdded(x, m, T) \/ IsRemoved(x, m, B)

\* The items show what the matches tell, each once.
Shows(items, m, B, T) ==
    /\ \A i \in DOMAIN items : IsShown(items[i], m, B, T)
    /\ \A x : IsShown(x, m, B, T) => \E i \in DOMAIN items : items[i] = x
    /\ \A i, j \in DOMAIN items : items[i] = items[j] => i = j

LEMMA SideIsPlaced ==
    ASSUME NEW s, Side(s)
    PROVE  /\ Placed(Range(s)) /\ Len(s) \in Nat /\ DOMAIN s = 1..Len(s)
           /\ \A i \in DOMAIN s : s[i] \in Range(s)
           /\ \A x \in Range(s) : \E i \in DOMAIN s : s[i] = x
           /\ \A i, j \in DOMAIN s : s[i] = s[j] => i = j
<1>1. s \in Seq(BlockRows) /\ \A i, j \in DOMAIN s : s[i].place = s[j].place => i = j
  BY DEF Side
<1>2. Len(s) \in Nat /\ DOMAIN s = 1..Len(s) /\ \A i \in DOMAIN s : s[i] \in BlockRows
  BY <1>1
<1>. QED BY <1>1, <1>2 DEF Placed, Range

LEMMA NobodyIsNoBlock == Nobody \notin BlockRows
BY DEF Nobody, BlockRows

LEMMA MatchedIs ==
    ASSUME NEW m, NEW b, NEW t
    PROVE  /\ b \in Bases(Matched(m)) <=> \E k \in MatchKinds : \E p \in m[k] : p[1] = b
           /\ t \in Targets(Matched(m)) <=> \E k \in MatchKinds : \E p \in m[k] : p[2] = t
<1>1. \A p : p \in Matched(m) <=> \E k \in MatchKinds : p \in m[k]
  BY DEF Matched
<1>. QED BY <1>1 DEF Bases, Targets

LEMMA BlockItemIs ==
    ASSUME NEW B, NEW T, NEW m, MatchesFit(m, B, T), NEW t \in T
    PROVE  /\ \A k \in MatchKinds : \A p \in m[k] :
                p[2] = t => BlockItem(m, t) = ItemWith(k, p[1], t)
           /\ t \notin Targets(Matched(m)) => BlockItem(m, t) = ItemWith("added", Nobody, t)
<1>1. ASSUME NEW k \in MatchKinds, NEW p \in m[k], p[2] = t
      PROVE  BlockItem(m, t) = ItemWith(k, p[1], t)
  <2> DEFINE l == CHOOSE x \in MatchKinds : t \in Targets(m[x])
             q == CHOOSE x \in m[l] : x[2] = t
  <2>1. k \in MatchKinds /\ t \in Targets(m[k])
    BY <1>1 DEF Targets
  <2>2. l \in MatchKinds /\ t \in Targets(m[l])
    BY <2>1
  <2>3. q \in m[l] /\ q[2] = t
    <3>1. \E x \in m[l] : x[2] = t
      BY <2>2 DEF Targets
    <3>. HIDE DEF l
    <3>. QED BY <3>1
  <2>4. BlockItem(m, t) = [kind |-> l, base |-> q[1], target |-> t]
    BY <2>1 DEF BlockItem
  <2>. HIDE DEF l, q
  <2>5. l = k /\ q = p
    BY <1>1, <2>2, <2>3 DEF MatchesFit
  <2>. QED BY <2>4, <2>5 DEF ItemWith
<1>2. ASSUME t \notin Targets(Matched(m)) PROVE BlockItem(m, t) = ItemWith("added", Nobody, t)
  <2>1. ~\E k \in MatchKinds : t \in Targets(m[k])
    BY <1>2, MatchedIs DEF Targets
  <2>. QED BY <2>1 DEF BlockItem, ItemWith
<1>. QED BY <1>1, <1>2

\* First what became of the blocks of the target, then the blocks that are gone.
DiffIs(items, base, target, m, gone) ==
    /\ Len(gone) \in Nat
    /\ Keeps(gone, {i \in 1..Len(base) : base[i] \notin Bases(Matched(m))}, base)
    /\ Len(items) = Len(target) + Len(gone) /\ DOMAIN items = 1..(Len(target) + Len(gone))
    /\ \A i \in 1..Len(target) : items[i] = BlockItem(m, target[i])
    /\ \A i \in 1..Len(gone) : items[Len(target) + i] = ItemWith("removed", gone[i], Nobody)

LEMMA BlockDiffIs ==
    ASSUME NEW base, NEW target, Side(base), Side(target),
           NEW m, m = Matches(Range(base), Range(target)),
           NEW gone, gone = Without(base, Bases(Matched(m)))
    PROVE  DiffIs(BlockDiff(base, target), base, target, m, gone)
<1>1. gone \in Seq(BlockRows)
      /\ Keeps(gone, {i \in 1..Len(base) : base[i] \notin Bases(Matched(m))}, base)
  BY WithoutKeeps DEF Side
<1> DEFINE first == [i \in DOMAIN target |-> BlockItem(m, target[i])]
           last == [i \in DOMAIN gone |-> [kind |-> "removed", base |-> gone[i], target |-> Nobody]]
           E == Range(first) \cup Range(last)
           items == first \o last
           n == Len(target)
           g == Len(gone)
<1>2. n \in Nat /\ g \in Nat /\ DOMAIN target = 1..n /\ DOMAIN gone = 1..g
  BY <1>1 DEF Side
<1>3. BlockDiff(base, target) = items
  BY DEF BlockDiff, Where, Without
<1>4. first \in Seq(E) /\ Len(first) = n /\ last \in Seq(E) /\ Len(last) = g
  <2>. HIDE DEF n, g
  <2>1. \A i \in 1..n : first[i] \in E
    BY <1>2 DEF Range
  <2>2. \A i \in 1..g : last[i] \in E
    BY <1>2 DEF Range
  <2>. HIDE DEF E
  <2>. QED BY <1>2, <2>1, <2>2
<1>5. /\ \A i \in 1..n : first[i] = BlockItem(m, target[i])
      /\ \A i \in 1..g : last[i] = ItemWith("removed", gone[i], Nobody)
  BY <1>2 DEF ItemWith
<1>6. /\ items \in Seq(E) /\ Len(items) = n + g
      /\ \A i \in 1..n : items[i] = first[i]
      /\ \A i \in 1..g : items[n + i] = last[i]
  <2>. HIDE DEF first, last, E, n, g
  <2>. QED BY <1>2, <1>4
<1>. HIDE DEF first, last, E, items, n, g
<1>7. DOMAIN items = 1..(n + g)
  BY <1>6
<1>. QED BY <1>1, <1>2, <1>3, <1>5, <1>6, <1>7 DEF n, g, DiffIs

LEMMA DiffShowsMatches ==
    ASSUME NEW base, NEW target, Side(base), Side(target)
    PROVE  Shows(BlockDiff(base, target), Matches(Range(base), Range(target)),
                 Range(base), Range(target))
<1> DEFINE B == Range(base)
           T == Range(target)
           m == Matches(B, T)
           gone == Without(base, Bases(Matched(m)))
           items == BlockDiff(base, target)
           n == Len(target)
           g == Len(gone)
           left == {i \in 1..Len(base) : base[i] \notin Bases(Matched(m))}
<1>1. MatchesFit(m, B, T)
  BY SideIsPlaced, MatchesAreFit
<1>2. /\ n \in Nat /\ g \in Nat /\ DOMAIN items = 1..(n + g)
      /\ \A i \in 1..n : items[i] = BlockItem(m, target[i])
      /\ \A i \in 1..g : items[n + i] = ItemWith("removed", gone[i], Nobody)
      /\ Keeps(gone, left, base)
  <2>1. m = Matches(Range(base), Range(target)) /\ gone = Without(base, Bases(Matched(m)))
    OBVIOUS
  <2>2. n \in Nat
    BY SideIsPlaced
  <2>. HIDE DEF m, gone
  <2>3. DiffIs(BlockDiff(base, target), base, target, m, gone)
    BY <2>1, BlockDiffIs
  <2>. QED BY <2>2, <2>3 DEF DiffIs
<1>3. /\ DOMAIN target = 1..n /\ \A i \in 1..n : target[i] \in T
      /\ \A t \in T : \E i \in 1..n : target[i] = t
      /\ \A i, j \in 1..n : target[i] = target[j] => i = j
  BY SideIsPlaced
<1>4. /\ \A i \in 1..Len(base) : base[i] \in B
      /\ \A b \in B : \E i \in 1..Len(base) : base[i] = b
      /\ \A i, j \in 1..Len(base) : base[i] = base[j] => i = j
  BY SideIsPlaced
<1>5. /\ \A i \in 1..g : gone[i] \in B \ Bases(Matched(m))
      /\ \A b \in B \ Bases(Matched(m)) : \E i \in 1..g : gone[i] = b
      /\ \A i, j \in 1..g : gone[i] = gone[j] => i = j
  <2>1. \A i \in 1..g : \E j \in left : gone[i] = base[j]
    BY <1>2 DEF Keeps
  <2>2. \A j \in left : \E i \in 1..g : gone[i] = base[j]
    BY <1>2 DEF Keeps
  <2>3. \A i, j \in 1..g : gone[i] = gone[j] => i = j
    BY <1>2, <1>4 DEF Keeps
  <2>. HIDE DEF gone, m, B, g
  <2>. QED BY <2>1, <2>2, <2>3, <1>4
<1>6. \A t \in T :
        /\ \A k \in MatchKinds : \A p \in m[k] :
             p[2] = t => BlockItem(m, t) = ItemWith(k, p[1], t)
        /\ t \notin Targets(Matched(m)) => BlockItem(m, t) = ItemWith("added", Nobody, t)
        /\ t \in Targets(Matched(m)) => \E k \in MatchKinds : \E p \in m[k] : p[2] = t
  <2>. HIDE DEF m, B, T
  <2>1. ASSUME NEW t \in T
        PROVE  /\ \A k \in MatchKinds : \A p \in m[k] :
                    p[2] = t => BlockItem(m, t) = ItemWith(k, p[1], t)
               /\ t \notin Targets(Matched(m)) => BlockItem(m, t) = ItemWith("added", Nobody, t)
    BY <1>1, BlockItemIs
  <2>2. ASSUME NEW t \in T
        PROVE  t \in Targets(Matched(m)) => \E k \in MatchKinds : \E p \in m[k] : p[2] = t
    BY MatchedIs
  <2>. QED BY <2>1, <2>2
<1>7. \A k \in MatchKinds : \A p \in m[k] : p[2] \in T
  BY <1>1 DEF MatchesFit
<1>. HIDE DEF items, gone, m, B, T, n, g, left
<1>8. \A i \in 1..(n + g) : i \in 1..n \/ \E j \in 1..g : i = n + j
  <2>1. ASSUME NEW i \in 1..(n + g), i \notin 1..n PROVE i - n \in 1..g /\ i = n + (i - n)
    BY <1>2, <2>1
  <2>. QED BY <2>1
<1>9. \A i \in 1..n : i \in 1..(n + g)
  BY <1>2
<1>10. \A j \in 1..g : n + j \in 1..(n + g)
  BY <1>2
<1>11. \A i \in 1..n : IsMatch(items[i], m) \/ IsAdded(items[i], m, T)
  BY <1>2, <1>3, <1>6 DEF IsMatch, IsAdded
<1>12. \A j \in 1..g : IsRemoved(items[n + j], m, B)
  BY <1>2, <1>5 DEF IsRemoved
<1>13. \A i \in DOMAIN items : IsShown(items[i], m, B, T)
  BY <1>2, <1>8, <1>11, <1>12 DEF IsShown
<1>14. ASSUME NEW x, IsShown(x, m, B, T) PROVE \E i \in DOMAIN items : items[i] = x
  <2>1. CASE IsMatch(x, m)
    <3>0. PICK k \in MatchKinds : \E p \in m[k] : x = ItemWith(k, p[1], p[2])
      BY <2>1 DEF IsMatch
    <3>1. PICK p \in m[k] : x = ItemWith(k, p[1], p[2])
      BY <3>0
    <3>2. PICK i \in 1..n : target[i] = p[2]
      BY <1>3, <1>7
    <3>3. items[i] = x
      BY <3>1, <3>2, <1>2, <1>6, <1>7
    <3>. QED BY <3>3, <1>2, <1>9
  <2>2. CASE IsAdded(x, m, T)
    <3>1. PICK t \in T \ Targets(Matched(m)) : x = ItemWith("added", Nobody, t)
      BY <2>2 DEF IsAdded
    <3>2. PICK i \in 1..n : target[i] = t
      BY <1>3
    <3>3. items[i] = x
      BY <3>1, <3>2, <1>2, <1>6
    <3>. QED BY <3>3, <1>2, <1>9
  <2>3. CASE IsRemoved(x, m, B)
    <3>1. PICK b \in B \ Bases(Matched(m)) : x = ItemWith("removed", b, Nobody)
      BY <2>3 DEF IsRemoved
    <3>2. PICK j \in 1..g : gone[j] = b
      BY <1>5
    <3>. QED BY <3>1, <3>2, <1>2, <1>10
  <2>. QED BY <2>1, <2>2, <2>3, <1>14 DEF IsShown
<1>15. ASSUME NEW i \in DOMAIN items, NEW j \in DOMAIN items, items[i] = items[j] PROVE i = j
  <2>1. \A x \in 1..n : items[x].target = target[x] /\ items[x].kind # "removed"
    <3>1. ASSUME NEW x \in 1..n PROVE items[x].target = target[x] /\ items[x].kind # "removed"
      <4>1. target[x] \in T /\ items[x] = BlockItem(m, target[x])
        BY <1>2, <1>3
      <4>. QED BY <4>1, <1>6 DEF ItemWith, MatchKinds
    <3>. QED BY <3>1
  <2>2. \A x \in 1..g : items[n + x].base = gone[x] /\ items[n + x].kind = "removed"
    <3>1. ASSUME NEW x \in 1..g
          PROVE  items[n + x].base = gone[x] /\ items[n + x].kind = "removed"
      <4>1. items[n + x] = ItemWith("removed", gone[x], Nobody)
        BY <1>2
      <4>. QED BY <4>1 DEF ItemWith
    <3>. QED BY <3>1
  <2>3. CASE i \in 1..n /\ j \in 1..n
    BY <2>3, <2>1, <1>3, <1>15
  <2>4. CASE i \notin 1..n /\ j \notin 1..n
    <3>1. PICK x \in 1..g, y \in 1..g : i = n + x /\ j = n + y
      BY <2>4, <1>2, <1>8
    <3>2. gone[x] = gone[y]
      BY <3>1, <2>2, <1>15
    <3>. QED BY <3>1, <3>2, <1>5
  <2>5. CASE i \in 1..n /\ j \notin 1..n
    <3>1. PICK y \in 1..g : j = n + y
      BY <2>5, <1>2, <1>8
    <3>2. items[i].kind # "removed" /\ items[j].kind = "removed"
      BY <2>5, <2>1, <2>2, <3>1
    <3>. QED BY <3>2, <1>15
  <2>6. CASE i \notin 1..n /\ j \in 1..n
    <3>1. PICK x \in 1..g : i = n + x
      BY <2>6, <1>2, <1>8
    <3>2. items[j].kind # "removed" /\ items[i].kind = "removed"
      BY <2>6, <2>1, <2>2, <3>1
    <3>. QED BY <3>2, <1>15
  <2>. QED BY <2>3, <2>4, <2>5, <2>6
<1>16. Shows(items, m, B, T)
  BY <1>13, <1>14, <1>15 DEF Shows
<1>. QED BY <1>16 DEF items, m, B, T

-----------------------------------------------------------------------------
(* What a difference of blocks promises. *)

LEMMA ShownOnce ==
    ASSUME NEW B \in SUBSET BlockRows, NEW T \in SUBSET BlockRows, NEW m, MatchesFit(m, B, T),
           NEW items, Shows(items, m, B, T)
    PROVE  /\ \A b \in B : Cardinality({i \in DOMAIN items : items[i].base = b}) = 1
           /\ \A t \in T : Cardinality({i \in DOMAIN items : items[i].target = t}) = 1
<1>1. ASSUME NEW b \in B
      PROVE  \E i \in DOMAIN items : \A j \in DOMAIN items : items[j].base = b <=> j = i
  <2>1. b # Nobody
    BY NobodyIsNoBlock
  <2>2. PICK x : IsShown(x, m, B, T) /\ x.base = b
    <3>1. CASE b \in Bases(Matched(m))
      <4>1. PICK k \in MatchKinds : \E p \in m[k] : p[1] = b
        BY <3>1, MatchedIs
      <4>2. PICK p \in m[k] : p[1] = b
        BY <4>1
      <4>3. IsShown(ItemWith(k, p[1], p[2]), m, B, T)
        BY <4>2 DEF IsShown, IsMatch
      <4>4. ItemWith(k, p[1], p[2]).base = b
        BY <4>2 DEF ItemWith
      <4>. QED BY <4>3, <4>4
    <3>2. CASE b \notin Bases(Matched(m))
      <4>1. IsShown(ItemWith("removed", b, Nobody), m, B, T)
        BY <3>2 DEF IsShown, IsRemoved
      <4>2. ItemWith("removed", b, Nobody).base = b
        BY DEF ItemWith
      <4>. QED BY <4>1, <4>2
    <3>. QED BY <3>1, <3>2
  <2>3. ASSUME NEW y, IsShown(y, m, B, T), y.base = b PROVE y = x
    <3>1. ASSUME NEW z, IsShown(z, m, B, T), z.base = b
          PROVE  \/ b \notin Bases(Matched(m)) /\ z = ItemWith("removed", b, Nobody)
                 \/ \E k \in MatchKinds : \E p \in m[k] : p[1] = b /\ z = ItemWith(k, p[1], p[2])
      <4>1. CASE IsMatch(z, m)
        BY <3>1, <4>1 DEF IsMatch, ItemWith
      <4>2. CASE IsAdded(z, m, T)
        BY <3>1, <4>2, <2>1 DEF IsAdded, ItemWith
      <4>3. CASE IsRemoved(z, m, B)
        BY <3>1, <4>3 DEF IsRemoved, ItemWith
      <4>. QED BY <3>1, <4>1, <4>2, <4>3 DEF IsShown
    <3>2. CASE b \notin Bases(Matched(m))
      <4>1. ~\E k \in MatchKinds : \E p \in m[k] : p[1] = b
        BY <3>2, MatchedIs
      <4>. QED BY <4>1, <3>1, <2>2, <2>3
    <3>3. CASE b \in Bases(Matched(m))
      <4>1. PICK k \in MatchKinds : \E p \in m[k] : p[1] = b /\ x = ItemWith(k, p[1], p[2])
        BY <3>1, <3>3, <2>2
      <4>2. PICK p \in m[k] : p[1] = b /\ x = ItemWith(k, p[1], p[2])
        BY <4>1
      <4>3. PICK l \in MatchKinds : \E q \in m[l] : q[1] = b /\ y = ItemWith(l, q[1], q[2])
        BY <3>1, <3>3, <2>3
      <4>4. PICK q \in m[l] : q[1] = b /\ y = ItemWith(l, q[1], q[2])
        BY <4>3
      <4>5. k = l /\ p = q
        BY <4>2, <4>4 DEF MatchesFit
      <4>. QED BY <4>2, <4>4, <4>5
    <3>. QED BY <3>2, <3>3
  <2>4. PICK i \in DOMAIN items : items[i] = x
    BY <2>2 DEF Shows
  <2>. QED BY <2>2, <2>3, <2>4 DEF Shows
<1>2. ASSUME NEW t \in T
      PROVE  \E i \in DOMAIN items : \A j \in DOMAIN items : items[j].target = t <=> j = i
  <2>1. t # Nobody
    BY NobodyIsNoBlock
  <2>2. PICK x : IsShown(x, m, B, T) /\ x.target = t
    <3>1. CASE t \in Targets(Matched(m))
      <4>1. PICK k \in MatchKinds : \E p \in m[k] : p[2] = t
        BY <3>1, MatchedIs
      <4>2. PICK p \in m[k] : p[2] = t
        BY <4>1
      <4>3. IsShown(ItemWith(k, p[1], p[2]), m, B, T)
        BY <4>2 DEF IsShown, IsMatch
      <4>4. ItemWith(k, p[1], p[2]).target = t
        BY <4>2 DEF ItemWith
      <4>. QED BY <4>3, <4>4
    <3>2. CASE t \notin Targets(Matched(m))
      <4>1. IsShown(ItemWith("added", Nobody, t), m, B, T)
        BY <3>2 DEF IsShown, IsAdded
      <4>2. ItemWith("added", Nobody, t).target = t
        BY DEF ItemWith
      <4>. QED BY <4>1, <4>2
    <3>. QED BY <3>1, <3>2
  <2>3. ASSUME NEW y, IsShown(y, m, B, T), y.target = t PROVE y = x
    <3>1. ASSUME NEW z, IsShown(z, m, B, T), z.target = t
          PROVE  \/ t \notin Targets(Matched(m)) /\ z = ItemWith("added", Nobody, t)
                 \/ \E k \in MatchKinds : \E p \in m[k] : p[2] = t /\ z = ItemWith(k, p[1], p[2])
      <4>1. CASE IsMatch(z, m)
        BY <3>1, <4>1 DEF IsMatch, ItemWith
      <4>2. CASE IsAdded(z, m, T)
        BY <3>1, <4>2 DEF IsAdded, ItemWith
      <4>3. CASE IsRemoved(z, m, B)
        BY <3>1, <4>3, <2>1 DEF IsRemoved, ItemWith
      <4>. QED BY <3>1, <4>1, <4>2, <4>3 DEF IsShown
    <3>2. CASE t \notin Targets(Matched(m))
      <4>1. ~\E k \in MatchKinds : \E p \in m[k] : p[2] = t
        BY <3>2, MatchedIs
      <4>. QED BY <4>1, <3>1, <2>2, <2>3
    <3>3. CASE t \in Targets(Matched(m))
      <4>1. PICK k \in MatchKinds : \E p \in m[k] : p[2] = t /\ x = ItemWith(k, p[1], p[2])
        BY <3>1, <3>3, <2>2
      <4>2. PICK p \in m[k] : p[2] = t /\ x = ItemWith(k, p[1], p[2])
        BY <4>1
      <4>3. PICK l \in MatchKinds : \E q \in m[l] : q[2] = t /\ y = ItemWith(l, q[1], q[2])
        BY <3>1, <3>3, <2>3
      <4>4. PICK q \in m[l] : q[2] = t /\ y = ItemWith(l, q[1], q[2])
        BY <4>3
      <4>5. k = l /\ p = q
        BY <4>2, <4>4 DEF MatchesFit
      <4>. QED BY <4>2, <4>4, <4>5
    <3>. QED BY <3>2, <3>3
  <2>4. PICK i \in DOMAIN items : items[i] = x
    BY <2>2 DEF Shows
  <2>. QED BY <2>2, <2>3, <2>4 DEF Shows
<1>3. ASSUME NEW b \in B PROVE Cardinality({i \in DOMAIN items : items[i].base = b}) = 1
  <2>1. PICK i \in DOMAIN items : \A j \in DOMAIN items : items[j].base = b <=> j = i
    BY <1>1
  <2>2. {j \in DOMAIN items : items[j].base = b} = {i}
    BY <2>1
  <2>. QED BY <2>2, FS_Singleton
<1>4. ASSUME NEW t \in T PROVE Cardinality({i \in DOMAIN items : items[i].target = t}) = 1
  <2>1. PICK i \in DOMAIN items : \A j \in DOMAIN items : items[j].target = t <=> j = i
    BY <1>2
  <2>2. {j \in DOMAIN items : items[j].target = t} = {i}
    BY <2>1
  <2>. QED BY <2>2, FS_Singleton
<1>. QED BY <1>3, <1>4

\* The items are fewer than the blocks by the pairs among them.
LEMMA PairsAreCounted ==
    ASSUME NEW base, NEW target, Side(base), Side(target),
           NEW items, items = BlockDiff(base, target)
    PROVE  Len(items) = Len(base) + Len(target)
              - Cardinality({i \in DOMAIN items : Nobody \notin {items[i].base, items[i].target}})
<1> DEFINE B == Range(base)
           T == Range(target)
           m == Matches(B, T)
           gone == Without(base, Bases(Matched(m)))
           n == Len(target)
           g == Len(gone)
           h == Len(base)
           Pairs == {i \in DOMAIN items : Nobody \notin {items[i].base, items[i].target}}
           Taken == {i \in 1..n : target[i] \in Targets(Matched(m))}
           Held == {j \in 1..h : base[j] \in Bases(Matched(m))}
           Left == {j \in 1..h : base[j] \notin Bases(Matched(m))}
<1>1. DiffIs(items, base, target, m, gone)
  BY BlockDiffIs
<1>2. MatchesFit(m, B, T)
  BY SideIsPlaced, MatchesAreFit
<1>3. /\ n \in Nat /\ \A i \in 1..n : target[i] \in T
      /\ \A t \in T : \E i \in 1..n : target[i] = t
      /\ \A i, j \in 1..n : target[i] = target[j] => i = j
      /\ T \subseteq BlockRows
  BY SideIsPlaced DEF Placed
<1>4. /\ h \in Nat /\ \A i \in 1..h : base[i] \in B
      /\ \A b \in B : \E i \in 1..h : base[i] = b
      /\ \A i, j \in 1..h : base[i] = base[j] => i = j
      /\ B \subseteq BlockRows
  BY SideIsPlaced DEF Placed
<1>5. /\ g \in Nat /\ Len(items) = n + g /\ DOMAIN items = 1..(n + g)
      /\ \A i \in 1..n : items[i] = BlockItem(m, target[i])
      /\ \A i \in 1..g : items[n + i] = ItemWith("removed", gone[i], Nobody)
      /\ g = Cardinality(Left)
  <2>1. Keeps(gone, Left, base)
    BY <1>1 DEF DiffIs
  <2>2. g = Cardinality(Left)
    <3>. HIDE DEF Left, gone
    <3>. QED BY <2>1 DEF Keeps
  <2>. HIDE DEF Left
  <2>. QED BY <1>1, <2>2 DEF DiffIs
<1>6. /\ \A t \in T : t \in Targets(Matched(m)) => \E k \in MatchKinds : \E p \in m[k] : p[2] = t
      /\ \A b \in B : b \in Bases(Matched(m)) => \E k \in MatchKinds : \E p \in m[k] : p[1] = b
      /\ \A k \in MatchKinds : \A p \in m[k] :
           /\ p[1] \in B /\ p[1] \in Bases(Matched(m))
           /\ p[2] \in T /\ p[2] \in Targets(Matched(m))
  <2>. HIDE DEF m, B, T
  <2>. QED BY <1>2, MatchedIs DEF MatchesFit
<1>7. /\ \A t \in T : t \notin Targets(Matched(m)) => BlockItem(m, t) = ItemWith("added", Nobody, t)
      /\ \A t \in T : \A k \in MatchKinds : \A p \in m[k] :
           p[2] = t => BlockItem(m, t) = ItemWith(k, p[1], t)
  <2>. HIDE DEF m, B, T
  <2>. QED BY <1>2, BlockItemIs
<1>. HIDE DEF m, B, T, gone, n, g, h
<1>8. Pairs = Taken
  <2>1. ASSUME NEW i \in 1..n PROVE i \in Pairs <=> i \in Taken
    <3>1. i \in DOMAIN items /\ target[i] \in T /\ items[i] = BlockItem(m, target[i])
      BY <1>3, <1>5
    <3>2. target[i] # Nobody
      BY <3>1, <1>3, NobodyIsNoBlock
    <3>3. CASE target[i] \in Targets(Matched(m))
      <4>1. PICK k \in MatchKinds : \E p \in m[k] : p[2] = target[i]
        BY <3>1, <3>3, <1>6
      <4>2. PICK p \in m[k] : p[2] = target[i]
        BY <4>1
      <4>3. items[i] = ItemWith(k, p[1], target[i]) /\ p[1] \in BlockRows
        BY <4>2, <3>1, <1>4, <1>6, <1>7
      <4>. QED BY <4>3, <3>1, <3>2, <3>3, NobodyIsNoBlock DEF ItemWith
    <3>4. CASE target[i] \notin Targets(Matched(m))
      BY <3>1, <3>4, <1>7 DEF ItemWith
    <3>. QED BY <3>3, <3>4
  <2>2. ASSUME NEW i \in Pairs PROVE i \in 1..n
    <3>1. i \in 1..(n + g) /\ Nobody \notin {items[i].base, items[i].target}
      BY <1>5
    <3>2. ASSUME i \notin 1..n PROVE FALSE
      <4>1. i - n \in 1..g /\ n + (i - n) = i
        BY <3>1, <3>2, <1>3, <1>5
      <4>2. items[i] = ItemWith("removed", gone[i - n], Nobody)
        BY <4>1, <1>5
      <4>. QED BY <4>2, <3>1 DEF ItemWith
    <3>. QED BY <3>2
  <2>3. \A i \in Taken : i \in 1..n
    OBVIOUS
  <2>. HIDE DEF Pairs, Taken
  <2>. QED BY <2>1, <2>2, <2>3
<1>9. ExistsBijection(Taken, Held)
  <2> DEFINE Partner(i, j) == \E k \in MatchKinds : \E p \in m[k] : p[1] = base[j] /\ p[2] = target[i]
             f == [i \in Taken |-> CHOOSE j \in Held : Partner(i, j)]
  <2>0. \A i \in Taken, j \in Held : i \in 1..n /\ j \in 1..h
    OBVIOUS
  <2>1. ASSUME NEW i \in Taken PROVE \E j \in Held : Partner(i, j)
    <3>1. i \in 1..n /\ target[i] \in T /\ target[i] \in Targets(Matched(m))
      BY <1>3
    <3>2. PICK k \in MatchKinds : \E p \in m[k] : p[2] = target[i]
      BY <3>1, <1>6
    <3>3. PICK p \in m[k] : p[2] = target[i]
      BY <3>2
    <3>4. PICK j \in 1..h : base[j] = p[1]
      BY <1>4, <1>6
    <3>. QED BY <3>3, <3>4, <1>6
  <2>2. ASSUME NEW j \in Held PROVE \E i \in Taken : Partner(i, j)
    <3>1. j \in 1..h /\ base[j] \in B /\ base[j] \in Bases(Matched(m))
      BY <1>4
    <3>2. PICK k \in MatchKinds : \E p \in m[k] : p[1] = base[j]
      BY <3>1, <1>6
    <3>3. PICK p \in m[k] : p[1] = base[j]
      BY <3>2
    <3>4. PICK i \in 1..n : target[i] = p[2]
      BY <1>3, <1>6
    <3>. QED BY <3>3, <3>4, <1>6
  <2>3. ASSUME NEW i1 \in Taken, NEW j1 \in Held, NEW i2 \in Taken, NEW j2 \in Held,
               Partner(i1, j1), Partner(i2, j2)
        PROVE  i1 = i2 <=> j1 = j2
    <3>1. PICK k \in MatchKinds : \E p \in m[k] : p[1] = base[j1] /\ p[2] = target[i1]
      BY <2>3
    <3>2. PICK p \in m[k] : p[1] = base[j1] /\ p[2] = target[i1]
      BY <3>1
    <3>3. PICK l \in MatchKinds : \E q \in m[l] : q[1] = base[j2] /\ q[2] = target[i2]
      BY <2>3
    <3>4. PICK q \in m[l] : q[1] = base[j2] /\ q[2] = target[i2]
      BY <3>3
    <3>5. p[1] = q[1] \/ p[2] = q[2] => p = q
      BY <1>2 DEF MatchesFit
    <3>6. i1 \in 1..n /\ i2 \in 1..n /\ j1 \in 1..h /\ j2 \in 1..h
      BY <2>0
    <3>. QED BY <3>2, <3>4, <3>5, <3>6, <1>3, <1>4
  <2>4. \A i \in Taken : f[i] \in Held /\ Partner(i, f[i])
    <3>. HIDE DEF Partner, Taken, Held
    <3>. QED BY <2>1
  <2>5. f \in [Taken -> Held]
    <3>. HIDE DEF Partner, Taken, Held
    <3>. QED BY <2>4
  <2>. HIDE DEF f, Partner, Taken, Held
  <2>6. \A x, y \in Taken : f[x] = f[y] => x = y
    BY <2>3, <2>4
  <2>7. \A j \in Held : \E i \in Taken : f[i] = j
    BY <2>2, <2>3, <2>4
  <2>8. f \in Bijection(Taken, Held)
    BY <2>5, <2>6, <2>7 DEF Bijection, Injection, Surjection, IsInjective
  <2>. QED BY <2>8 DEF ExistsBijection
<1>10. IsFiniteSet(Taken) /\ IsFiniteSet(Held) /\ IsFiniteSet(Left)
  <2>1. IsFiniteSet(1..n) /\ IsFiniteSet(1..h)
    BY <1>3, <1>4, FS_Interval
  <2>2. Taken \in SUBSET (1..n) /\ Held \in SUBSET (1..h) /\ Left \in SUBSET (1..h)
    OBVIOUS
  <2>. HIDE DEF Taken, Held, Left
  <2>. QED BY <2>1, <2>2, FS_Subset
<1>11. Cardinality(Taken) = Cardinality(Held)
  <2>. HIDE DEF Taken, Held
  <2>. QED BY <1>9, <1>10, FS_Bijection
<1>12. Cardinality(Held) + Cardinality(Left) = h
  <2>1. Held \cup Left = 1..h /\ Held \cap Left = {}
    OBVIOUS
  <2>2. Cardinality(1..h) = h
    BY <1>4, FS_Interval
  <2>3. Cardinality({}) = 0
    BY FS_EmptySet
  <2>. HIDE DEF Held, Left
  <2>4. Cardinality(Held \cup Left) = Cardinality(Held) + Cardinality(Left) - Cardinality(Held \cap Left)
    BY <1>10, FS_Union
  <2>5. Cardinality(Held) \in Nat /\ Cardinality(Left) \in Nat
    BY <1>10, FS_CardinalityType
  <2>6. Cardinality(Held \cap Left) = 0 /\ Cardinality(Held \cup Left) = h
    BY <2>1, <2>2, <2>3
  <2>. QED BY <2>4, <2>5, <2>6, <1>4
<1>13. Cardinality(Held) \in Nat /\ Cardinality(Left) \in Nat
  <2>. HIDE DEF Held, Left
  <2>. QED BY <1>10, FS_CardinalityType
<1>. HIDE DEF Pairs, Taken, Held, Left
<1>14. Len(items) = h + n - Cardinality(Pairs)
  BY <1>3, <1>4, <1>5, <1>8, <1>11, <1>12, <1>13
<1>. QED BY <1>14 DEF Pairs, h, n

\* The blocks of pairs that are each other's reverse.
LEMMA ReversedPairs ==
    ASSUME NEW P, NEW Q, \A p \in P : p = <<p[1], p[2]>>, \A q \in Q : q = <<q[1], q[2]>>,
           \A x, y : <<x, y>> \in P <=> <<y, x>> \in Q
    PROVE  Bases(P) = Targets(Q) /\ Targets(P) = Bases(Q)
<1>1. \A p \in P : \E q \in Q : q[1] = p[2] /\ q[2] = p[1]
  <2>1. ASSUME NEW p \in P PROVE <<p[2], p[1]>> \in Q
    OBVIOUS
  <2>. QED BY <2>1
<1>2. \A q \in Q : \E p \in P : q[1] = p[2] /\ q[2] = p[1]
  <2>1. ASSUME NEW q \in Q PROVE <<q[2], q[1]>> \in P
    OBVIOUS
  <2>. QED BY <2>1
<1>. QED BY <1>1, <1>2 DEF Bases, Targets

\* What moved one way moves back, and what was added is removed.
LEMMA MatchesMirror ==
    ASSUME NEW B, NEW T, NEW k \in MatchKinds, NEW b, NEW t
    PROVE  <<b, t>> \in Matches(B, T)[k] <=> <<t, b>> \in Matches(T, B)[k]
<1> DEFINE same(X, Y) == Unchanged(X, Y)
           X1(X, Y) == X \ Bases(Unchanged(X, Y))
           Y1(X, Y) == Y \ Targets(Unchanged(X, Y))
           changed(X, Y) == Modified(X1(X, Y), Y1(X, Y))
           X2(X, Y) == X1(X, Y) \ Bases(changed(X, Y))
           Y2(X, Y) == Y1(X, Y) \ Targets(changed(X, Y))
<1>1. \A X, Y, x, y :
        /\ <<x, y>> \in Unchanged(X, Y) <=> <<y, x>> \in Unchanged(Y, X)
        /\ <<x, y>> \in Modified(X, Y) <=> <<y, x>> \in Modified(Y, X)
        /\ <<x, y>> \in Moved(X, Y) <=> <<y, x>> \in Moved(Y, X)
  <2>. TAKE X, Y, x, y
  <2>1. <<x, y>> \in Unchanged(X, Y) <=> <<y, x>> \in Unchanged(Y, X)
    BY DEF Unchanged
  <2>2. <<x, y>> \in Modified(X, Y) <=> <<y, x>> \in Modified(Y, X)
    BY DEF Modified
  <2>3. <<x, y>> \in Moved(X, Y) <=> <<y, x>> \in Moved(Y, X)
    BY DEF Moved
  <2>. QED BY <2>1, <2>2, <2>3
<1>2. \A X, Y : /\ \A p \in Unchanged(X, Y) : p = <<p[1], p[2]>>
                /\ \A p \in Modified(X, Y) : p = <<p[1], p[2]>>
  BY DEF Unchanged, Modified
<1>3. X1(B, T) = Y1(T, B) /\ Y1(B, T) = X1(T, B)
  <2> DEFINE P == Unchanged(B, T)
             Q == Unchanged(T, B)
  <2>1. (\A x, y : <<x, y>> \in P <=> <<y, x>> \in Q)
        /\ (\A p \in P : p = <<p[1], p[2]>>) /\ (\A q \in Q : q = <<q[1], q[2]>>)
    BY <1>1, <1>2
  <2>2. Bases(P) = Targets(Q) /\ Targets(P) = Bases(Q)
    <3>. HIDE DEF P, Q
    <3>. QED BY <2>1, ReversedPairs
  <2>. QED BY <2>2
<1>4. X2(B, T) = Y2(T, B) /\ Y2(B, T) = X2(T, B)
  <2> DEFINE P == changed(B, T)
             Q == changed(T, B)
  <2>. HIDE DEF X1, Y1
  <2>1. (\A x, y : <<x, y>> \in P <=> <<y, x>> \in Q)
        /\ (\A p \in P : p = <<p[1], p[2]>>) /\ (\A q \in Q : q = <<q[1], q[2]>>)
    BY <1>1, <1>2, <1>3
  <2>2. Bases(P) = Targets(Q) /\ Targets(P) = Bases(Q)
    <3>. HIDE DEF P, Q
    <3>. QED BY <2>1, ReversedPairs
  <2>. HIDE DEF changed
  <2>. QED BY <1>3, <2>2
<1>5. /\ Matches(B, T) = [unchanged |-> same(B, T), modified |-> changed(B, T),
                          moved |-> Moved(X2(B, T), Y2(B, T))]
      /\ Matches(T, B) = [unchanged |-> same(T, B), modified |-> changed(T, B),
                          moved |-> Moved(X2(T, B), Y2(T, B))]
  BY DEF Matches
<1>. HIDE DEF X1, Y1, X2, Y2
<1>6. CASE k = "unchanged"
  BY <1>1, <1>5, <1>6
<1>7. CASE k = "modified"
  <2>1. /\ Matches(B, T)[k] = Modified(X1(B, T), Y1(B, T))
        /\ Matches(T, B)[k] = Modified(Y1(B, T), X1(B, T))
    BY <1>3, <1>5, <1>7
  <2>. QED BY <1>1, <2>1
<1>8. CASE k = "moved"
  <2>1. /\ Matches(B, T)[k] = Moved(X2(B, T), Y2(B, T))
        /\ Matches(T, B)[k] = Moved(Y2(B, T), X2(B, T))
    BY <1>4, <1>5, <1>8
  <2>. QED BY <1>1, <2>1
<1>. QED BY <1>6, <1>7, <1>8 DEF MatchKinds

Mirrored(kind) == IF kind = "added" THEN "removed" ELSE IF kind = "removed" THEN "added" ELSE kind

\* An item that one difference shows is, turned round, shown by the other.
LEMMA ShownMirrored ==
    ASSUME NEW B, NEW T, NEW m, NEW w, MatchesFit(m, B, T), MatchesFit(w, T, B),
           \A k \in MatchKinds : \A b, t : <<b, t>> \in m[k] <=> <<t, b>> \in w[k],
           NEW x, IsShown(x, m, B, T)
    PROVE  /\ IsShown(ItemWith(Mirrored(x.kind), x.target, x.base), w, T, B)
           /\ x = ItemWith(x.kind, x.base, x.target)
           /\ Mirrored(Mirrored(x.kind)) = x.kind
<1>0. \A k \in MatchKinds : /\ \A p \in m[k] : p = <<p[1], p[2]>>
                            /\ \A p \in w[k] : p = <<p[1], p[2]>>
  BY DEF MatchesFit
<1>1. Bases(Matched(m)) = Targets(Matched(w)) /\ Targets(Matched(m)) = Bases(Matched(w))
  <2>1. \A p : /\ p \in Matched(m) <=> \E k \in MatchKinds : p \in m[k]
               /\ p \in Matched(w) <=> \E k \in MatchKinds : p \in w[k]
    BY DEF Matched
  <2>2. \A b, t : <<b, t>> \in Matched(m) <=> <<t, b>> \in Matched(w)
    BY <2>1
  <2>3. /\ \A p \in Matched(m) : p = <<p[1], p[2]>>
        /\ \A p \in Matched(w) : p = <<p[1], p[2]>>
    BY <1>0, <2>1
  <2>. QED BY <2>2, <2>3, ReversedPairs
<1>3. CASE IsMatch(x, m)
  <2>1. PICK k \in MatchKinds : \E p \in m[k] : x = ItemWith(k, p[1], p[2])
    BY <1>3 DEF IsMatch
  <2>2. PICK p \in m[k] : x = ItemWith(k, p[1], p[2])
    BY <2>1
  <2>3. x.kind = k /\ x.base = p[1] /\ x.target = p[2] /\ Mirrored(k) = k
    BY <2>2 DEF ItemWith, Mirrored, MatchKinds
  <2>4. <<p[2], p[1]>> \in w[k]
    BY <1>0
  <2>5. IsMatch(ItemWith(k, p[2], p[1]), w)
    <3>1. <<p[2], p[1]>>[1] = p[2] /\ <<p[2], p[1]>>[2] = p[1]
      OBVIOUS
    <3>. QED BY <2>4, <3>1 DEF IsMatch
  <2>. QED BY <2>2, <2>3, <2>5 DEF IsShown
<1>4. CASE IsAdded(x, m, T)
  <2>1. PICK t \in T \ Targets(Matched(m)) : x = ItemWith("added", Nobody, t)
    BY <1>4 DEF IsAdded
  <2>2. x.kind = "added" /\ x.base = Nobody /\ x.target = t /\ Mirrored("added") = "removed"
        /\ Mirrored("removed") = "added"
    BY <2>1 DEF ItemWith, Mirrored
  <2>3. IsRemoved(ItemWith("removed", t, Nobody), w, T)
    BY <1>1 DEF IsRemoved
  <2>. QED BY <2>1, <2>2, <2>3 DEF IsShown
<1>5. CASE IsRemoved(x, m, B)
  <2>1. PICK b \in B \ Bases(Matched(m)) : x = ItemWith("removed", b, Nobody)
    BY <1>5 DEF IsRemoved
  <2>2. x.kind = "removed" /\ x.base = b /\ x.target = Nobody /\ Mirrored("removed") = "added"
        /\ Mirrored("added") = "removed"
    BY <2>1 DEF ItemWith, Mirrored
  <2>3. IsAdded(ItemWith("added", Nobody, b), w, B)
    BY <1>1 DEF IsAdded
  <2>. QED BY <2>1, <2>2, <2>3 DEF IsShown
<1>. QED BY <1>3, <1>4, <1>5 DEF IsShown

LEMMA DiffMirrors ==
    ASSUME NEW base, NEW target, Side(base), Side(target)
    PROVE  {<<i.kind, i.base, i.target>> : i \in Range(BlockDiff(base, target))} =
           {<<Mirrored(i.kind), i.target, i.base>> : i \in Range(BlockDiff(target, base))}
<1> DEFINE B == Range(base)
           T == Range(target)
           m == Matches(B, T)
           w == Matches(T, B)
           these == Range(BlockDiff(base, target))
           those == Range(BlockDiff(target, base))
<1>1. MatchesFit(m, B, T) /\ MatchesFit(w, T, B)
  BY SideIsPlaced, MatchesAreFit
<1>2. /\ \A k \in MatchKinds : \A b, t : <<b, t>> \in m[k] <=> <<t, b>> \in w[k]
      /\ \A k \in MatchKinds : \A b, t : <<b, t>> \in w[k] <=> <<t, b>> \in m[k]
  BY MatchesMirror
<1>3. /\ \A x : x \in these <=> IsShown(x, m, B, T)
      /\ \A x : x \in those <=> IsShown(x, w, T, B)
  <2>1. Shows(BlockDiff(base, target), m, B, T) /\ Shows(BlockDiff(target, base), w, T, B)
    BY DiffShowsMatches
  <2>. HIDE DEF m, w, B, T
  <2>. QED BY <2>1 DEF Shows, Range
<1>. HIDE DEF m, w, B, T, these, those
<1>4. ASSUME NEW x \in these
      PROVE  \E y \in those : <<x.kind, x.base, x.target>> = <<Mirrored(y.kind), y.target, y.base>>
  <2> DEFINE y == ItemWith(Mirrored(x.kind), x.target, x.base)
  <2>1. y \in those /\ Mirrored(Mirrored(x.kind)) = x.kind
    <3>1. IsShown(x, m, B, T)
      BY <1>3
    <3>2. IsShown(y, w, T, B) /\ Mirrored(Mirrored(x.kind)) = x.kind
      BY <3>1, <1>1, <1>2, ShownMirrored
    <3>. QED BY <3>2, <1>3
  <2>2. y.kind = Mirrored(x.kind) /\ y.base = x.target /\ y.target = x.base
    BY DEF ItemWith
  <2>. QED BY <2>1, <2>2
<1>5. ASSUME NEW y \in those
      PROVE  \E x \in these : <<x.kind, x.base, x.target>> = <<Mirrored(y.kind), y.target, y.base>>
  <2> DEFINE x == ItemWith(Mirrored(y.kind), y.target, y.base)
  <2>1. x \in these
    <3>1. IsShown(y, w, T, B)
      BY <1>3
    <3>2. IsShown(x, m, B, T)
      BY <3>1, <1>1, <1>2, ShownMirrored
    <3>. QED BY <3>2, <1>3
  <2>2. x.kind = Mirrored(y.kind) /\ x.base = y.target /\ x.target = y.base
    BY DEF ItemWith
  <2>. QED BY <2>1, <2>2
<1>6. {<<i.kind, i.base, i.target>> : i \in these} =
      {<<Mirrored(i.kind), i.target, i.base>> : i \in those}
  BY <1>4, <1>5
<1>. QED BY <1>6 DEF these, those

AllKinds == MatchKinds \cup {"added", "removed"}

\* What is told of two matched blocks is so.
KindIsTrue(i) ==
    i.kind \in MatchKinds =>
        /\ i.kind = "unchanged" <=> ~WhatChanged(i).raw /\ ~WhatChanged(i).place
        /\ i.kind = "moved" => WhatChanged(i).place /\ ~WhatChanged(i).text /\ ~WhatChanged(i).type
        /\ i.kind = "modified" => WhatChanged(i).raw /\ ~WhatChanged(i).place

LEMMA AllKindsAreFinite == IsFiniteSet(AllKinds)
<1>1. AllKinds = (({"unchanged"} \cup {"modified"}) \cup {"moved"}) \cup ({"added"} \cup {"removed"})
  BY DEF AllKinds, MatchKinds
<1>. HIDE DEF AllKinds
<1>2. IsFiniteSet({"unchanged"} \cup {"modified"}) /\ IsFiniteSet({"added"} \cup {"removed"})
  BY FS_Singleton, FS_Union
<1>3. IsFiniteSet(({"unchanged"} \cup {"modified"}) \cup {"moved"})
  BY <1>2, FS_Singleton, FS_Union
<1>. QED BY <1>1, <1>2, <1>3, FS_Union

LEMMA DiffTellsKinds ==
    ASSUME NEW base, NEW target, Side(base), Side(target),
           NEW items, items = BlockDiff(base, target)
    PROVE  /\ \A i \in Range(items) : KindIsTrue(i)
           /\ Len(items) = SumOfKinds(items, AllKinds)
           /\ SideFits({[block |-> b.id] : b \in Range(base)}, items, "base")
           /\ SideFits({[block |-> t.id] : t \in Range(target)}, items, "target")
<1> DEFINE B == Range(base)
           T == Range(target)
           m == Matches(B, T)
<1>1. Shows(items, m, B, T)
  BY DiffShowsMatches
<1>2. /\ \A k \in MatchKinds : \A p \in m[k] : MatchIsTrue(k, p[1], p[2])
      /\ MatchesFit(m, B, T)
  BY SideIsPlaced, MatchesAreFit
<1>3. B \in SUBSET BlockRows /\ T \in SUBSET BlockRows
  BY SideIsPlaced DEF Placed
<1>. HIDE DEF m
<1>4. ASSUME NEW x, IsShown(x, m, B, T) PROVE KindIsTrue(x) /\ x.kind \in AllKinds
  <2>1. CASE IsMatch(x, m)
    <3>1. PICK k \in MatchKinds : \E p \in m[k] : x = ItemWith(k, p[1], p[2])
      BY <2>1 DEF IsMatch
    <3>2. PICK p \in m[k] : x = ItemWith(k, p[1], p[2])
      BY <3>1
    <3>3. MatchIsTrue(k, p[1], p[2])
      BY <1>2
    <3>4. x.kind = k /\ x.base = p[1] /\ x.target = p[2]
      BY <3>2 DEF ItemWith
    <3>5. /\ WhatChanged(x).raw = (p[1].raw # p[2].raw) /\ WhatChanged(x).text = (p[1].text # p[2].text)
          /\ WhatChanged(x).type = (p[1].type # p[2].type)
          /\ WhatChanged(x).place = (p[1].place # p[2].place)
      BY <3>4 DEF WhatChanged
    <3>. QED BY <3>3, <3>4, <3>5 DEF KindIsTrue, MatchIsTrue, AllKinds
  <2>2. CASE IsAdded(x, m, T)
    BY <2>2 DEF IsAdded, ItemWith, KindIsTrue, AllKinds, MatchKinds
  <2>3. CASE IsRemoved(x, m, B)
    BY <2>3 DEF IsRemoved, ItemWith, KindIsTrue, AllKinds, MatchKinds
  <2>. QED BY <1>4, <2>1, <2>2, <2>3 DEF IsShown
<1>5. \A i \in DOMAIN items : KindIsTrue(items[i]) /\ items[i].kind \in AllKinds
  BY <1>1, <1>4 DEF Shows
<1>6. Len(items) \in Nat /\ DOMAIN items = 1..Len(items)
  <2> DEFINE v == Matches(Range(base), Range(target))
             gone == Without(base, Bases(Matched(v)))
  <2>1. DiffIs(items, base, target, v, gone)
    BY BlockDiffIs
  <2>2. Len(target) \in Nat
    BY SideIsPlaced
  <2>. HIDE DEF v, gone
  <2>. QED BY <2>1, <2>2 DEF DiffIs
<1>7. Len(items) = SumOfKinds(items, AllKinds)
  <2>1. \A i \in 1..Len(items) : items[i].kind \in AllKinds
    BY <1>5, <1>6
  <2>2. IsFiniteSet(AllKinds)
    BY AllKindsAreFinite
  <2>3. SumOfKinds(items, AllKinds) = Len(items)
    BY <1>6, <2>1, <2>2, KindsMakeTheWhole
  <2>. QED BY <2>3
<1>8. \A k \in AllKinds : k # "none"
  BY DEF AllKinds, MatchKinds
<1>9. ASSUME NEW b \in B PROVE \E i \in DOMAIN items : items[i].base = b
  <2>1. CASE b \in Bases(Matched(m))
    <3>1. PICK k \in MatchKinds : \E p \in m[k] : p[1] = b
      BY <2>1, MatchedIs
    <3>2. PICK p \in m[k] : p[1] = b
      BY <3>1
    <3>3. IsShown(ItemWith(k, p[1], p[2]), m, B, T)
      BY <3>2 DEF IsShown, IsMatch
    <3>4. ItemWith(k, p[1], p[2]).base = b
      BY <3>2 DEF ItemWith
    <3>. QED BY <1>1, <3>3, <3>4 DEF Shows
  <2>2. CASE b \notin Bases(Matched(m))
    <3>1. IsShown(ItemWith("removed", b, Nobody), m, B, T)
      BY <2>2 DEF IsShown, IsRemoved
    <3>2. ItemWith("removed", b, Nobody).base = b
      BY DEF ItemWith
    <3>. QED BY <1>1, <3>1, <3>2 DEF Shows
  <2>. QED BY <2>1, <2>2
<1>10. ASSUME NEW t \in T PROVE \E i \in DOMAIN items : items[i].target = t
  <2>1. CASE t \in Targets(Matched(m))
    <3>0. t \in Targets(Matched(m)) <=> \E k \in MatchKinds : \E p \in m[k] : p[2] = t
      BY MatchedIs
    <3>1. PICK k \in MatchKinds : \E p \in m[k] : p[2] = t
      BY <2>1, <3>0
    <3>2. PICK p \in m[k] : p[2] = t
      BY <3>1
    <3>3. IsShown(ItemWith(k, p[1], p[2]), m, B, T)
      BY <3>2 DEF IsShown, IsMatch
    <3>4. ItemWith(k, p[1], p[2]).target = t
      BY <3>2 DEF ItemWith
    <3>. QED BY <1>1, <3>3, <3>4 DEF Shows
  <2>2. CASE t \notin Targets(Matched(m))
    <3>1. IsShown(ItemWith("added", Nobody, t), m, B, T)
      BY <2>2 DEF IsShown, IsAdded
    <3>2. ItemWith("added", Nobody, t).target = t
      BY DEF ItemWith
    <3>. QED BY <1>1, <3>1, <3>2 DEF Shows
  <2>. QED BY <2>1, <2>2
<1>11. ASSUME NEW side, NEW id, \E i \in DOMAIN items : items[i][side].id = id
       PROVE  ChangeOf(items, side, id) # "none"
  <2> DEFINE i == CHOOSE j \in DOMAIN items : items[j][side].id = id
  <2>1. i \in DOMAIN items
    BY <1>11
  <2>2. ChangeOf(items, side, id) = items[i].kind
    BY <1>11 DEF ChangeOf
  <2>. HIDE DEF i
  <2>. QED BY <2>1, <2>2, <1>5, <1>8
<1>12. SideFits({[block |-> b.id] : b \in B}, items, "base")
  <2>1. ASSUME NEW r \in {[block |-> b.id] : b \in B} PROVE ChangeOf(items, "base", r.block) # "none"
    <3>1. PICK b \in B : r = [block |-> b.id]
      BY <2>1
    <3>2. \E i \in DOMAIN items : items[i]["base"].id = b.id
      BY <1>9
    <3>. QED BY <3>1, <3>2, <1>11
  <2>. HIDE DEF B
  <2>. QED BY <2>1 DEF SideFits
<1>13. SideFits({[block |-> t.id] : t \in T}, items, "target")
  <2>1. ASSUME NEW r \in {[block |-> t.id] : t \in T} PROVE ChangeOf(items, "target", r.block) # "none"
    <3>1. PICK t \in T : r = [block |-> t.id]
      BY <2>1
    <3>2. \E i \in DOMAIN items : items[i]["target"].id = t.id
      BY <1>10
    <3>. QED BY <3>1, <3>2, <1>11
  <2>. HIDE DEF T
  <2>. QED BY <2>1 DEF SideFits
<1>14. \A i \in Range(items) : KindIsTrue(i)
  BY <1>5 DEF Range
<1>. QED BY <1>7, <1>12, <1>13, <1>14

-----------------------------------------------------------------------------
(* The difference of facts. *)

LEMMA RowsOfNumbers ==
    ASSUME NEW rows \in SUBSET FactRows, IsFiniteSet(rows)
    PROVE  /\ Facts(rows) \in SUBSET Nat /\ IsFiniteSet(Facts(rows))
           /\ \A f : Meanings(rows, f) \in SUBSET Nat /\ IsFiniteSet(Meanings(rows, f))
           /\ \A f : f \in Facts(rows) <=> Meanings(rows, f) # {}
<1>1. \A r \in rows : r.fact \in Nat /\ r.key \in Nat
  BY DEF FactRows
<1>2. Facts(rows) \in SUBSET Nat
  BY <1>1 DEF Facts
<1>3. IsFiniteSet(Facts(rows))
  <2> DEFINE g == [r \in rows |-> r.fact]
  <2>1. g \in Surjection(rows, Facts(rows))
    BY DEF Surjection, Facts
  <2>. HIDE DEF g
  <2>. QED BY <2>1, FS_Surjection
<1>4. ASSUME NEW f
      PROVE  /\ Meanings(rows, f) \in SUBSET Nat /\ IsFiniteSet(Meanings(rows, f))
             /\ f \in Facts(rows) <=> Meanings(rows, f) # {}
  <2> DEFINE mine == {x \in rows : x.fact = f}
             g == [r \in mine |-> r.key]
  <2>1. mine \in SUBSET rows /\ IsFiniteSet(mine)
    BY FS_Subset
  <2>2. Meanings(rows, f) = {r.key : r \in mine}
    BY DEF Meanings
  <2>3. g \in Surjection(mine, Meanings(rows, f))
    <3>. HIDE DEF mine
    <3>. QED BY <2>2 DEF Surjection
  <2>4. IsFiniteSet(Meanings(rows, f))
    <3>. HIDE DEF g, mine
    <3>. QED BY <2>1, <2>3, FS_Surjection
  <2>. QED BY <2>2, <2>4, <1>1 DEF Facts
<1>. QED BY <1>2, <1>3, <1>4

\* The groups of a fact are none exactly if the revision does not have the fact.
LEMMA GroupsOfFact ==
    ASSUME NEW rows \in SUBSET FactRows, IsFiniteSet(rows), NEW f
    PROVE  ValueGroups(rows, f) = << >> <=> f \notin Facts(rows)
<1> DEFINE K == Meanings(rows, f)
           R == {p \in K \X K : p[1] < p[2]}
           rank == [x \in K |-> Cardinality({y \in K : y < x})]
           keys == Ranked(K, rank)
<1>1. K \in SUBSET Nat /\ IsFiniteSet(K) /\ (f \in Facts(rows) <=> K # {})
  BY RowsOfNumbers
<1>. HIDE DEF K
<1>2. StrictOrder(R, K)
  BY <1>1 DEF StrictOrder
<1>3. \A x \in K : {y \in K : y < x} = Below(K, R, x)
  BY DEF Below
<1>4. \A x \in K : rank[x] = Cardinality(Below(K, R, x))
  <2>. HIDE DEF R
  <2>. QED BY <1>3
<1>5. Lists(keys, K) /\ keys \in Seq(K)
  <2>. HIDE DEF R, rank
  <2>. QED BY <1>1, <1>2, <1>4, RankedInOrder
<1>6. ValueGroups(rows, f) = [i \in DOMAIN keys |-> ValueGroup(rows, f, keys[i])]
  BY DEF ValueGroups, Sorted, K
<1>. HIDE DEF keys
<1>7. K = {} <=> DOMAIN keys = {}
  <2>1. ASSUME K = {} PROVE DOMAIN keys = {}
    BY <1>5, <2>1, FS_EmptySet DEF Lists
  <2>. QED BY <2>1, <1>5 DEF Lists
<1>8. DOMAIN ValueGroups(rows, f) = DOMAIN keys
  BY <1>6
<1>9. DOMAIN keys = {} => ValueGroups(rows, f) = << >>
  BY <1>6
<1>10. DOMAIN << >> = {}
  OBVIOUS
<1>. QED BY <1>1, <1>7, <1>8, <1>9, <1>10

LEMMA EarliestIs ==
    ASSUME NEW rows \in SUBSET FactRows, NEW f \in Facts(rows)
    PROVE  EarliestBlock(rows, f) \in Nat
<1> DEFINE B == {r.block : r \in {x \in rows : x.fact = f}}
<1>1. B \in SUBSET Nat /\ B # {}
  BY DEF Facts, FactRows
<1>. HIDE DEF B
<1>2. \E x \in B : \A y \in B : x <= y
  BY <1>1, LeastNumber
<1>3. Min(B) \in B
  BY <1>2 DEF Min
<1>. QED BY <1>1, <1>3 DEF EarliestBlock, B

LEMMA EarliestFirst ==
    ASSUME NEW rows \in SUBSET FactRows, IsFiniteSet(rows)
    PROVE  Lists(ByEarliest(rows), Facts(rows)) /\ ByEarliest(rows) \in Seq(Facts(rows))
<1> DEFINE F == Facts(rows)
           at == [f \in F |-> EarliestBlock(rows, f)]
           IsAhead(f, g) == at[f] < at[g] \/ (at[f] = at[g] /\ f < g)
           R == {p \in F \X F : IsAhead(p[1], p[2])}
           rank == [x \in F |-> Cardinality({y \in F :
                       InPlace([block |-> EarliestBlock(rows, y), link |-> y],
                               [block |-> EarliestBlock(rows, x), link |-> x])})]
<1>1. F \in SUBSET Nat /\ IsFiniteSet(F)
  BY RowsOfNumbers
<1>2. \A f \in F : at[f] \in Nat /\ at[f] = EarliestBlock(rows, f)
  BY EarliestIs
<1>3. StrictOrder(R, F)
  <2>. HIDE DEF F, at
  <2>. QED BY <1>1, <1>2 DEF StrictOrder
<1>4. \A x \in F : rank[x] = Cardinality(Below(F, R, x))
  <2>1. ASSUME NEW x \in F
        PROVE  {y \in F : InPlace([block |-> EarliestBlock(rows, y), link |-> y],
                                  [block |-> EarliestBlock(rows, x), link |-> x])}
                 = Below(F, R, x)
    <3>. HIDE DEF F, at
    <3>. QED BY <1>2, <2>1 DEF InPlace, Below
  <2>. HIDE DEF F, R
  <2>. QED BY <2>1
<1>5. Lists(Ranked(F, rank), F) /\ Ranked(F, rank) \in Seq(F)
  <2>. HIDE DEF F, R, rank
  <2>. QED BY <1>1, <1>3, <1>4, RankedInOrder
<1>6. ByEarliest(rows) = Ranked(F, rank)
  BY DEF ByEarliest, Sorted
<1>. QED BY <1>5, <1>6

FactItem(base, target, f) ==
    [fact |-> f, kind |-> FactChange(base, target, f),
     base |-> ValueGroups(base, f), target |-> ValueGroups(target, f)]

\* A difference tells of each fact of either side once.
FactDiffIs(items, base, target) ==
    \E order :
        /\ Lists(order, Facts(base) \cup Facts(target))
        /\ order \in Seq(Facts(base) \cup Facts(target))
        /\ items = [i \in DOMAIN order |-> FactItem(base, target, order[i])]

\* One list after the other, without what the other has.
LEMMA ListsJoin ==
    ASSUME NEW A, NEW B, NEW a, NEW b, Lists(a, A), Lists(b, B), a \in Seq(A), b \in Seq(B),
           IsFiniteSet(A), IsFiniteSet(B)
    PROVE  Lists(b \o Without(a, B), A \cup B) /\ b \o Without(a, B) \in Seq(A \cup B)
<1> DEFINE left == {i \in 1..Len(a) : a[i] \notin B}
           rest == Without(a, B)
           n == Len(b)
           k == Len(rest)
           seq == b \o rest
<1>1. rest \in Seq(A) /\ Keeps(rest, left, a)
  BY WithoutKeeps
<1>2. /\ Len(a) \in Nat /\ DOMAIN a = 1..Len(a) /\ n \in Nat /\ DOMAIN b = 1..n
  OBVIOUS
<1>3. k \in Nat /\ DOMAIN rest = 1..k
  BY <1>1
<1>. HIDE DEF rest
<1>4. /\ \A i \in 1..k : rest[i] \in A /\ rest[i] \notin B
      /\ \A x \in A : x \notin B => \E i \in 1..k : rest[i] = x
      /\ \A i, j \in 1..k : rest[i] = rest[j] => i = j
  <2>1. /\ \A i \in 1..k : \E j \in left : rest[i] = a[j]
        /\ \A j \in left : \E i \in 1..k : rest[i] = a[j]
        /\ (\A i, j \in 1..Len(a) : a[i] = a[j] => i = j) =>
              \A i, j \in 1..k : rest[i] = rest[j] => i = j
    BY <1>1 DEF Keeps
  <2>2. /\ \A i, j \in 1..Len(a) : a[i] = a[j] => i = j
        /\ \A i \in 1..Len(a) : a[i] \in A
        /\ \A x \in A : \E i \in 1..Len(a) : a[i] = x
    BY <1>2 DEF Lists
  <2>3. \A i \in 1..k : rest[i] \in A /\ rest[i] \notin B
    <3>1. \A j \in left : a[j] \in A /\ a[j] \notin B
      BY <2>2
    <3>. HIDE DEF left, k
    <3>. QED BY <2>1, <3>1
  <2>4. \A x \in A : x \notin B => \E i \in 1..k : rest[i] = x
    <3>1. \A x \in A : x \notin B => \E j \in left : a[j] = x
      BY <2>2
    <3>. HIDE DEF left, k
    <3>. QED BY <2>1, <3>1
  <2>. HIDE DEF left, k
  <2>. QED BY <2>1, <2>2, <2>3, <2>4
<1>5. /\ \A i \in 1..n : b[i] \in B
      /\ \A x \in B : \E i \in 1..n : b[i] = x
      /\ \A i, j \in 1..n : b[i] = b[j] => i = j
  BY <1>2 DEF Lists
<1>6. b \in Seq(A \cup B) /\ rest \in Seq(A \cup B)
  <2>1. b \in [1..n -> A \cup B] /\ rest \in [1..k -> A \cup B]
    <3>1. b \in [1..n -> B] /\ rest \in [1..k -> A]
      BY <1>1, <1>2, <1>3
    <3>. QED BY <3>1
  <2>. QED BY <2>1, <1>2, <1>3
<1>7. /\ seq \in Seq(A \cup B) /\ Len(seq) = n + k
      /\ \A i \in 1..(n + k) : seq[i] = IF i <= n THEN b[i] ELSE rest[i - n]
  BY <1>6, <1>2, <1>3
<1>8. DOMAIN seq = 1..(n + k) /\ n + k \in Nat
  BY <1>7, <1>2, <1>3
<1>. HIDE DEF seq, n, k, left
<1>9. \A i \in 1..(n + k) : (i <= n /\ i \in 1..n) \/ (~(i <= n) /\ i - n \in 1..k)
  BY <1>8, <1>2, <1>3 DEF n, k
<1>10. \A x \in A \cup B : \E i \in 1..(n + k) : seq[i] = x
  <2>1. ASSUME NEW x \in B PROVE \E i \in 1..(n + k) : seq[i] = x
    <3>1. PICK i \in 1..n : b[i] = x
      BY <1>5
    <3>2. i \in 1..(n + k) /\ i <= n
      BY <1>2, <1>3 DEF n, k
    <3>. QED BY <3>1, <3>2, <1>7
  <2>2. ASSUME NEW x \in A, x \notin B PROVE \E i \in 1..(n + k) : seq[i] = x
    <3>1. PICK i \in 1..k : rest[i] = x
      BY <1>4, <2>2
    <3>2. n + i \in 1..(n + k) /\ ~(n + i <= n) /\ (n + i) - n = i
      BY <1>2, <1>3 DEF n, k
    <3>. QED BY <3>1, <3>2, <1>7
  <2>. QED BY <2>1, <2>2
<1>11. \A i, j \in 1..(n + k) : seq[i] = seq[j] => i = j
  <2>. SUFFICES ASSUME NEW i \in 1..(n + k), NEW j \in 1..(n + k), seq[i] = seq[j]
                PROVE  i = j
    OBVIOUS
  <2>1. CASE i <= n /\ j <= n
    <3>1. i \in 1..n /\ j \in 1..n
      BY <2>1, <1>9
    <3>2. b[i] = b[j]
      BY <2>1, <1>7
    <3>. QED BY <3>1, <3>2, <1>5
  <2>2. CASE ~(i <= n) /\ ~(j <= n)
    <3>1. i - n \in 1..k /\ j - n \in 1..k /\ ~(i <= n) /\ ~(j <= n)
      BY <2>2, <1>9
    <3>2. rest[i - n] = rest[j - n]
      BY <3>1, <1>7
    <3>3. i - n = j - n
      BY <3>1, <3>2, <1>4
    <3>. QED BY <3>3, <1>8, <1>2 DEF n
  <2>3. ASSUME NEW x \in 1..(n + k), NEW y \in 1..(n + k), x <= n, ~(y <= n)
        PROVE  seq[x] # seq[y]
    <3>1. x \in 1..n /\ y - n \in 1..k /\ ~(y <= n)
      BY <2>3, <1>9
    <3>. QED BY <3>1, <2>3, <1>4, <1>5, <1>7
  <2>. QED BY <2>1, <2>2, <2>3, <1>9
<1>12. IsFiniteSet(1..(n + k)) /\ Cardinality(1..(n + k)) = n + k
  <2>1. 1 \in Int /\ n + k \in Int
    BY <1>8
  <2>2. IsFiniteSet(1..(n + k)) /\
        Cardinality(1..(n + k)) = IF 1 > n + k THEN 0 ELSE (n + k) - 1 + 1
    BY <2>1, FS_Interval
  <2>. QED BY <2>2, <1>8
<1>13. Cardinality(A \cup B) = n + k
  <2>1. seq \in [1..(n + k) -> A \cup B]
    BY <1>7, <1>8
  <2>2. seq \in Bijection(1..(n + k), A \cup B)
    BY <2>1, <1>10, <1>11 DEF Bijection, Injection, Surjection, IsInjective
  <2>3. ExistsBijection(1..(n + k), A \cup B)
    BY <2>2 DEF ExistsBijection
  <2>. QED BY <2>3, <1>12, FS_Bijection
<1>14. \A i \in 1..(n + k) : seq[i] \in A \cup B
  BY <1>7, <1>8
<1>. QED BY <1>7, <1>8, <1>10, <1>11, <1>13, <1>14 DEF Lists, seq, rest

LEMMA FactDiffTells ==
    ASSUME NEW base \in SUBSET FactRows, NEW target \in SUBSET FactRows,
           IsFiniteSet(base), IsFiniteSet(target)
    PROVE  FactDiffIs(FactDiff(base, target), base, target)
<1> DEFINE first == ByEarliest(target)
           rest == ByEarliest(base)
           order == first \o Without(rest, Facts(target))
<1>1. /\ Lists(first, Facts(target)) /\ first \in Seq(Facts(target))
      /\ Lists(rest, Facts(base)) /\ rest \in Seq(Facts(base))
  BY EarliestFirst
<1>2. IsFiniteSet(Facts(base)) /\ IsFiniteSet(Facts(target))
  BY RowsOfNumbers
<1>3. /\ Lists(order, Facts(base) \cup Facts(target))
      /\ order \in Seq(Facts(base) \cup Facts(target))
  <2>. HIDE DEF first, rest
  <2>. QED BY <1>1, <1>2, ListsJoin
<1>4. FactDiff(base, target) = [i \in DOMAIN order |-> FactItem(base, target, order[i])]
  BY DEF FactDiff, FactItem, Where, Without
<1>. HIDE DEF order
<1>. QED BY <1>3, <1>4 DEF FactDiffIs

-----------------------------------------------------------------------------
(* What a difference of facts means for the decisions about the base. *)

LEMMA FactItemIs ==
    ASSUME NEW base \in SUBSET FactRows, NEW target \in SUBSET FactRows,
           IsFiniteSet(base), IsFiniteSet(target), NEW f \in Facts(base) \cup Facts(target)
    PROVE  LET item == FactItem(base, target, f) IN
           /\ item.fact = f
           /\ item.kind \in {"added", "removed", "unchanged", "modified"}
           /\ item.kind = "added" <=> f \notin Facts(base)
           /\ item.kind = "removed" <=> f \notin Facts(target)
           /\ item.kind = "unchanged" => Meanings(base, f) = Meanings(target, f)
           /\ item.base = << >> <=> item.kind = "added"
           /\ item.target = << >> <=> item.kind = "removed"
<1>1. /\ ValueGroups(base, f) = << >> <=> f \notin Facts(base)
      /\ ValueGroups(target, f) = << >> <=> f \notin Facts(target)
  BY GroupsOfFact
<1>. QED BY <1>1 DEF FactItem, FactChange

LEMMA ContextIs ==
    ASSUME NEW effective, NEW item
    PROVE  \/ /\ ContextOf(effective, item) = NoContext
              /\ item.kind = "added" \/ \A e \in Range(effective) : e.fact # item.fact
           \/ /\ item.kind # "added"
              /\ \E e \in Range(effective) :
                   e.fact = item.fact /\ ContextOf(effective, item) = ContextGiven(e)
BY DEF ContextOf

\* The contexts that fit a difference, each of an effective value.
ContextsGiven(effective) ==
    \A e \in Range(effective) : ContextIsValid(ContextGiven(e), Range(e.resolution.values))

LEMMA ContextFits ==
    ASSUME NEW base \in SUBSET FactRows, NEW target \in SUBSET FactRows, NEW items,
           IsFiniteSet(base), IsFiniteSet(target), FactDiffIs(items, base, target),
           NEW effective, ContextsFit(items, effective), ContextsGiven(effective),
           NEW n \in DOMAIN items
    PROVE  LET c == ContextOf(effective, items[n]) IN
           \/ c = NoContext
           \/ items[n].kind # "added" /\ ContextIsValid(c, BaseValues(items[n]))
<1>1. PICK order :
        /\ Lists(order, Facts(base) \cup Facts(target))
        /\ items = [i \in DOMAIN order |-> FactItem(base, target, order[i])]
  BY DEF FactDiffIs
<1>2. \A i, j \in DOMAIN items : items[i].fact = items[j].fact => i = j
  <2>1. DOMAIN items = DOMAIN order /\ \A i \in DOMAIN items : items[i].fact = order[i]
    BY <1>1 DEF FactItem
  <2>2. \A i, j \in DOMAIN order : order[i] = order[j] => i = j
    BY <1>1 DEF Lists
  <2>. QED BY <2>1, <2>2
<1>3. CASE ContextOf(effective, items[n]) = NoContext
  BY <1>3
<1>4. CASE items[n].kind # "added" /\ \E e \in Range(effective) :
             e.fact = items[n].fact /\ ContextOf(effective, items[n]) = ContextGiven(e)
  <2>1. PICK e \in Range(effective) :
           e.fact = items[n].fact /\ ContextOf(effective, items[n]) = ContextGiven(e)
    BY <1>4
  <2>2. PICK i \in DOMAIN items :
          /\ items[i].fact = e.fact
          /\ Range(MemberValues(e)) \subseteq BaseValues(items[i])
          /\ Range(e.resolution.values) \subseteq Range(MemberValues(e))
    BY <2>1 DEF ContextsFit
  <2>3. i = n
    BY <1>2, <2>1, <2>2
  <2>4. Range(e.resolution.values) \subseteq BaseValues(items[n])
    BY <2>2, <2>3
  <2>5. ContextIsValid(ContextGiven(e), Range(e.resolution.values))
    BY <2>1 DEF ContextsGiven
  <2>6. ContextIsValid(ContextGiven(e), BaseValues(items[n]))
    BY <2>4, <2>5 DEF ContextIsValid
  <2>. QED BY <1>4, <2>1, <2>6
<1>. QED BY <1>3, <1>4, ContextIs

LEMMA ImpactItemHolds ==
    ASSUME NEW base \in SUBSET FactRows, NEW target \in SUBSET FactRows, NEW items,
           IsFiniteSet(base), IsFiniteSet(target), FactDiffIs(items, base, target),
           NEW effective, ContextsFit(items, effective), ContextsGiven(effective),
           NEW n \in DOMAIN items
    PROVE  ImpactItemIsValid(ImpactItem(items[n], effective))
<1>1. PICK order :
        /\ Lists(order, Facts(base) \cup Facts(target))
        /\ items = [i \in DOMAIN order |-> FactItem(base, target, order[i])]
  BY DEF FactDiffIs
<1>2. items[n] = FactItem(base, target, order[n]) /\ order[n] \in Facts(base) \cup Facts(target)
  BY <1>1 DEF Lists
<1> DEFINE item == items[n]
           c == ContextOf(effective, item)
           i == ImpactItem(item, effective)
<1>3. /\ item.kind \in {"added", "removed", "unchanged", "modified"}
      /\ item.base = << >> <=> item.kind = "added"
      /\ item.target = << >> <=> item.kind = "removed"
  BY <1>2, FactItemIs
<1>4. c = NoContext \/ (item.kind # "added" /\ ContextIsValid(c, BaseValues(item)))
  BY ContextFits
<1>5. /\ i.change = item.kind /\ i.impact = Impact(item, c) /\ i.context = c
      /\ i.review = RequiresReview(Impact(item, c))
      /\ i.base = item.base /\ i.target = item.target
  BY DEF ImpactItem
<1>6. BaseValues(i) = BaseValues(item)
  BY <1>5 DEF BaseValues
<1>7. ContextIsValid(c, BaseValues(item)) =>
        c.status \in {"resolved", "pending_review", "deferred", "unreviewed_compatible"}
  BY DEF ContextIsValid
<1>8. c # NoContext => ContextIsValid(c, BaseValues(item)) /\ item.kind # "added"
  BY <1>4
<1>9. /\ Impact(item, c) = "unchanged_no_review_context" =>
           item.kind = "unchanged" /\ c = NoContext
      /\ Impact(item, c) = "unchanged_resolved" =>
           item.kind = "unchanged" /\ c # NoContext /\ c.status = "resolved"
      /\ Impact(item, c) = "unchanged_unresolved" =>
           item.kind = "unchanged" /\ c # NoContext /\ c.status # "resolved"
      /\ item.kind # "unchanged" => Impact(item, c) = item.kind
      /\ item.kind = "unchanged" => Impact(item, c) \in
           {"unchanged_resolved", "unchanged_no_review_context", "unchanged_unresolved"}
  <2>. HIDE DEF item, c
  <2>. QED BY <1>3 DEF Impact
<1>. HIDE DEF item, c, i
<1>10. ImpactItemIsValid(i)
  BY <1>3, <1>5, <1>6, <1>7, <1>8, <1>9 DEF ImpactItemIsValid
<1>. QED BY <1>10 DEF i, item

\* What is built of a difference and of contexts that fit is accepted by its readers.
LEMMA ImpactIsAuthentic ==
    ASSUME NEW base \in SUBSET FactRows, NEW target \in SUBSET FactRows, NEW items,
           IsFiniteSet(base), IsFiniteSet(target), FactDiffIs(items, base, target),
           NEW effective, ContextsFit(items, effective), ContextsGiven(effective), NEW quality
    PROVE  AuthenticImpact(UpdateImpact(items, effective, quality))
<1> DEFINE impacts == [i \in DOMAIN items |-> ImpactItem(items[i], effective)]
           impact == UpdateImpact(items, effective, quality)
<1>1. PICK order :
        /\ Lists(order, Facts(base) \cup Facts(target))
        /\ items = [i \in DOMAIN order |-> FactItem(base, target, order[i])]
  BY DEF FactDiffIs
<1>2. DOMAIN impacts = DOMAIN items /\ DOMAIN items = DOMAIN order
  BY <1>1
<1>3. \A i \in DOMAIN impacts : impacts[i].fact = order[i]
  BY <1>1 DEF ImpactItem, FactItem
<1>4. \A i \in DOMAIN impacts : ImpactItemIsValid(impacts[i])
  BY ImpactItemHolds
<1>5. IsInjective([i \in DOMAIN impacts |-> impacts[i].fact])
  <2>. HIDE DEF impacts
  <2>. QED BY <1>1, <1>2, <1>3 DEF IsInjective, Lists
<1>6. /\ impact.items = impacts /\ impact.facts = Len(impacts)
      /\ impact.reviews = Cardinality({i \in DOMAIN impacts : impacts[i].review})
      /\ \A k \in DOMAIN impact.counts :
           impact.counts[k] = Cardinality({i \in DOMAIN impacts : impacts[i].impact = k})
  BY DEF UpdateImpact
<1>. HIDE DEF impacts, impact
<1>7. AuthenticImpact(impact)
  BY <1>4, <1>5, <1>6 DEF AuthenticImpact
<1>. QED BY <1>7 DEF impact

\* Nothing passes without review but a fact that kept its meanings and was settled.
LEMMA PassesOnlyIf ==
    ASSUME NEW base \in SUBSET FactRows, NEW target \in SUBSET FactRows, NEW items,
           IsFiniteSet(base), IsFiniteSet(target), FactDiffIs(items, base, target),
           NEW effective, ContextsFit(items, effective), ContextsGiven(effective),
           NEW n \in DOMAIN items, ~ImpactItem(items[n], effective).review
    PROVE  LET i == ImpactItem(items[n], effective) IN
           /\ Meanings(base, i.fact) = Meanings(target, i.fact)
           /\ \A e \in Range(effective) : e.fact = i.fact => e.resolution.status = "resolved"
<1>1. PICK order :
        /\ Lists(order, Facts(base) \cup Facts(target))
        /\ items = [i \in DOMAIN order |-> FactItem(base, target, order[i])]
  BY DEF FactDiffIs
<1>2. items[n] = FactItem(base, target, order[n]) /\ order[n] \in Facts(base) \cup Facts(target)
  BY <1>1 DEF Lists
<1> DEFINE item == items[n]
           c == ContextOf(effective, item)
           i == ImpactItem(item, effective)
<1>3. /\ item.fact = order[n]
      /\ item.kind \in {"added", "removed", "unchanged", "modified"}
      /\ item.kind = "unchanged" => Meanings(base, order[n]) = Meanings(target, order[n])
  BY <1>2, FactItemIs
<1>4. /\ i.fact = item.fact /\ i.review = RequiresReview(Impact(item, c))
  BY DEF ImpactItem
<1>5. item.kind = "unchanged" /\ (c = NoContext \/ c.status = "resolved")
  <2>1. ~RequiresReview(Impact(item, c))
    BY <1>4
  <2>. HIDE DEF item, c
  <2>2. Impact(item, c) \notin {"unchanged_unresolved", "modified", "added", "removed"}
    BY <2>1 DEF RequiresReview
  <2>. QED BY <2>2, <1>3 DEF Impact
<1>6. ASSUME NEW e \in Range(effective), e.fact = item.fact
      PROVE  e.resolution.status = "resolved"
  <2>1. PICK d \in Range(effective) : d.fact = item.fact /\ c = ContextGiven(d)
    <3>. HIDE DEF item
    <3>. QED BY <1>5, <1>6, ContextIs
  <2>2. d = e
    <3>1. \A x, y \in DOMAIN effective : effective[x].fact = effective[y].fact => x = y
      BY DEF ContextsFit, IsInjective
    <3>2. PICK x \in DOMAIN effective, y \in DOMAIN effective : effective[x] = d /\ effective[y] = e
      BY <1>6, <2>1 DEF Range
    <3>. QED BY <3>1, <3>2, <1>6, <2>1
  <2>3. c # NoContext
    <3>1. c.assessment # 0
      BY <2>1 DEF ContextsGiven, ContextIsValid
    <3>. QED BY <3>1 DEF NoContext
  <2>. QED BY <1>5, <2>1, <2>2, <2>3 DEF ContextGiven
<1>. HIDE DEF item, c
<1>. QED BY <1>3, <1>4, <1>5, <1>6 DEF item

-----------------------------------------------------------------------------
(* Decisions and the rows they are stored in. *)

\* The last of what is picked stood last.
LEMMA LastPicked ==
    ASSUME NEW E, NEW seq \in Seq(E), NEW places \in SUBSET (1..Len(seq))
    PROVE  /\ places = {} => Picked(seq, places) = << >>
           /\ \A x \in places : (\A y \in places : y <= x) =>
                Picked(seq, places) # << >> /\ Last(Picked(seq, places)) = seq[x]
<1> DEFINE kept == Picked(seq, places)
<1>1. kept \in Seq(E) /\ IsFiniteSet(places) /\ Len(kept) = Cardinality(places)
  BY PickedIs
<1>2. PICK order : PickedBy(kept, order, places, seq)
  BY PickedIs
<1>. HIDE DEF kept
<1> DEFINE l == Len(kept)
<1>3. l \in Nat /\ DOMAIN kept = 1..l
  BY <1>1
<1>. HIDE DEF l
<1>4. /\ DOMAIN order = 1..l /\ \A n \in 1..l : kept[n] = seq[order[n]] /\ order[n] \in places
      /\ \A x \in places : \E n \in 1..l : order[n] = x
      /\ \A m, n \in 1..l : m < n => order[m] < order[n]
  BY <1>2, <1>3 DEF PickedBy, Lists, Increasing
<1>5. places = {} => kept = << >>
  <2>1. ASSUME places = {} PROVE l = 0
    <3>1. ~(1 <= l)
      BY <1>4, <2>1, <1>3
    <3>. QED BY <3>1, <1>3
  <2>. QED BY <2>1, <1>1 DEF l
<1>6. ASSUME NEW x \in places, \A y \in places : y <= x
      PROVE  kept # << >> /\ Last(kept) = seq[x]
  <2>1. PICK n \in 1..l : order[n] = x
    BY <1>4
  <2>2. n = l
    <3>1. l \in 1..l /\ order[l] \in places
      BY <1>3, <1>4
    <3>0. \A y \in places : y \in Nat
      OBVIOUS
    <3>2. order[l] <= x /\ order[l] \in Nat /\ x \in Nat
      BY <3>0, <3>1, <1>6
    <3>3. ~(n < l)
      BY <3>1, <3>2, <2>1, <1>4
    <3>. QED BY <3>3, <1>3
  <2>3. kept # << >>
    BY <1>3, <2>1 DEF l
  <2>4. Last(kept) = kept[l]
    BY DEF Last, l
  <2>. QED BY <2>1, <2>2, <2>3, <2>4, <1>4
<1>. QED BY <1>5, <1>6 DEF kept

\* The places of a block are sorted by counting from its first.
LEMMA BlockSorted ==
    ASSUME NEW o \in Nat, NEW l \in Nat
    PROVE  Sorted((o + 1)..(o + l), <) = [n \in 1..l |-> o + n]
<1> DEFINE P == (o + 1)..(o + l)
           order == Sorted(P, <)
<1>1. P \in SUBSET Nat /\ IsFiniteSet(P) /\ Cardinality(P) = l
  <2>1. o + 1 \in Int /\ o + l \in Int
    OBVIOUS
  <2>2. /\ IsFiniteSet((o + 1)..(o + l))
        /\ Cardinality((o + 1)..(o + l)) =
             IF o + 1 > o + l THEN 0 ELSE (o + l) - (o + 1) + 1
    BY <2>1, FS_Interval
  <2>. QED BY <2>2
<1>2. Lists(order, P) /\ order \in Seq(P) /\ Increasing(order)
  <2>. HIDE DEF P
  <2>. QED BY <1>1, NumbersSorted
<1>. HIDE DEF order
<1>3. /\ DOMAIN order = 1..l /\ order = [n \in 1..l |-> order[n]]
      /\ \A n \in 1..l : order[n] \in P
      /\ \A x \in P : \E n \in 1..l : order[n] = x
      /\ \A m, n \in 1..l : m < n => order[m] < order[n]
  <2>1. DOMAIN order = 1..l
    BY <1>1, <1>2 DEF Lists
  <2>2. order = [n \in DOMAIN order |-> order[n]]
    BY <1>2
  <2>. HIDE DEF P
  <2>. QED BY <2>1, <2>2, <1>2 DEF Lists, Increasing
<1> DEFINE S == {k \in 0..l : \A n \in 1..k : order[n] = o + n}
<1>4. 0 \in S
  OBVIOUS
<1>5. ASSUME NEW k \in 0..(l - 1), k \in S PROVE k + 1 \in S
  <2>1. k + 1 \in 1..l /\ o + (k + 1) \in P
    OBVIOUS
  <2>2. PICK j \in 1..l : order[j] = o + (k + 1)
    BY <1>3, <2>1
  <2>3. ~(j <= k)
    <3>1. j <= k => order[j] = o + j
      BY <1>5
    <3>. QED BY <3>1, <2>2
  <2>4. ~(k + 1 < j)
    <3>1. ASSUME k + 1 < j PROVE FALSE
      <4>1. order[k + 1] < o + (k + 1) /\ order[k + 1] \in P
        BY <3>1, <2>1, <2>2, <1>3
      <4> DEFINE i == order[k + 1] - o
      <4>2. i \in 1..k /\ order[k + 1] = o + i
        BY <4>1
      <4>. HIDE DEF i
      <4>3. order[i] = o + i
        BY <1>5, <4>2
      <4>4. i \in 1..l /\ i < k + 1
        BY <4>2
      <4>5. order[i] < order[k + 1]
        BY <4>4, <2>1, <1>3
      <4>. QED BY <4>2, <4>3, <4>5
    <3>. QED BY <3>1
  <2>5. order[k + 1] = o + (k + 1)
    BY <2>2, <2>3, <2>4
  <2>6. \A n \in 1..(k + 1) : n = k + 1 \/ n \in 1..k
    OBVIOUS
  <2>. QED BY <2>5, <2>6, <1>5
<1>6. 0..l \subseteq S
  <2>. HIDE DEF S
  <2>. QED BY <1>4, <1>5, Induction
<1>7. \A n \in 1..l : order[n] = o + n
  BY <1>6
<1>. QED BY <1>3, <1>7 DEF order

Stretch(seq, o, l) == [n \in 1..l |-> seq[o + n]]

LEMMA BlockPicked ==
    ASSUME NEW seq, NEW o \in Nat, NEW l \in Nat,
           NEW places, places = (o + 1)..(o + l)
    PROVE  Picked(seq, places) = Stretch(seq, o, l)
<1> DEFINE order == Sorted((o + 1)..(o + l), <)
<1>1. order = [n \in 1..l |-> o + n]
  BY BlockSorted
<1>2. Picked(seq, places) = [n \in DOMAIN order |-> seq[order[n]]]
  BY DEF Picked
<1>. HIDE DEF order
<1>. QED BY <1>1, <1>2 DEF Stretch

Kinds == {"select_one", "keep_multiple", "confirm_compatible", "defer"}
LoggedRows == [assessment: Nat, values: Seq(Nat), kind: Kinds]
StoredRows == [decision: Nat, assessment: Nat, order: Nat, value: Nat]
RowsOfEntry(log, i) ==
    [n \in DOMAIN log[i].values |->
        [decision |-> i, assessment |-> log[i].assessment, order |-> n,
         value |-> log[i].values[n]]]

\* The rows of decision i stand together, after o others, in their order.
BlockAt(rows, log, i, o) ==
    /\ \A n \in 1..Len(log[i].values) :
         /\ o + n \in 1..Len(rows)
         /\ rows[o + n].value = log[i].values[n] /\ rows[o + n].order = n
    /\ \A p \in 1..Len(rows) :
         rows[p].decision = i <=> p \in (o + 1)..(o + Len(log[i].values))
Blocks(rows, log, k) ==
    /\ \A p \in 1..Len(rows) :
         rows[p].decision \in 1..k /\ rows[p].assessment = log[rows[p].decision].assessment
    /\ \A i \in 1..k : \E o \in Nat : BlockAt(rows, log, i, o)

LEMMA BlocksJoin ==
    ASSUME NEW log \in Seq(LoggedRows), NEW k \in 0..(Len(log) - 1),
           NEW rows \in Seq(StoredRows), Blocks(rows, log, k)
    PROVE  Blocks(rows \o RowsOfEntry(log, k + 1), log, k + 1)
<1> DEFINE more == RowsOfEntry(log, k + 1)
           whole == rows \o more
           o == Len(rows)
           l == Len(log[k + 1].values)
<1>1. k + 1 \in 1..Len(log) /\ log[k + 1] \in LoggedRows /\ k \in Nat
  OBVIOUS
<1>2. /\ o \in Nat /\ l \in Nat /\ DOMAIN log[k + 1].values = 1..l
      /\ \A n \in 1..l : log[k + 1].values[n] \in Nat
  BY <1>1 DEF LoggedRows
<1>3. more \in Seq(StoredRows) /\ Len(more) = l
  <2>1. log[k + 1].assessment \in Nat /\ k + 1 \in Nat
    BY <1>1 DEF LoggedRows
  <2>2. more = [n \in 1..l |-> [decision |-> k + 1, assessment |-> log[k + 1].assessment,
                                order |-> n, value |-> log[k + 1].values[n]]]
    BY <1>2 DEF RowsOfEntry
  <2>3. \A n \in 1..l : more[n] \in StoredRows
    <3>. HIDE DEF l
    <3>. QED BY <1>2, <2>1, <2>2 DEF StoredRows
  <2>4. more \in [1..l -> StoredRows]
    <3>. HIDE DEF l
    <3>. QED BY <2>2, <2>3
  <2>. HIDE DEF more, l
  <2>. QED BY <2>4, <1>2
<1>4. \A n \in 1..l : /\ more[n].decision = k + 1 /\ more[n].value = log[k + 1].values[n]
                     /\ more[n].order = n /\ more[n].assessment = log[k + 1].assessment
  BY <1>2 DEF RowsOfEntry
<1>. HIDE DEF more
<1>5. /\ Len(whole) = o + l
      /\ \A p \in 1..o : whole[p] = rows[p]
      /\ \A n \in 1..l : whole[o + n] = more[n]
  <2>1. Joins(rows, more, whole)
    BY <1>3, JoinIs
  <2>. HIDE DEF l, whole
  <2>. QED BY <2>1, <1>3 DEF Joins
<1>6. \A p \in 1..o : /\ p \in 1..(o + l) /\ rows[p].decision \in 1..k
                     /\ rows[p].assessment = log[rows[p].decision].assessment
  <2>2. \A p \in 1..o : /\ rows[p].decision \in 1..k
                       /\ rows[p].assessment = log[rows[p].decision].assessment
    BY DEF Blocks
  <2>3. \A p \in 1..o : p \in 1..(o + l)
    <3>. HIDE DEF o, l
    <3>. QED BY <1>2
  <2>. QED BY <2>2, <2>3
<1>. HIDE DEF whole, o, l
<1>7. \A p \in 1..(o + l) : p \in 1..o \/ \E n \in 1..l : p = o + n
  <2>1. ASSUME NEW p \in 1..(o + l), p \notin 1..o PROVE p - o \in 1..l /\ p = o + (p - o)
    BY <2>1, <1>2
  <2>. QED BY <2>1
<1>8. \A p \in 1..Len(whole) :
         /\ whole[p].decision \in 1..(k + 1)
         /\ whole[p].assessment = log[whole[p].decision].assessment
  <2>1. \A p \in 1..o : /\ whole[p].decision \in 1..(k + 1)
                       /\ whole[p].assessment = log[whole[p].decision].assessment
    BY <1>1, <1>5, <1>6
  <2>2. \A n \in 1..l : /\ whole[o + n].decision \in 1..(k + 1)
                       /\ whole[o + n].assessment = log[whole[o + n].decision].assessment
    BY <1>1, <1>4, <1>5
  <2>. QED BY <2>1, <2>2, <1>5, <1>7
<1>9. \A n \in 1..l : /\ whole[o + n].decision = k + 1
                     /\ whole[o + n].value = log[k + 1].values[n] /\ whole[o + n].order = n
  BY <1>4, <1>5
<1>10. \A p \in 1..Len(whole) : whole[p].decision = k + 1 <=> p \in (o + 1)..(o + l)
  <2>1. \A n \in 1..l : o + n \in (o + 1)..(o + l) /\ o + n \notin 1..o
    BY <1>2
  <2>2. \A p \in 1..o : p \notin (o + 1)..(o + l)
    BY <1>2
  <2>3. \A p \in 1..o : whole[p].decision # k + 1
    BY <1>1, <1>5, <1>6
  <2>. QED BY <2>1, <2>2, <2>3, <1>5, <1>7, <1>9
<1>11. BlockAt(whole, log, k + 1, o)
  <2>1. \A n \in 1..l : o + n \in 1..Len(whole)
    BY <1>2, <1>5
  <2>. QED BY <2>1, <1>9, <1>10 DEF BlockAt, l
<1>12. ASSUME NEW i \in 1..k PROVE \E q \in Nat : BlockAt(whole, log, i, q)
  <2>1. PICK q \in Nat : BlockAt(rows, log, i, q)
    BY <1>12 DEF Blocks
  <2> DEFINE w == Len(log[i].values)
  <2>2. w \in Nat
    <3>1. log[i] \in LoggedRows
      BY <1>1, <1>12
    <3>2. log[i].values \in Seq(Nat)
      BY <3>1 DEF LoggedRows
    <3>. QED BY <3>2
  <2>3. /\ \A n \in 1..w : /\ q + n \in 1..o /\ rows[q + n].value = log[i].values[n]
                          /\ rows[q + n].order = n
        /\ \A p \in 1..o : rows[p].decision = i <=> p \in (q + 1)..(q + w)
    BY <2>1 DEF BlockAt, o
  <2>. HIDE DEF w
  <2>4. \A n \in 1..w : /\ q + n \in 1..Len(whole) /\ whole[q + n].value = log[i].values[n]
                       /\ whole[q + n].order = n
    <3>1. \A n \in 1..w : q + n \in 1..Len(whole)
      BY <2>3, <1>2, <1>5
    <3>. QED BY <3>1, <2>3, <1>5
  <2>5. (q + 1)..(q + w) \subseteq 1..o
    <3>1. ASSUME NEW p \in (q + 1)..(q + w) PROVE p - q \in 1..w /\ p = q + (p - q)
      BY <2>2
    <3>2. \A p \in (q + 1)..(q + w) : \E n \in 1..w : p = q + n
      BY <3>1
    <3>. QED BY <3>2, <2>3
  <2>6. ASSUME NEW p \in 1..Len(whole) PROVE whole[p].decision = i <=> p \in (q + 1)..(q + w)
    <3>1. CASE p \in 1..o
      BY <3>1, <2>3, <1>5
    <3>2. CASE p \notin 1..o
      <4>1. whole[p].decision = k + 1
        <5>1. p \in 1..(o + l)
          BY <1>5
        <5>2. PICK n \in 1..l : p = o + n
          BY <3>2, <5>1, <1>7
        <5>. QED BY <5>2, <1>9
      <4>2. k + 1 # i
        BY <1>12
      <4>. QED BY <3>2, <4>1, <4>2, <2>5
    <3>. QED BY <3>1, <3>2
  <2>7. BlockAt(whole, log, i, q)
    BY <2>4, <2>6 DEF BlockAt, w
  <2>. QED BY <2>7
<1>13. \A i \in 1..(k + 1) : i = k + 1 \/ i \in 1..k
  BY <1>1
<1>14. \A i \in 1..(k + 1) : \E q \in Nat : BlockAt(whole, log, i, q)
  BY <1>2, <1>11, <1>12, <1>13
<1>. QED BY <1>8, <1>14 DEF Blocks, whole, more

LEMMA RowsStand ==
    ASSUME NEW log \in Seq(LoggedRows)
    PROVE  SelectionRows(log) \in Seq(StoredRows) /\ Blocks(SelectionRows(log), log, Len(log))
<1> DEFINE seqs == [i \in DOMAIN log |-> RowsOfEntry(log, i)]
           n == Len(log)
<1>1. n \in Nat /\ DOMAIN log = 1..n /\ \A i \in 1..n : log[i] \in LoggedRows
  OBVIOUS
<1>2. seqs \in Seq(Seq(StoredRows)) /\ Len(seqs) = n /\ \A i \in 1..n : seqs[i] = RowsOfEntry(log, i)
  <2>1. ASSUME NEW i \in 1..n PROVE RowsOfEntry(log, i) \in Seq(StoredRows)
    <3> DEFINE l == Len(log[i].values)
    <3>1. /\ l \in Nat /\ DOMAIN log[i].values = 1..l /\ \A m \in 1..l : log[i].values[m] \in Nat
          /\ i \in Nat /\ log[i].assessment \in Nat
      BY <1>1 DEF LoggedRows
    <3>2. RowsOfEntry(log, i) \in [1..l -> StoredRows]
      BY <3>1 DEF RowsOfEntry, StoredRows
    <3>. HIDE DEF l
    <3>. QED BY <3>1, <3>2
  <2>2. seqs \in [1..n -> Seq(StoredRows)]
    BY <2>1
  <2>. QED BY <1>1, <2>2
<1>3. SelectionRows(log) = FlattenSeq(seqs)
  BY DEF SelectionRows, RowsOfEntry
<1>. HIDE DEF seqs
<1>4. PICK acc \in [0..n -> Seq(StoredRows)] :
        /\ acc[0] = << >> /\ FlattenSeq(seqs) = acc[n]
        /\ \A k \in 0..(n - 1) : acc[k + 1] = acc[k] \o seqs[k + 1]
  <2>1. \E acc \in [0..Len(seqs) -> Seq(StoredRows)] :
           /\ acc[0] = << >> /\ FlattenSeq(seqs) = acc[Len(seqs)]
           /\ \A k \in 0..(Len(seqs) - 1) : acc[k + 1] = acc[k] \o seqs[k + 1]
    BY <1>2, FlattenIs
  <2>. QED BY <2>1, <1>2
<1> DEFINE S == {k \in 0..n : Blocks(acc[k], log, k)}
<1>. HIDE DEF n
<1>5. 0 \in S
  BY <1>1, <1>4 DEF Blocks
<1>6. ASSUME NEW k \in 0..(n - 1), k \in S PROVE k + 1 \in S
  <2>1. k + 1 \in 1..n /\ k \in 0..n /\ k + 1 \in 0..n
    BY <1>1
  <2>2. acc[k + 1] = acc[k] \o RowsOfEntry(log, k + 1) /\ acc[k] \in Seq(StoredRows)
    BY <2>1, <1>2, <1>4
  <2>3. k \in 0..(Len(log) - 1) /\ Blocks(acc[k], log, k)
    BY <1>6 DEF n
  <2>4. Blocks(acc[k] \o RowsOfEntry(log, k + 1), log, k + 1)
    BY <2>2, <2>3, BlocksJoin
  <2>. QED BY <2>1, <2>2, <2>4
<1>7. 0..n \subseteq S
  <2>. HIDE DEF S
  <2>. QED BY <1>1, <1>5, <1>6, Induction
<1>8. n \in S /\ n \in 0..n
  BY <1>1, <1>7
<1>. QED BY <1>3, <1>4, <1>8 DEF n

\* Reading the rows of a decision gives what it selected.
LEMMA SelectedIs ==
    ASSUME NEW log \in Seq(LoggedRows), NEW i \in 1..Len(log),
           NEW d, d.id = i
    PROVE  Selected(d, SelectionRows(log)) = log[i].values
<1> DEFINE rows == SelectionRows(log)
           values == log[i].values
           l == Len(values)
<1>1. rows \in Seq(StoredRows) /\ \E o \in Nat : BlockAt(rows, log, i, o)
  BY RowsStand DEF Blocks
<1>. HIDE DEF rows
<1>2. PICK o \in Nat : BlockAt(rows, log, i, o)
  BY <1>1
<1>3. /\ l \in Nat /\ values = [n \in 1..l |-> values[n]]
  <2>0. log[i] \in LoggedRows
    OBVIOUS
  <2>1. values \in Seq(Nat)
    BY <2>0 DEF LoggedRows
  <2>. HIDE DEF values
  <2>. QED BY <2>1
<1> DEFINE places == {p \in DOMAIN rows : rows[p].decision = d.id}
<1>4. places = (o + 1)..(o + l)
  <2>1. DOMAIN rows = 1..Len(rows)
    BY <1>1
  <2>2. /\ \A n \in 1..l : o + n \in 1..Len(rows)
        /\ \A p \in 1..Len(rows) : rows[p].decision = i <=> p \in (o + 1)..(o + l)
    BY <1>2 DEF BlockAt
  <2>. HIDE DEF l, values
  <2>3. ASSUME NEW p \in (o + 1)..(o + l) PROVE p \in 1..Len(rows)
    <3>1. p - o \in 1..l /\ p = o + (p - o)
      BY <1>3
    <3>. QED BY <3>1, <2>2
  <2>. QED BY <2>1, <2>2, <2>3
<1> DEFINE mine == Picked(rows, places)
<1>5. Selected(d, rows) = [n \in DOMAIN mine |-> mine[n].value]
  BY DEF Selected, SelectionsOf, Where
<1>6. mine = [n \in 1..l |-> rows[o + n]]
  <2>1. l \in Nat
    BY <1>3
  <2>. HIDE DEF l, values
  <2>. HIDE DEF places
  <2>2. mine = Stretch(rows, o, l)
    BY <2>1, <1>4, BlockPicked
  <2>. QED BY <2>2 DEF Stretch
<1>. HIDE DEF mine
<1>7. \A n \in 1..l : rows[o + n].value = values[n]
  BY <1>2 DEF BlockAt
<1>8. DOMAIN mine = 1..l /\ \A n \in 1..l : mine[n].value = values[n]
  <2>. HIDE DEF l, values
  <2>. QED BY <1>6, <1>7
<1>. HIDE DEF l
<1>9. [n \in DOMAIN mine |-> mine[n].value] = values
  <2>. HIDE DEF values
  <2>. QED BY <1>3, <1>8
<1>. QED BY <1>5, <1>9 DEF rows

-----------------------------------------------------------------------------
(* What the review of an assessment tells. *)

\* The decisions about an assessment, and the latest of them.
About(log, a) == {i \in 1..Len(log) : log[i].assessment = a.id}
Latest(log, a, x) == x \in About(log, a) /\ \A y \in About(log, a) : y <= x

LEMMA SomeLatest ==
    ASSUME NEW log \in Seq(LoggedRows), NEW a, About(log, a) # {}
    PROVE  \E x \in 1..Len(log) : Latest(log, a, x)
<1>1. Len(log) \in Nat /\ About(log, a) \in SUBSET (1..Len(log))
  BY DEF About
<1>2. Max(About(log, a)) \in About(log, a) /\ \A y \in About(log, a) : y <= Max(About(log, a))
  BY <1>1, MaxIs
<1>. QED BY <1>1, <1>2 DEF Latest

LEMMA HistoryIs ==
    ASSUME NEW log \in Seq(LoggedRows), NEW a
    PROVE  LET history == RowsOf(DecisionsOf(log), a) IN
           /\ About(log, a) = {} => history = << >>
           /\ \A x : Latest(log, a, x) =>
                history # << >> /\ Last(history).id = x /\ Last(history).kind = log[x].kind
           /\ Len(history) = Cardinality(About(log, a)) /\ IsFiniteSet(About(log, a))
<1> DEFINE decisions == DecisionsOf(log)
           n == Len(log)
           E == {decisions[i] : i \in 1..n}
           history == RowsOf(decisions, a)
<1>1. n \in Nat /\ DOMAIN log = 1..n
  OBVIOUS
<1>2. /\ decisions = [i \in 1..n |-> decisions[i]]
      /\ \A i \in 1..n : /\ decisions[i].id = i /\ decisions[i].kind = log[i].kind
                         /\ decisions[i].assessment = log[i].assessment
  BY <1>1 DEF DecisionsOf
<1>. HIDE DEF decisions
<1>3. decisions \in Seq(E) /\ Len(decisions) = n /\ DOMAIN decisions = 1..n
  <2>1. decisions \in [1..n -> E]
    BY <1>2
  <2>. HIDE DEF E, n
  <2>. QED BY <1>1, <2>1
<1>4. About(log, a) \in SUBSET (1..Len(decisions))
  BY <1>3 DEF About
<1>5. history = Picked(decisions, About(log, a))
  <2>1. {i \in DOMAIN decisions : decisions[i].assessment = a.id} = About(log, a)
    BY <1>2, <1>3 DEF About
  <2>2. history = Picked(decisions, {i \in DOMAIN decisions : decisions[i].assessment = a.id})
    BY DEF RowsOf, Where
  <2>. QED BY <2>1, <2>2
<1>. HIDE DEF E, history
<1>6. /\ About(log, a) = {} => history = << >>
      /\ \A x \in About(log, a) : (\A y \in About(log, a) : y <= x) =>
           history # << >> /\ Last(history) = decisions[x]
  BY <1>3, <1>4, <1>5, LastPicked
<1>7. Len(history) = Cardinality(About(log, a)) /\ IsFiniteSet(About(log, a))
  BY <1>3, <1>4, <1>5, PickedIs
<1>8. ASSUME NEW x, Latest(log, a, x)
      PROVE  history # << >> /\ Last(history).id = x /\ Last(history).kind = log[x].kind
  <2>1. x \in About(log, a) /\ x \in 1..n
    BY <1>8 DEF Latest, About
  <2>2. history # << >> /\ Last(history) = decisions[x]
    BY <1>6, <1>8 DEF Latest
  <2>. QED BY <2>1, <2>2, <1>2
<1>. QED BY <1>6, <1>7, <1>8 DEF history, decisions

LEMMA CandidateIs ==
    ASSUME NEW a, a.candidate \in 1..2
    PROVE  CandidateOf(Candidates, a) = Candidates[a.candidate]
<1>1. DOMAIN Candidates = 1..2 /\ \A c \in 1..2 : Candidates[c].id = c
  BY DEF Candidates
<1>2. Range(Candidates) = {Candidates[c] : c \in 1..2}
  BY <1>1 DEF Range
<1>3. /\ \E c \in Range(Candidates) : c.id = a.candidate
      /\ \A c \in Range(Candidates) : c.id = a.candidate => c = Candidates[a.candidate]
  <2>. HIDE DEF Candidates
  <2>. QED BY <1>1, <1>2
<1>. QED BY <1>3 DEF CandidateOf

Selecting == {"select_one", "keep_multiple"}

\* What an item tells of the decisions about its assessment.
Tells(item, a, log) ==
    /\ item.assessment = a.id /\ item.verdict = a.verdict
    /\ item.fact = Candidates[a.candidate].fact
    /\ item.members = Candidates[a.candidate].members
    /\ item.status = ReviewStatus(a.verdict, item.history)
    /\ Len(item.history) = Cardinality(About(log, a)) /\ IsFiniteSet(About(log, a))
    /\ About(log, a) = {} => item.history = << >> /\ item.chosen = << >>
    /\ \A x : Latest(log, a, x) =>
         /\ item.history # << >>
         /\ Last(item.history).id = x /\ Last(item.history).kind = log[x].kind
         /\ item.chosen = IF log[x].kind \in Selecting THEN log[x].values ELSE << >>

LEMMA ItemTells ==
    ASSUME NEW log \in Seq(LoggedRows), NEW a, a.candidate \in 1..2
    PROVE  Tells(ReviewItem(a, Candidates, DecisionsOf(log), SelectionRows(log)), a, log)
<1> DEFINE item == ReviewItem(a, Candidates, DecisionsOf(log), SelectionRows(log))
           history == RowsOf(DecisionsOf(log), a)
<1>1. /\ item.assessment = a.id /\ item.verdict = a.verdict /\ item.history = history
      /\ item.fact = CandidateOf(Candidates, a).fact
      /\ item.members = CandidateOf(Candidates, a).members
      /\ item.status = ReviewStatus(a.verdict, history)
      /\ item.chosen = ChosenNow(history, SelectionRows(log))
  BY DEF ReviewItem
<1>2. CandidateOf(Candidates, a) = Candidates[a.candidate]
  BY CandidateIs
<1>3. /\ About(log, a) = {} => history = << >>
      /\ \A x : Latest(log, a, x) =>
           history # << >> /\ Last(history).id = x /\ Last(history).kind = log[x].kind
      /\ Len(history) = Cardinality(About(log, a)) /\ IsFiniteSet(About(log, a))
  BY HistoryIs
<1>. HIDE DEF history, item
<1>4. About(log, a) = {} => item.chosen = << >>
  BY <1>1, <1>3 DEF ChosenNow
<1>5. ASSUME NEW x, Latest(log, a, x)
      PROVE  item.chosen = IF log[x].kind \in Selecting THEN log[x].values ELSE << >>
  <2>1. x \in 1..Len(log)
    BY <1>5 DEF Latest, About
  <2>2. history # << >> /\ Last(history).id = x /\ Last(history).kind = log[x].kind
    BY <1>3, <1>5
  <2>3. Selected(Last(history), SelectionRows(log)) = log[x].values
    BY <2>1, <2>2, SelectedIs
  <2>. QED BY <1>1, <2>2, <2>3 DEF ChosenNow, Selecting
<1>. QED BY <1>1, <1>2, <1>3, <1>4, <1>5 DEF Tells, item

-----------------------------------------------------------------------------
(* The items of a check of the two candidates. *)

LEMMA FlattenOne ==
    ASSUME NEW E, NEW seqs \in [1..1 -> Seq(E)]
    PROVE  FlattenSeq(seqs) = seqs[1]
<1> DEFINE S == Seq(E)
<1>1. seqs \in Seq(Seq(E)) /\ Len(seqs) = 1 /\ seqs[1] \in Seq(E)
  <2>1. seqs \in [1..1 -> S] /\ 1 \in Nat /\ 1 \in 1..1
    OBVIOUS
  <2>. HIDE DEF S
  <2>2. \A n \in Nat : \A f \in [1..n -> S] : f \in Seq(S) /\ Len(f) = n
    OBVIOUS
  <2>3. seqs \in Seq(S) /\ Len(seqs) = 1 /\ seqs[1] \in S
    BY <2>1, <2>2
  <2>. QED BY <2>3 DEF S
<1>2. \E acc \in [0..Len(seqs) -> Seq(E)] :
           /\ acc[0] = << >> /\ FlattenSeq(seqs) = acc[Len(seqs)]
           /\ \A k \in 0..(Len(seqs) - 1) : acc[k + 1] = acc[k] \o seqs[k + 1]
  BY <1>1, FlattenIs
<1>3. PICK acc \in [0..1 -> Seq(E)] :
           /\ acc[0] = << >> /\ FlattenSeq(seqs) = acc[1]
           /\ \A k \in 0..(1 - 1) : acc[k + 1] = acc[k] \o seqs[k + 1]
  BY <1>1, <1>2
<1>4. acc[1] = << >> \o seqs[1]
  <2>1. 0 \in 0..(1 - 1) /\ 0 + 1 = 1
    OBVIOUS
  <2>. QED BY <1>3, <2>1
<1>. QED BY <1>1, <1>3, <1>4

AssessmentFor(A, c) == CHOOSE a \in A : a.candidate = c

LEMMA OneAssessment ==
    ASSUME NEW A, AssessmentsGiven(A)
    PROVE  /\ \A c \in 1..2 : AssessmentFor(A, c) \in A /\ AssessmentFor(A, c).candidate = c
           /\ \A a \in A : /\ a.candidate \in 1..2 /\ a = AssessmentFor(A, a.candidate)
                           /\ a.batch = 1 /\ a.id \in Nat
                           /\ a.verdict \in {"conflict", "compatible", "insufficient_evidence"}
           /\ \A a, b \in A : a.id = b.id => a = b
<1>1. /\ \A a \in A : /\ a.candidate \in 1..2 /\ a.batch = 1 /\ a.id \in Nat
                      /\ a.verdict \in {"conflict", "compatible", "insufficient_evidence"}
      /\ \A a, b \in A : a.id = b.id => a = b
  BY DEF AssessmentsGiven, OneToOne
<1>2. \A c \in 1..2 : \E a \in A : \A b \in A : b.candidate = c <=> b = a
  BY DEF AssessmentsGiven
<1>3. \A c \in 1..2 : \E a \in A : a.candidate = c
  BY <1>2
<1>4. \A a, b \in A : a.candidate = b.candidate => a = b
  BY <1>1, <1>2
<1>5. \A c \in 1..2 : AssessmentFor(A, c) \in A /\ AssessmentFor(A, c).candidate = c
  BY <1>3 DEF AssessmentFor
<1>. QED BY <1>1, <1>4, <1>5

ItemFor(A, log, c) ==
    ReviewItem(AssessmentFor(A, c), Candidates, DecisionsOf(log), SelectionRows(log))

LEMMA ItemsAre ==
    ASSUME NEW A, AssessmentsGiven(A), NEW log
    PROVE  ItemsOf(A, log) = [c \in 1..2 |-> ItemFor(A, log, c)]
<1> DEFINE here == {a \in A : a.batch = 1}
           places == {i \in DOMAIN Candidates : \E a \in here : a.candidate = Candidates[i].id}
           mine == Picked(Candidates, places)
           Whose(x) == CHOOSE a \in here : a.candidate = x
           items == [i \in DOMAIN mine |->
                       ReviewItem(Whose(mine[i].id), Candidates, DecisionsOf(log), SelectionRows(log))]
           E == {ItemFor(A, log, c) : c \in 1..2}
<1>1. DOMAIN Candidates = 1..2 /\ \A c \in 1..2 : Candidates[c].id = c
  BY DEF Candidates
<1>2. here = A
  BY OneAssessment
<1>3. \A c \in 1..2 : Whose(c) = AssessmentFor(A, c)
  BY <1>2 DEF AssessmentFor
<1>4. places = (0 + 1)..(0 + 2)
  <2>1. \A c \in 1..2 : \E a \in here : a.candidate = c
    BY <1>2, OneAssessment
  <2>. HIDE DEF here
  <2>. QED BY <2>1, <1>1
<1>5. DOMAIN mine = 1..2 /\ \A i \in 1..2 : mine[i] = Candidates[i]
  <2>1. 0 \in Nat /\ 2 \in Nat
    OBVIOUS
  <2>. HIDE DEF places
  <2>2. mine = Stretch(Candidates, 0, 2)
    BY <2>1, <1>4, BlockPicked
  <2>. HIDE DEF mine
  <2>. QED BY <2>2 DEF Stretch
<1>6. items = [c \in 1..2 |-> ItemFor(A, log, c)]
  <2>1. \A i \in 1..2 : mine[i].id = i
    BY <1>1, <1>5
  <2>. HIDE DEF mine, Whose
  <2>. QED BY <2>1, <1>3, <1>5 DEF ItemFor
<1>7. items \in Seq(E)
  <2>1. [c \in 1..2 |-> ItemFor(A, log, c)] \in [1..2 -> E]
    OBVIOUS
  <2>. HIDE DEF items, E
  <2>. QED BY <2>1, <1>6
<1> DEFINE seqs == [b \in 1..1 |-> items]
<1>8. ItemsOf(A, log) = FlattenSeq(seqs)
  <2> DEFINE Own(b) == {a \in A : a.batch = b}
             Rows(b) == Picked(Candidates, {i \in DOMAIN Candidates :
                                  \E a \in Own(b) : a.candidate = Candidates[i].id})
             all == [b \in 1..1 |-> [i \in DOMAIN Rows(b) |->
                       ReviewItem(CHOOSE a \in Own(b) : a.candidate = Rows(b)[i].id,
                                  Candidates, DecisionsOf(log), SelectionRows(log))]]
  <2>1. ItemsOf(A, log) = FlattenSeq(all)
    BY DEF ItemsOf, ReviewItems, Where
  <2>2. all = seqs
    <3>1. \A b \in 1..1 : b = 1
      OBVIOUS
    <3>2. all[1] = items
      OBVIOUS
    <3>. QED BY <3>1, <3>2
  <2>. HIDE DEF all, seqs
  <2>. QED BY <2>1, <2>2
<1>9. seqs \in [1..1 -> Seq(E)] /\ seqs[1] = items
  <2>. HIDE DEF items, E
  <2>. QED BY <1>7
<1>. HIDE DEF seqs, items, E
<1>. QED BY <1>6, <1>8, <1>9, FlattenOne

-----------------------------------------------------------------------------
(* The last decision of each assessment. *)

\* Leaving only the last decisions out of a log keeps the latest one about each.
LEMMA OnlyLastIs ==
    ASSUME NEW log \in Seq(LoggedRows), NEW a
    PROVE  /\ OnlyLast(log) \in Seq(LoggedRows)
           /\ About(log, a) = {} => About(OnlyLast(log), a) = {}
           /\ \A x : Latest(log, a, x) =>
                \E y \in 1..Len(OnlyLast(log)) :
                   Latest(OnlyLast(log), a, y) /\ OnlyLast(log)[y] = log[x]
<1> DEFINE n == Len(log)
           places == {i \in DOMAIN log :
                        \A j \in (i + 1)..Len(log) : log[j].assessment # log[i].assessment}
           kept == Picked(log, places)
<1>1. n \in Nat /\ DOMAIN log = 1..n /\ places \in SUBSET (1..Len(log))
  OBVIOUS
<1>2. OnlyLast(log) = kept
  BY DEF OnlyLast
<1>3. \A i \in places : \A j \in 1..n : log[j].assessment = log[i].assessment => j <= i
  <2>1. \A i \in places : \A j \in (i + 1)..n : log[j].assessment # log[i].assessment
    OBVIOUS
  <2>2. \A i \in places : \A j \in 1..n : ~(j <= i) => j \in (i + 1)..n
    <3>1. \A i \in places : i \in 1..n
      BY <1>1
    <3>. HIDE DEF places
    <3>. QED BY <3>1, <1>1
  <2>. HIDE DEF places
  <2>. QED BY <2>1, <2>2
<1>4. \A x : Latest(log, a, x) => x \in places
  <2>1. ASSUME NEW x, Latest(log, a, x) PROVE x \in places
    <3>1. x \in 1..n /\ log[x].assessment = a.id /\ \A y \in About(log, a) : y <= x
      BY <2>1 DEF Latest, About
    <3>2. ASSUME NEW j \in (x + 1)..n, log[j].assessment = log[x].assessment PROVE FALSE
      <4>1. j \in 1..n /\ ~(j <= x)
        BY <3>1, <1>1
      <4>2. j \in About(log, a)
        BY <3>1, <3>2, <4>1 DEF About
      <4>. QED BY <3>1, <4>1, <4>2
    <3>. QED BY <3>1, <3>2, <1>1
  <2>. QED BY <2>1
<1>. HIDE DEF places
<1>5. kept \in Seq(LoggedRows)
  BY <1>1, PickedIs
<1>6. PICK order : PickedBy(kept, order, places, log)
  BY <1>1, PickedIs
<1>. HIDE DEF kept
<1> DEFINE l == Len(kept)
<1>7. l \in Nat /\ DOMAIN kept = 1..l
  BY <1>5
<1>8. /\ \A m \in 1..l : kept[m] = log[order[m]] /\ order[m] \in places
      /\ \A x \in places : \E m \in 1..l : order[m] = x
      /\ \A m, k \in 1..l : order[m] = order[k] => m = k
  BY <1>6, <1>7 DEF PickedBy, Lists
<1>. HIDE DEF n
<1>9. \A m \in About(kept, a) : m \in 1..l /\ order[m] \in About(log, a)
  <2>1. \A m \in About(kept, a) : m \in 1..l /\ log[order[m]].assessment = a.id /\ order[m] \in 1..Len(log)
    BY <1>1, <1>8 DEF About
  <2>. QED BY <2>1 DEF About
<1>10. ASSUME NEW x, Latest(log, a, x)
       PROVE  \E y \in 1..l : Latest(kept, a, y) /\ kept[y] = log[x]
  <2>1. PICK y \in 1..l : order[y] = x
    BY <1>4, <1>8, <1>10
  <2>2. kept[y] = log[x]
    BY <1>8, <2>1
  <2>3. x \in About(log, a) /\ log[x].assessment = a.id /\ x \in 1..Len(log)
    BY <1>10 DEF Latest, About
  <2>4. y \in About(kept, a)
    BY <2>2, <2>3 DEF About
  <2>5. ASSUME NEW m \in About(kept, a) PROVE m = y
    <3>1. order[m] \in About(log, a) /\ m \in 1..l /\ order[m] \in places
      BY <1>8, <1>9
    <3>2. log[order[m]].assessment = a.id /\ order[m] \in 1..Len(log)
      BY <3>1 DEF About
    <3>3. x <= order[m]
      BY <3>1, <3>2, <2>3, <1>3 DEF n
    <3>4. order[m] <= x
      BY <3>1, <1>10 DEF Latest
    <3>5. order[m] = x
      BY <3>2, <3>3, <3>4, <2>3
    <3>. QED BY <3>1, <3>5, <2>1, <1>8
  <2>6. \A m \in About(kept, a) : m <= y
    BY <2>5
  <2>. QED BY <2>2, <2>4, <2>6 DEF Latest
<1>11. About(log, a) = {} => About(kept, a) = {}
  BY <1>9
<1>. QED BY <1>2, <1>5, <1>10, <1>11

\* Two items of an assessment whose logs end alike about it resolve alike.
ResolveAlike(e, f) == e.resolution = f.resolution /\ e.kind = f.kind /\ e.review = f.review

LEMMA EndsAlike ==
    ASSUME NEW log \in Seq(LoggedRows), NEW other \in Seq(LoggedRows), NEW a, NEW i, NEW j,
           Tells(i, a, log), Tells(j, a, other),
           About(log, a) = {} => About(other, a) = {},
           \A x : Latest(log, a, x) =>
                \E y \in 1..Len(other) : Latest(other, a, y) /\ other[y] = log[x]
    PROVE  ResolveAlike(EffectiveItem(i), EffectiveItem(j))
<1>1. i.members = j.members /\ i.verdict = j.verdict
  BY DEF Tells
<1>2. MembersInOrder(i) = MembersInOrder(j)
  BY <1>1 DEF MembersInOrder
<1>3. CASE About(log, a) = {}
  <2>1. i.history = << >> /\ j.history = << >> /\ i.chosen = << >> /\ j.chosen = << >>
    BY <1>3 DEF Tells
  <2>2. i.status = j.status
    BY <2>1, <1>1 DEF Tells
  <2>. QED BY <1>1, <1>2, <2>1, <2>2 DEF EffectiveItem, Resolution, ResolveAlike
<1>4. CASE About(log, a) # {}
  <2>1. PICK x \in 1..Len(log) : Latest(log, a, x)
    BY <1>4, SomeLatest
  <2>2. PICK y \in 1..Len(other) : Latest(other, a, y) /\ other[y] = log[x]
    BY <2>1
  <2>3. /\ i.history # << >> /\ Last(i.history).kind = log[x].kind
        /\ i.chosen = IF log[x].kind \in Selecting THEN log[x].values ELSE << >>
    BY <2>1 DEF Tells
  <2>4. /\ j.history # << >> /\ Last(j.history).kind = log[x].kind
        /\ j.chosen = IF log[x].kind \in Selecting THEN log[x].values ELSE << >>
    BY <2>2 DEF Tells
  <2>5. i.chosen = j.chosen /\ Last(i.history).kind = Last(j.history).kind
    BY <2>3, <2>4
  <2>6. i.status = j.status
    BY <2>3, <2>4 DEF Tells, ReviewStatus
  <2>. QED BY <1>1, <1>2, <2>3, <2>4, <2>5, <2>6 DEF EffectiveItem, Resolution, ResolveAlike
<1>. QED BY <1>3, <1>4

LEMMA LastRules ==
    ASSUME NEW A, AssessmentsGiven(A), NEW log \in Seq(LoggedRows)
    PROVE  LET all == EffectiveValues(ItemsOf(A, log)).items
               last == EffectiveValues(ItemsOf(A, OnlyLast(log))).items IN
           DOMAIN all = DOMAIN last /\ \A i \in DOMAIN all : ResolveAlike(all[i], last[i])
<1> DEFINE other == OnlyLast(log)
           all == EffectiveValues(ItemsOf(A, log)).items
           last == EffectiveValues(ItemsOf(A, other)).items
<1>1. other \in Seq(LoggedRows)
  BY OnlyLastIs
<1>2. /\ ItemsOf(A, log) = [c \in 1..2 |-> ItemFor(A, log, c)]
      /\ ItemsOf(A, other) = [c \in 1..2 |-> ItemFor(A, other, c)]
  BY ItemsAre
<1>3. /\ all = [c \in 1..2 |-> EffectiveItem(ItemFor(A, log, c))]
      /\ last = [c \in 1..2 |-> EffectiveItem(ItemFor(A, other, c))]
  <2>1. \A items : EffectiveValues(items).items = [i \in DOMAIN items |-> EffectiveItem(items[i])]
    BY DEF EffectiveValues
  <2>. HIDE DEF other
  <2>. QED BY <1>2, <2>1
<1>4. ASSUME NEW c \in 1..2
      PROVE  ResolveAlike(EffectiveItem(ItemFor(A, log, c)), EffectiveItem(ItemFor(A, other, c)))
  <2> DEFINE a == AssessmentFor(A, c)
  <2>1. a.candidate \in 1..2
    BY OneAssessment
  <2>. HIDE DEF a
  <2>2. /\ About(log, a) = {} => About(other, a) = {}
        /\ \A x : Latest(log, a, x) =>
             \E y \in 1..Len(other) : Latest(other, a, y) /\ other[y] = log[x]
    BY OnlyLastIs
  <2>. HIDE DEF other
  <2>3. Tells(ItemFor(A, log, c), a, log) /\ Tells(ItemFor(A, other, c), a, other)
    BY <1>1, <2>1, ItemTells DEF ItemFor, a
  <2>. QED BY <1>1, <2>2, <2>3, EndsAlike
<1>. HIDE DEF all, last
<1>. QED BY <1>3, <1>4 DEF all, last, other

-----------------------------------------------------------------------------
(* The items and their effective values hold before their readers. *)

LEMMA MembersAre ==
    ASSUME NEW c \in 1..2
    PROVE  LET members == [i \in DOMAIN Candidates[c].members |-> Candidates[c].members[i].value] IN
           IsInjective(members) /\ Range(members) = ValuesOf(Candidates[c])
<1> DEFINE rows == Candidates[c].members
           members == [i \in DOMAIN rows |-> rows[i].value]
<1>1. \/ DOMAIN rows = 1..3 /\ \A i \in 1..3 : rows[i].value = i
      \/ DOMAIN rows = 1..2 /\ \A i \in 1..2 : rows[i].value = i + 3
  <2>1. CASE c = 1
    <3>1. rows = <<[value |-> 1, links |-> {1}], [value |-> 2, links |-> {2}],
                   [value |-> 3, links |-> {3}]>>
      BY <2>1 DEF Candidates
    <3>. HIDE DEF rows
    <3>. QED BY <3>1
  <2>2. CASE c = 2
    <3>1. rows = <<[value |-> 4, links |-> {4}], [value |-> 5, links |-> {5}]>>
      BY <2>2 DEF Candidates
    <3>. HIDE DEF rows
    <3>. QED BY <3>1
  <2>. QED BY <2>1, <2>2
<1>2. ValuesOf(Candidates[c]) = {rows[i].value : i \in DOMAIN rows}
  BY DEF ValuesOf, Range
<1>. HIDE DEF rows
<1>3. \A i, j \in DOMAIN rows : rows[i].value = rows[j].value => i = j
  BY <1>1
<1>4. IsInjective(members)
  BY <1>3 DEF IsInjective
<1>5. Range(members) = {rows[i].value : i \in DOMAIN rows}
  BY DEF Range
<1>. QED BY <1>2, <1>4, <1>5 DEF members, rows

LEMMA GivenLogs ==
    ASSUME NEW A, NEW log, LogGiven(log, A)
    PROVE  log \in Seq(LoggedRows)
BY DEF LogGiven, LoggedRows, Kinds

LEMMA LatestFits ==
    ASSUME NEW A, AssessmentsGiven(A), NEW log, LogGiven(log, A),
           NEW a \in A, NEW x, Latest(log, a, x)
    PROVE  /\ x \in Nat \ {0} /\ log[x].kind \in Kinds
           /\ SelectionShape(log[x].kind, Len(log[x].values)) /\ log[x].values \in Seq(Nat)
           /\ IsInjective(log[x].values)
           /\ Range(log[x].values) \subseteq ValuesOf(Candidates[a.candidate])
<1>1. log \in Seq(LoggedRows)
  BY GivenLogs
<1>2. x \in 1..Len(log) /\ log[x].assessment = a.id
  BY DEF Latest, About
<1>3. log[x] \in LoggedRows /\ x \in DOMAIN log /\ x \in Nat \ {0}
  BY <1>1, <1>2
<1>4. PICK b \in A :
         /\ log[x].assessment = b.id /\ SelectionShape(log[x].kind, Len(log[x].values))
         /\ IsInjective(log[x].values)
         /\ Range(log[x].values) \subseteq ValuesOf(CandidateOf(Candidates, b))
  BY <1>3 DEF LogGiven
<1>5. b = a /\ a.candidate \in 1..2
  <2>1. a.candidate \in 1..2 /\ \A c, d \in A : c.id = d.id => c = d
    BY OneAssessment
  <2>2. a.id = b.id
    BY <1>2, <1>4
  <2>. QED BY <2>1, <2>2
<1>6. CandidateOf(Candidates, a) = Candidates[a.candidate]
  BY <1>5, CandidateIs
<1>. QED BY <1>3, <1>4, <1>5, <1>6 DEF LoggedRows

\* What is told of an item that fits.
Holding(item) ==
    /\ ItemFits(item) /\ AuthenticItem(EffectiveItem(item))
    /\ EffectiveItem(item).resolution.status
          \in {"resolved", "pending_review", "unreviewed_compatible", "deferred"}
    /\ EffectiveItem(item).resolution.status = "resolved" <=> item.status = "reviewed"
    /\ EffectiveItem(item).resolution.status = "deferred" <=> item.status = "deferred"

LEMMA ItemHolds ==
    ASSUME NEW A, AssessmentsGiven(A), NEW log, LogGiven(log, A),
           NEW a \in A, NEW item, Tells(item, a, log)
    PROVE  Holding(item)
<1> DEFINE e == EffectiveItem(item)
           r == e.resolution
           members == MembersInOrder(item)
<1>1. log \in Seq(LoggedRows)
  BY GivenLogs
<1>2. /\ a.candidate \in 1..2
      /\ a.verdict \in {"conflict", "compatible", "insufficient_evidence"}
  BY OneAssessment
<1>3. IsInjective(members) /\ Range(members) = ValuesOf(Candidates[a.candidate])
  <2>1. members = [i \in DOMAIN Candidates[a.candidate].members |->
                     Candidates[a.candidate].members[i].value]
    BY DEF Tells, MembersInOrder
  <2>. HIDE DEF members
  <2>. QED BY <1>2, <2>1, MembersAre
<1>4. /\ e.members = item.members /\ e.verdict = a.verdict /\ e.review = item.status
      /\ members = [i \in DOMAIN e.members |-> e.members[i].value]
      /\ r = Resolution(item)
      /\ e.decision = IF item.history = << >> THEN NoDecision ELSE Last(item.history).id
      /\ e.kind = IF item.history = << >> THEN "none" ELSE Last(item.history).kind
  BY DEF EffectiveItem, Tells, MembersInOrder
<1>5. /\ r.values = IF e.kind = "confirm_compatible" THEN members ELSE item.chosen
      /\ r.basis = IF e.kind \in Selecting THEN "human_selection"
                   ELSE IF e.kind = "confirm_compatible" THEN "human_confirmed_compatibility"
                   ELSE "none"
      /\ r.status = IF e.kind = "none"
                    THEN IF a.verdict = "compatible" THEN "unreviewed_compatible"
                         ELSE "pending_review"
                    ELSE IF e.kind = "defer" THEN "deferred" ELSE "resolved"
  BY DEF EffectiveItem, Resolution, Tells, Selecting
<1>6. item.status = ReviewStatus(a.verdict, item.history)
  BY DEF Tells
<1>7. IsInjective(<< >>) /\ Range(<< >>) = {}
  BY DEF IsInjective, Range
<1>. HIDE DEF e, members
<1>8. CASE About(log, a) = {}
  <2>1. item.history = << >> /\ item.chosen = << >>
    BY <1>8 DEF Tells
  <2>2. e.kind = "none" /\ e.decision = NoDecision
    BY <1>4, <2>1
  <2>3. item.status = IF a.verdict = "compatible" THEN "not_required" ELSE "pending_review"
    BY <1>6, <2>1 DEF ReviewStatus
  <2>4. ItemFits(item)
    BY <1>3, <1>7, <2>1 DEF ItemFits, members
  <2>5. /\ r.values = << >> /\ r.basis = "none"
        /\ r.status = IF a.verdict = "compatible" THEN "unreviewed_compatible"
                      ELSE "pending_review"
    BY <1>5, <2>1, <2>2 DEF Selecting
  <2>6. AuthenticItem(e)
    BY <1>2, <1>3, <1>4, <1>7, <2>2, <2>3, <2>5 DEF AuthenticItem
  <2>. QED BY <1>2, <2>3, <2>4, <2>5, <2>6 DEF Holding, e
<1>9. CASE About(log, a) # {}
  <2>1. PICK x \in 1..Len(log) : Latest(log, a, x)
    BY <1>1, <1>9, SomeLatest
  <2> DEFINE k == log[x].kind
             values == log[x].values
  <2>2. /\ x \in Nat \ {0} /\ k \in Kinds
        /\ SelectionShape(k, Len(values)) /\ values \in Seq(Nat)
        /\ IsInjective(values) /\ Range(values) \subseteq ValuesOf(Candidates[a.candidate])
    BY <2>1, LatestFits
  <2>3. /\ item.history # << >> /\ Last(item.history).id = x /\ Last(item.history).kind = k
        /\ item.chosen = IF k \in Selecting THEN values ELSE << >>
    BY <2>1 DEF Tells
  <2>. HIDE DEF k, values
  <2>4. e.kind = k /\ e.decision = x /\ e.decision # NoDecision
    BY <1>4, <2>2, <2>3 DEF NoDecision
  <2>5. item.status = IF k = "defer" THEN "deferred" ELSE "reviewed"
    BY <1>6, <2>3 DEF ReviewStatus
  <2>6. IsInjective(item.chosen) /\ Range(item.chosen) \subseteq Range(members)
    BY <1>3, <1>7, <2>2, <2>3
  <2>7. ItemFits(item)
    <3>1. item.chosen # << >> => k \in {"select_one", "keep_multiple"}
      BY <2>3 DEF Selecting
    <3>. QED BY <1>3, <2>3, <2>6, <3>1 DEF ItemFits, members
  <2>8. k # "none"
    BY <2>2 DEF Kinds
  <2>9. r.status = IF k = "defer" THEN "deferred" ELSE "resolved"
    BY <1>5, <2>4, <2>8
  <2>10. IsInjective(r.values) /\ Range(r.values) \subseteq Range(members)
    BY <1>3, <1>5, <2>6
  <2>11. AuthenticItem(e)
    <3>1. CASE k \in Selecting
      <4>1. /\ r.values = values /\ r.basis = "human_selection" /\ r.status = "resolved"
            /\ e.review = "reviewed"
        BY <1>4, <1>5, <2>3, <2>4, <2>5, <2>9, <3>1 DEF Selecting
      <4>. QED BY <1>3, <1>4, <2>2, <2>4, <2>10, <3>1, <4>1 DEF AuthenticItem, Selecting
    <3>2. CASE k = "confirm_compatible"
      <4>1. /\ r.values = members /\ r.basis = "human_confirmed_compatibility"
            /\ r.status = "resolved" /\ e.review = "reviewed"
        BY <1>4, <1>5, <2>4, <2>5, <2>9, <3>2 DEF Selecting
      <4>. QED BY <1>3, <1>4, <2>4, <2>10, <3>2, <4>1 DEF AuthenticItem
    <3>3. CASE k = "defer"
      <4>1. /\ r.values = << >> /\ r.basis = "none" /\ r.status = "deferred"
            /\ e.review = "deferred"
        BY <1>4, <1>5, <2>3, <2>4, <2>5, <2>9, <3>3 DEF Selecting
      <4>. QED BY <1>3, <1>4, <2>4, <2>10, <3>3, <4>1 DEF AuthenticItem
    <3>. QED BY <2>2, <3>1, <3>2, <3>3 DEF Kinds, Selecting
  <2>. QED BY <2>5, <2>7, <2>9, <2>11 DEF Holding, e
<1>. QED BY <1>8, <1>9

-----------------------------------------------------------------------------
(* The values and the review count the same. *)

LEMMA PartsCount ==
    ASSUME NEW S, IsFiniteSet(S), NEW P \in SUBSET S, NEW Q \in SUBSET S, NEW R \in SUBSET S,
           P \cap Q = {}, P \cap R = {}, Q \cap R = {}, P \cup Q \cup R = S
    PROVE  Cardinality(P) + Cardinality(Q) + Cardinality(R) = Cardinality(S)
<1>1. IsFiniteSet(P) /\ IsFiniteSet(Q) /\ IsFiniteSet(R)
  BY FS_Subset
<1>2. Cardinality(P) \in Nat /\ Cardinality(Q) \in Nat /\ Cardinality(R) \in Nat
  BY <1>1, FS_CardinalityType
<1>3. Cardinality({}) = 0
  BY FS_EmptySet
<1>4. /\ IsFiniteSet(P \cup Q)
      /\ Cardinality(P \cup Q) = Cardinality(P) + Cardinality(Q) - Cardinality(P \cap Q)
  BY <1>1, FS_Union
<1>5. Cardinality((P \cup Q) \cup R) =
        Cardinality(P \cup Q) + Cardinality(R) - Cardinality((P \cup Q) \cap R)
  BY <1>1, <1>4, FS_Union
<1>6. (P \cup Q) \cap R = {} /\ (P \cup Q) \cup R = S
  OBVIOUS
<1>7. Cardinality(P \cap Q) = 0 /\ Cardinality((P \cup Q) \cap R) = 0
  BY <1>3, <1>6
<1>8. Cardinality(P \cup Q) = Cardinality(P) + Cardinality(Q)
  BY <1>2, <1>4, <1>7
<1>9. Cardinality(S) = Cardinality(P \cup Q) + Cardinality(R) - 0
  BY <1>5, <1>6, <1>7
<1>. QED BY <1>2, <1>8, <1>9

LEMMA TwoItems == IsFiniteSet(1..2) /\ Cardinality(1..2) = 2
<1>1. 1 \in Int /\ 2 \in Int
  OBVIOUS
<1>2. IsFiniteSet(1..2) /\ Cardinality(1..2) = IF 1 > 2 THEN 0 ELSE 2 - 1 + 1
  BY <1>1, FS_Interval
<1>. QED BY <1>2

\* The decisions of a review are those of its two items.
LEMMA DecisionsCounted ==
    ASSUME NEW items, DOMAIN items = 1..2,
           \A i \in 1..2 : Len(items[i].history) \in Nat
    PROVE  ReviewProjection(items).decisions =
             Len(items[1].history) + Len(items[2].history)
<1> DEFINE length == [i \in 1..2 |-> Len(items[i].history)]
           F == [p \in Nat \X (1..2) |-> p[1] + length[p[2]]]
           Body(g) == [s \in SUBSET DOMAIN items |->
                         IF s = {} THEN 0
                         ELSE g[s \ {Max(s)}] + Len(items[Max(s)].history)]
           fold == CHOOSE h : h = Body(h)
<1>1. ReviewProjection(items).decisions = fold[DOMAIN items]
  BY DEF ReviewProjection, FoldLeft, MapThenFoldSet
<1>2. /\ length \in [1..2 -> Nat] /\ 2 \in Nat /\ 0 \in Nat
      /\ \A i \in 1..2 : length[i] = Len(items[i].history)
  OBVIOUS
<1>. HIDE DEF length
<1>3. F \in [Nat \X (1..2) -> Nat]
  BY <1>2
<1>4. PICK h \in [SUBSET (1..2) -> Nat] : FoldsTo(h, 2, 0, F)
  <2>. HIDE DEF F
  <2>. QED BY <1>2, <1>3, FoldExists
<1>5. \A s \in SUBSET (1..2) : s # {} => Max(s) \in s
  BY <1>2, MaxIs
<1>6. h = Body(h)
  <2>1. ASSUME NEW s \in SUBSET (1..2)
        PROVE  h[s] = IF s = {} THEN 0
                      ELSE h[s \ {Max(s)}] + Len(items[Max(s)].history)
    <3>1. CASE s = {}
      BY <3>1, <1>4 DEF FoldsTo
    <3>2. CASE s # {}
      <4>1. h[s] = F[<<h[s \ {Max(s)}], Max(s)>>]
        BY <3>2, <1>4 DEF FoldsTo
      <4>2. h[s \ {Max(s)}] \in Nat /\ Max(s) \in 1..2
        BY <3>2, <1>4, <1>5
      <4>. QED BY <3>2, <4>1, <4>2, <1>2
    <3>. QED BY <3>1, <3>2
  <2>. QED BY <1>4, <2>1
<1>7. fold = Body(fold)
  <2>. HIDE DEF Body
  <2>. QED BY <1>6
<1>. HIDE DEF fold
<1>8. \A s \in SUBSET (1..2) : fold[s] = IF s = {} THEN 0
                               ELSE fold[s \ {Max(s)}] + Len(items[Max(s)].history)
  BY <1>7
<1>9. /\ Max(1..2) = 2 /\ (1..2) \ {2} = 1..1 /\ Max(1..1) = 1 /\ (1..1) \ {1} = {}
  <2>1. 1 \in Nat \ {0} /\ 2 \in Nat \ {0} /\ 2 - 1 = 1 /\ 1..(1 - 1) = {}
    OBVIOUS
  <2>. QED BY <2>1, MaxOfInterval
<1>10. 1..2 # {} /\ 1..1 # {} /\ 1..1 \in SUBSET (1..2) /\ 1..2 \in SUBSET (1..2)
  OBVIOUS
<1>11. fold[{}] = 0
  BY <1>8
<1>12. fold[1..1] = 0 + Len(items[1].history)
  BY <1>8, <1>9, <1>10, <1>11
<1>13. fold[1..2] = fold[1..1] + Len(items[2].history)
  BY <1>8, <1>9, <1>10
<1>14. Len(items[1].history) \in Nat
  OBVIOUS
<1>. QED BY <1>1, <1>12, <1>13, <1>14

Counts(items) ==
    LET effective == EffectiveValues(items)
        review == ReviewProjection(items) IN
    /\ effective.resolved + effective.pending + effective.deferred = effective.facts
    /\ effective.resolved = review.statuses["reviewed"]
    /\ effective.deferred = review.statuses["deferred"]
    /\ review.assessments = effective.facts

LEMMA ItemsAreCounted ==
    ASSUME NEW items, items = [i \in 1..2 |-> items[i]], \A i \in 1..2 : Holding(items[i])
    PROVE  Counts(items)
<1> DEFINE effective == EffectiveValues(items)
           review == ReviewProjection(items)
           Marked(statuses) == {i \in 1..2 : EffectiveItem(items[i]).resolution.status \in statuses}
<1>1. DOMAIN items = 1..2 /\ Len(items) = 2
  OBVIOUS
<1>2. /\ effective.facts = 2 /\ review.assessments = 2
      /\ effective.resolved = Cardinality(Marked({"resolved"}))
      /\ effective.pending = Cardinality(Marked({"pending_review", "unreviewed_compatible"}))
      /\ effective.deferred = Cardinality(Marked({"deferred"}))
  <2>1. review.assessments = 2 /\ effective.facts = 2
    BY <1>1 DEF EffectiveValues, ReviewProjection
  <2> DEFINE rows == [i \in DOMAIN items |-> EffectiveItem(items[i])]
  <2>2. /\ effective.resolved = Resolved(rows, {"resolved"})
        /\ effective.pending = Resolved(rows, {"pending_review", "unreviewed_compatible"})
        /\ effective.deferred = Resolved(rows, {"deferred"})
    BY DEF EffectiveValues
  <2>3. \A statuses : Resolved(rows, statuses) = Cardinality(Marked(statuses))
    <3>1. ASSUME NEW statuses
          PROVE  {i \in DOMAIN rows : rows[i].resolution.status \in statuses} = Marked(statuses)
      BY <1>1
    <3>. HIDE DEF rows, Marked
    <3>. QED BY <3>1 DEF Resolved
  <2>. HIDE DEF rows, Marked
  <2>. QED BY <2>1, <2>2, <2>3
<1>3. /\ review.statuses["reviewed"] = Cardinality({i \in 1..2 : items[i].status = "reviewed"})
      /\ review.statuses["deferred"] = Cardinality({i \in 1..2 : items[i].status = "deferred"})
  BY <1>1 DEF ReviewProjection, CountStatus
<1>4. /\ Marked({"resolved"}) = {i \in 1..2 : items[i].status = "reviewed"}
      /\ Marked({"deferred"}) = {i \in 1..2 : items[i].status = "deferred"}
  BY DEF Holding
<1> DEFINE P == Marked({"resolved"})
           Q == Marked({"pending_review", "unreviewed_compatible"})
           R == Marked({"deferred"})
<1>5. /\ P \in SUBSET (1..2) /\ Q \in SUBSET (1..2) /\ R \in SUBSET (1..2)
      /\ P \cap Q = {} /\ P \cap R = {} /\ Q \cap R = {} /\ P \cup Q \cup R = 1..2
  BY DEF Holding
<1>6. Cardinality(P) + Cardinality(Q) + Cardinality(R) = 2
  <2>. HIDE DEF P, Q, R
  <2>. QED BY <1>5, TwoItems, PartsCount
<1>. HIDE DEF Marked, effective, review
<1>. QED BY <1>2, <1>3, <1>4, <1>6 DEF Counts, effective, review

\* All that is promised of the values and the review of a log.
Authentic(A, log) ==
    LET effective == EffectiveValues(ItemsOf(A, log)) IN
    /\ \A item \in Range(ItemsOf(A, log)) : ItemFits(item)
    /\ AuthenticEffective(effective)
    /\ Counts(ItemsOf(A, log))
    /\ ReviewProjection(ItemsOf(A, log)).decisions = Len(log)

LEMMA ValuesAreAuthentic ==
    ASSUME NEW A, AssessmentsGiven(A), NEW log, LogGiven(log, A)
    PROVE  Authentic(A, log)
<1> DEFINE items == ItemsOf(A, log)
           effective == EffectiveValues(items)
           For(c) == AssessmentFor(A, c)
<1>0. log \in Seq(LoggedRows)
  BY GivenLogs
<1>1. items = [c \in 1..2 |-> ItemFor(A, log, c)]
  BY ItemsAre
<1>2. \A c \in 1..2 : For(c) \in A /\ For(c).candidate = c
  BY OneAssessment
<1>. HIDE DEF For, items
<1>3. \A c \in 1..2 : Tells(items[c], For(c), log)
  <2>1. ASSUME NEW c \in 1..2 PROVE Tells(ItemFor(A, log, c), For(c), log)
    <3>1. For(c).candidate \in 1..2
      BY <1>2
    <3>2. Tells(ReviewItem(For(c), Candidates, DecisionsOf(log), SelectionRows(log)), For(c), log)
      BY <1>0, <3>1, ItemTells
    <3>. QED BY <3>2 DEF ItemFor, For
  <2>. QED BY <2>1, <1>1
<1>4. \A c \in 1..2 : Holding(items[c])
  <2>1. ASSUME NEW c \in 1..2 PROVE Holding(items[c])
    <3>1. For(c) \in A /\ Tells(items[c], For(c), log)
      BY <1>2, <1>3
    <3>. QED BY <3>1, ItemHolds
  <2>. QED BY <2>1
<1>5. items = [c \in 1..2 |-> items[c]] /\ DOMAIN items = 1..2
  BY <1>1
<1>6. \A item \in Range(items) : ItemFits(item)
  BY <1>4, <1>5 DEF Range, Holding
<1>7. Counts(items)
  BY <1>4, <1>5, ItemsAreCounted
<1>8. /\ effective.items = [i \in 1..2 |-> EffectiveItem(items[i])]
      /\ effective.facts = 2
      /\ effective.resolved = Resolved(effective.items, {"resolved"})
      /\ effective.pending = Resolved(effective.items, {"pending_review", "unreviewed_compatible"})
      /\ effective.deferred = Resolved(effective.items, {"deferred"})
  <2>1. Len(items) = 2
    BY <1>5
  <2>. QED BY <1>5, <2>1 DEF EffectiveValues
<1>. HIDE DEF effective
<1>9. AuthenticEffective(effective)
  <2>1. \A i \in 1..2 : /\ effective.items[i] = EffectiveItem(items[i])
                        /\ effective.items[i].fact = items[i].fact
                        /\ effective.items[i].assessment = items[i].assessment
    BY <1>8 DEF EffectiveItem
  <2>2. \A i \in 1..2 : effective.items[i].fact = i
    <3>1. \A c \in 1..2 : Candidates[c].fact = c
      BY DEF Candidates
    <3>. QED BY <1>2, <1>3, <2>1, <3>1 DEF Tells
  <2>3. \A i, j \in 1..2 : effective.items[i].assessment = effective.items[j].assessment => i = j
    <3>1. \A a, b \in A : a.id = b.id => a = b
      BY OneAssessment
    <3>2. \A i \in 1..2 : effective.items[i].assessment = For(i).id
      BY <1>3, <2>1 DEF Tells
    <3>. QED BY <1>2, <3>1, <3>2
  <2>4. DOMAIN effective.items = 1..2 /\ Len(effective.items) = 2
    BY <1>8
  <2>5. IsInjective([i \in DOMAIN effective.items |-> effective.items[i].fact])
    BY <2>2, <2>4 DEF IsInjective
  <2>6. IsInjective([i \in DOMAIN effective.items |-> effective.items[i].assessment])
    BY <2>3, <2>4 DEF IsInjective
  <2>7. \A i \in 1..2 : AuthenticItem(effective.items[i])
    BY <1>4, <2>1 DEF Holding
  <2>. QED BY <1>8, <2>4, <2>5, <2>6, <2>7 DEF AuthenticEffective
<1>10. ReviewProjection(items).decisions = Len(log)
  <2>1. /\ IsFiniteSet(1..Len(log)) /\ Cardinality(1..Len(log)) = Len(log)
    <3>1. Len(log) \in Nat
      BY <1>0
    <3>2. 1 \in Int /\ Len(log) \in Int
      BY <3>1
    <3>3. /\ IsFiniteSet(1..Len(log))
          /\ Cardinality(1..Len(log)) = IF 1 > Len(log) THEN 0 ELSE Len(log) - 1 + 1
      BY <3>2, FS_Interval
    <3>. QED BY <3>1, <3>3
  <2> DEFINE P == About(log, For(1))
             Q == About(log, For(2))
             N == 1..Len(log)
  <2>2. P \in SUBSET N /\ Q \in SUBSET N
    BY DEF About
  <2>3. \A a \in A : a = For(1) \/ a = For(2)
    <3>1. \A a \in A : a.candidate \in 1..2 /\ a = For(a.candidate)
      BY OneAssessment DEF For
    <3>2. \A a \in A : a.candidate = 1 \/ a.candidate = 2
      BY <3>1
    <3>. QED BY <3>1, <3>2
  <2>4. P \cup Q = N
    <3>1. ASSUME NEW i \in N PROVE i \in P \/ i \in Q
      <4>1. i \in DOMAIN log
        BY <1>0
      <4>2. PICK a \in A : log[i].assessment = a.id
        BY <4>1 DEF LogGiven
      <4>. QED BY <2>3, <4>2 DEF About
    <3>. QED BY <2>2, <3>1
  <2>5. P \cap Q = {}
    <3>1. For(1).id # For(2).id
      <4>1. \A a, b \in A : a.id = b.id => a = b
        BY OneAssessment
      <4>2. For(1) \in A /\ For(2) \in A /\ For(1).candidate = 1 /\ For(2).candidate = 2
        BY <1>2
      <4>. QED BY <4>1, <4>2
    <3>. QED BY <3>1 DEF About
  <2>6. /\ Len(items[1].history) = Cardinality(P) /\ IsFiniteSet(P)
        /\ Len(items[2].history) = Cardinality(Q) /\ IsFiniteSet(Q)
    BY <1>3 DEF Tells
  <2>. HIDE DEF P, Q
  <2>7. Cardinality(P) \in Nat /\ Cardinality(Q) \in Nat
    BY <2>6, FS_CardinalityType
  <2>8. Cardinality(P) + Cardinality(Q) = Len(log)
    <3>1. {} \in SUBSET N /\ P \cap {} = {} /\ Q \cap {} = {} /\ P \cup Q \cup {} = N
      BY <2>4
    <3>. HIDE DEF N
    <3>2. Cardinality(P) + Cardinality(Q) + Cardinality({}) = Cardinality(N)
      BY <2>1, <2>2, <2>5, <3>1, PartsCount DEF N
    <3>3. Cardinality({}) = 0
      BY FS_EmptySet
    <3>. QED BY <2>1, <2>7, <3>2, <3>3 DEF N
  <2>9. \A i \in 1..2 : Len(items[i].history) \in Nat
    BY <2>6, <2>7
  <2>10. ReviewProjection(items).decisions = Len(items[1].history) + Len(items[2].history)
    BY <1>5, <2>9, DecisionsCounted
  <2>. QED BY <2>6, <2>8, <2>10
<1>. QED BY <1>6, <1>7, <1>9, <1>10 DEF Authentic, effective, items

-----------------------------------------------------------------------------
(* The ledgers of candidates. *)

\* What ConsistencyCandidates finds: sets of values of one fact.
LEMMA CandidatesAre ==
    ASSUME NEW V, ValuesGiven(V)
    PROVE  \A C \in ConsistencyCandidates(V) :
             /\ C # {} /\ C \subseteq V /\ IsFiniteSet(C) /\ FactOf(C) \in Nat
             /\ \A v \in V : v \in C <=> v.fact = FactOf(C)
<1>. SUFFICES ASSUME NEW C \in ConsistencyCandidates(V)
              PROVE  /\ C # {} /\ C \subseteq V /\ IsFiniteSet(C) /\ FactOf(C) \in Nat
                     /\ \A v \in V : v \in C <=> v.fact = FactOf(C)
  OBVIOUS
<1>1. PICK u \in V : C = {v \in V : v.fact = u.fact}
  BY DEF ConsistencyCandidates, OfFact
<1>2. C # {} /\ C \subseteq V /\ \A v \in C : v.fact = u.fact
  BY <1>1
<1>3. FactOf(C) = u.fact
  BY <1>2 DEF FactOf
<1>4. IsFiniteSet(C)
  BY <1>2, FS_Subset DEF ValuesGiven
<1>5. u.fact \in Nat
  BY DEF ValuesGiven, ValueRows
<1>. QED BY <1>1, <1>2, <1>3, <1>4, <1>5

CandidateRow(C) ==
    [fact |-> FactOf(C), members |-> Cardinality(C),
     keys |-> Cardinality(KeysOf(C)), batches |-> Cardinality(BatchesOf(C))]
MemberRow(v) == [fact |-> v.fact, value |-> v.id, key |-> v.key, batch |-> v.batch]
PlanOf(V) == CandidatePlan(V, GroupingPlan(V))

LEMMA PlanIs ==
    ASSUME NEW V
    PROVE  LET K == ConsistencyCandidates(V) IN
           /\ PlanOf(V).candidates = K /\ PlanOf(V).members = Cardinality(UNION K)
           /\ PlanOf(V).result = {{<<v.id, v.key, v.batch>> : v \in C} : C \in K}
           /\ CandidateRows(PlanOf(V)) = {CandidateRow(C) : C \in K}
           /\ MemberRows(PlanOf(V)) = {MemberRow(v) : v \in UNION K}
BY DEF PlanOf, CandidatePlan, CandidateRows, MemberRows, CandidateRow, MemberRow, FactOf

\* The members of a candidate are found by its fact.
LEMMA MembersFound ==
    ASSUME NEW V, ValuesGiven(V), NEW K, K = ConsistencyCandidates(V), NEW C \in K,
           NEW members, members = {MemberRow(v) : v \in UNION K}
    PROVE  MembersOf(CandidateRow(C), members) = {MemberRow(v) : v \in C}
<1>1. \A D \in K : D \subseteq V /\ \A v \in V : v \in D <=> v.fact = FactOf(D)
  BY CandidatesAre
<1>2. \A v \in UNION K : v \in V /\ (v \in C <=> v.fact = FactOf(C))
  BY <1>1
<1>3. \A v \in UNION K : MemberRow(v).fact = v.fact
  BY DEF MemberRow
<1>4. CandidateRow(C).fact = FactOf(C)
  BY DEF CandidateRow
<1>5. \A v \in C : v \in UNION K
  OBVIOUS
<1>6. MembersOf(CandidateRow(C), members) = {m \in members : m.fact = FactOf(C)}
  BY <1>4 DEF MembersOf
<1>. QED BY <1>2, <1>3, <1>5, <1>6

LEMMA LedgersMatch ==
    ASSUME NEW V, ValuesGiven(V)
    PROVE  SubledgersMatch(CandidateRows(PlanOf(V)), MemberRows(PlanOf(V)), PlanOf(V))
<1> DEFINE K == ConsistencyCandidates(V)
           U == UNION K
           rows == {CandidateRow(C) : C \in K}
           members == {MemberRow(v) : v \in U}
<1>1. /\ \A C \in K : C # {} /\ C \subseteq V /\ IsFiniteSet(C) /\ FactOf(C) \in Nat
      /\ \A C \in K : \A v \in V : v \in C <=> v.fact = FactOf(C)
  BY CandidatesAre
<1>2. /\ V \subseteq ValueRows /\ IsFiniteSet(V)
      /\ \A v, w \in V : v.id = w.id => v = w
  BY DEF ValuesGiven
<1>3. U \subseteq V /\ IsFiniteSet(U)
  <2>1. U \subseteq V
    BY <1>1
  <2>. HIDE DEF U
  <2>. QED BY <2>1, <1>2, FS_Subset
<1>4. \A C, D \in K : FactOf(C) = FactOf(D) => C = D
  BY <1>1
<1>5. IsFiniteSet(K)
  <2>1. K \subseteq SUBSET V
    BY <1>1
  <2>. QED BY <2>1, <1>2, FS_SUBSET, FS_Subset
<1>6. Cardinality(rows) = Cardinality(K)
  <2> DEFINE f == [C \in K |-> CandidateRow(C)]
  <2>1. rows = {f[C] : C \in K} /\ \A C \in K : f[C].fact = FactOf(C)
    BY DEF CandidateRow
  <2>. HIDE DEF f, K, rows
  <2>2. \A C, D \in K : f[C] = f[D] => C = D
    BY <2>1, <1>4
  <2>. QED BY <2>1, <2>2, <1>5, ManyAs
<1>7. \A v \in U : MemberRow(v).value = v.id /\ MemberRow(v).fact = v.fact
                   /\ MemberRow(v).key = v.key /\ MemberRow(v).batch = v.batch
  BY DEF MemberRow
<1>8. Cardinality(members) = Cardinality(U)
  <2> DEFINE f == [v \in U |-> MemberRow(v)]
  <2>1. members = {f[v] : v \in U} /\ \A v \in U : f[v] = MemberRow(v)
    OBVIOUS
  <2>. HIDE DEF f, U, members
  <2>2. \A v, w \in U : f[v] = f[w] => v = w
    BY <2>1, <1>2, <1>3, <1>7
  <2>. QED BY <2>1, <2>2, <1>3, ManyAs
<1>9. Cardinality({m.value : m \in members}) = Cardinality(members)
  <2> DEFINE f == [v \in U |-> v.id]
             ids == {m.value : m \in members}
  <2>1. \A v \in U : f[v] = v.id /\ MemberRow(v).value = f[v]
    BY <1>7
  <2>2. \A v, w \in U : f[v] = f[w] => v = w
    BY <1>2, <1>3
  <2>. HIDE DEF f, U
  <2>3. ids = {f[v] : v \in U}
    BY <2>1
  <2>. HIDE DEF ids, members
  <2>4. Cardinality(ids) = Cardinality(U)
    BY <2>2, <2>3, <1>3, ManyAs
  <2>. QED BY <2>4, <1>8 DEF ids
<1>10. {m.fact : m \in members} \subseteq {c.fact : c \in rows}
  <2>1. \A v \in U : \E C \in K : v.fact = CandidateRow(C).fact
    BY <1>1 DEF CandidateRow
  <2>. QED BY <2>1, <1>7
<1>11. \A C \in K : MembersOf(CandidateRow(C), members) = {MemberRow(v) : v \in C}
  <2>. HIDE DEF K, members
  <2>. QED BY MembersFound DEF K, members
<1>12. ASSUME NEW C \in K
       PROVE  LET mine == MembersOf(CandidateRow(C), members) IN
              /\ CandidateRow(C).members = Cardinality(mine)
              /\ CandidateRow(C).keys = Cardinality(KeysOf(mine))
              /\ CandidateRow(C).batches = Cardinality(BatchesOf(mine))
              /\ {<<m.value, m.key, m.batch>> : m \in mine} = {<<v.id, v.key, v.batch>> : v \in C}
  <2> DEFINE mine == {MemberRow(v) : v \in C}
             f == [v \in C |-> MemberRow(v)]
  <2>1. \A v \in C : v \in U /\ v \in V
    BY <1>1
  <2>2. mine = {f[v] : v \in C} /\ \A v \in C : f[v] = MemberRow(v)
    OBVIOUS
  <2>3. IsFiniteSet(C)
    BY <1>1
  <2>4. Cardinality(mine) = Cardinality(C)
    <3>1. \A v, w \in C : f[v] = f[w] => v = w
      <4>. HIDE DEF f, U, K
      <4>. QED BY <2>1, <2>2, <1>2, <1>7
    <3>. HIDE DEF f, mine, K
    <3>. QED BY <2>2, <2>3, <3>1, ManyAs
  <2>5. /\ KeysOf(mine) = KeysOf(C) /\ BatchesOf(mine) = BatchesOf(C)
        /\ {<<m.value, m.key, m.batch>> : m \in mine} = {<<v.id, v.key, v.batch>> : v \in C}
    <3>. HIDE DEF U, K
    <3>. QED BY <2>1, <1>7 DEF KeysOf, BatchesOf
  <2>6. MembersOf(CandidateRow(C), members) = mine
    BY <1>11
  <2>. HIDE DEF mine, members, K
  <2>. QED BY <2>4, <2>5, <2>6 DEF CandidateRow
<1>13. {{<<m.value, m.key, m.batch>> : m \in MembersOf(c, members)} : c \in rows} = PlanOf(V).result
  <2>1. PlanOf(V).result = {{<<v.id, v.key, v.batch>> : v \in C} : C \in K}
    BY PlanIs
  <2>. HIDE DEF members, K
  <2>. QED BY <2>1, <1>12
<1>14. \A c \in rows :
         LET mine == MembersOf(c, members) IN
         /\ c.members = Cardinality(mine)
         /\ c.keys = Cardinality(KeysOf(mine))
         /\ c.batches = Cardinality(BatchesOf(mine))
  <2>. HIDE DEF members, K
  <2>. QED BY <1>12
<1>15. /\ CandidateRows(PlanOf(V)) = rows /\ MemberRows(PlanOf(V)) = members
       /\ PlanOf(V).candidates = K /\ PlanOf(V).members = Cardinality(U)
  BY PlanIs
<1>. HIDE DEF rows, members, K, U
<1>. QED BY <1>6, <1>8, <1>9, <1>10, <1>13, <1>14, <1>15 DEF SubledgersMatch

\* A grouping of all values but one tells so.
LEMMA LostValueShows ==
    ASSUME NEW V, ValuesGiven(V), NEW v \in V
    PROVE  GroupingPlan(V \ {v}).input # GroupingPlan(V).input
<1>1. /\ GroupingPlan(V).input = {<<w.id, ValueFingerprint(w), w.batch, w.links>> : w \in V}
      /\ GroupingPlan(V \ {v}).input =
           {<<w.id, ValueFingerprint(w), w.batch, w.links>> : w \in V \ {v}}
  BY DEF GroupingPlan
<1>2. \A w \in V \ {v} : w.id # v.id
  BY DEF ValuesGiven
<1>3. \A w \in V \ {v} : <<w.id, ValueFingerprint(w), w.batch, w.links>>
                            # <<v.id, ValueFingerprint(v), v.batch, v.links>>
  BY <1>2
<1> DEFINE Row(w) == <<w.id, ValueFingerprint(w), w.batch, w.links>>
<1>4. Row(v) \in {Row(w) : w \in V} /\ Row(v) \notin {Row(w) : w \in V \ {v}}
  <2>1. \A w \in V \ {v} : Row(w) # Row(v)
    BY <1>3
  <2>. HIDE DEF Row
  <2>. QED BY <2>1
<1>. QED BY <1>1, <1>4

\* A member with another meaning or batch is none of the plan.
LEMMA AlteredMemberShows ==
    ASSUME NEW V, ValuesGiven(V), NEW m \in MemberRows(PlanOf(V)),
           NEW n, n.fact = m.fact, n.value = m.value, n.key # m.key \/ n.batch # m.batch
    PROVE  ~SubledgersMatch(CandidateRows(PlanOf(V)),
                            (MemberRows(PlanOf(V)) \ {m}) \cup {n}, PlanOf(V))
<1> DEFINE K == ConsistencyCandidates(V)
           rows == CandidateRows(PlanOf(V))
           members == (MemberRows(PlanOf(V)) \ {m}) \cup {n}
<1>1. /\ \A C \in K : C # {} /\ C \subseteq V /\ IsFiniteSet(C) /\ FactOf(C) \in Nat
      /\ \A C \in K : \A v \in V : v \in C <=> v.fact = FactOf(C)
  BY CandidatesAre
<1>0. /\ PlanOf(V).result = {{<<x.id, x.key, x.batch>> : x \in C} : C \in K}
      /\ rows = {CandidateRow(C) : C \in K}
      /\ MemberRows(PlanOf(V)) = {MemberRow(x) : x \in UNION K}
  BY PlanIs
<1>2a. PICK C \in K : \E v \in C : m = MemberRow(v)
  <2>. HIDE DEF K
  <2>. QED BY <1>0
<1>2. PICK v \in C : m = MemberRow(v)
  BY <1>2a
<1>3. v \in V /\ m.fact = FactOf(C) /\ m.value = v.id /\ m.key = v.key /\ m.batch = v.batch
  BY <1>1, <1>2 DEF MemberRow
<1>4. CandidateRow(C) \in rows /\ CandidateRow(C).fact = n.fact
  BY <1>0, <1>3 DEF CandidateRow
<1>5. n \in MembersOf(CandidateRow(C), members)
  BY <1>4 DEF MembersOf
<1>6. \A set \in PlanOf(V).result : <<n.value, n.key, n.batch>> \notin set
  <2>. SUFFICES ASSUME NEW D \in K, NEW w \in D,
                       <<n.value, n.key, n.batch>> = <<w.id, w.key, w.batch>>
                PROVE  FALSE
    BY <1>0
  <2>1. w \in V /\ w.id = v.id /\ w.key = n.key /\ w.batch = n.batch
    BY <1>1, <1>3
  <2>2. w = v
    BY <2>1, <1>3 DEF ValuesGiven
  <2>. QED BY <2>1, <2>2, <1>3
<1>7. <<n.value, n.key, n.batch>> \in
        {<<x.value, x.key, x.batch>> : x \in MembersOf(CandidateRow(C), members)}
  BY <1>5
<1>. HIDE DEF members, rows, K
<1>8. {{<<x.value, x.key, x.batch>> : x \in MembersOf(c, members)} : c \in rows} # PlanOf(V).result
  BY <1>4, <1>6, <1>7
<1>. QED BY <1>8 DEF SubledgersMatch, rows, members

-----------------------------------------------------------------------------
(* Ledgers of decisions that were stored, read at two moments or lost a row. *)

LEMMA FlattenAppend ==
    ASSUME NEW E, NEW seqs \in Seq(Seq(E)), NEW more \in Seq(E)
    PROVE  FlattenSeq(Append(seqs, more)) = FlattenSeq(seqs) \o more
<1> DEFINE whole == Append(seqs, more)
           n == Len(seqs)
<1>1. /\ n \in Nat /\ whole \in Seq(Seq(E)) /\ Len(whole) = n + 1
      /\ \A i \in 1..n : whole[i] = seqs[i]
      /\ whole[n + 1] = more
  OBVIOUS
<1>. HIDE DEF whole
<1>2. PICK acc \in [0..Len(whole) -> Seq(E)] :
        /\ acc[0] = << >> /\ FlattenSeq(whole) = acc[Len(whole)]
        /\ \A k \in 0..(Len(whole) - 1) : acc[k + 1] = acc[k] \o whole[k + 1]
  BY <1>1, FlattenIs
<1>3. PICK own \in [0..n -> Seq(E)] :
        /\ own[0] = << >> /\ FlattenSeq(seqs) = own[n]
        /\ \A k \in 0..(n - 1) : own[k + 1] = own[k] \o seqs[k + 1]
  BY FlattenIs
<1>. HIDE DEF n
<1> DEFINE S == {k \in 0..n : acc[k] = own[k]}
<1>4. 0 \in S
  BY <1>1, <1>2, <1>3
<1>5. ASSUME NEW k \in 0..(n - 1), k \in S PROVE k + 1 \in S
  <2>1. k + 1 \in 0..n /\ k + 1 \in 1..n /\ k \in 0..(Len(whole) - 1)
    BY <1>1
  <2>2. acc[k + 1] = acc[k] \o seqs[k + 1]
    BY <2>1, <1>1, <1>2
  <2>3. own[k + 1] = own[k] \o seqs[k + 1]
    BY <1>3
  <2>4. acc[k] = own[k]
    BY <1>5
  <2>. QED BY <2>1, <2>2, <2>3, <2>4
<1>6. acc[n] = own[n]
  <2>1. 0..n \subseteq S
    <3>. HIDE DEF S
    <3>. QED BY <1>1, <1>4, <1>5, Induction
  <2>. QED BY <2>1, <1>1
<1>7. acc[n + 1] = acc[n] \o more
  <2>1. n \in 0..(Len(whole) - 1)
    BY <1>1
  <2>. QED BY <2>1, <1>1, <1>2
<1>. QED BY <1>1, <1>2, <1>3, <1>6, <1>7 DEF whole

\* Every decision appends the rows of what it selected.
LEMMA RowsAppended ==
    ASSUME NEW log \in Seq(LoggedRows), NEW k \in 0..(Len(log) - 1)
    PROVE  /\ SelectionRows(Until(log, k + 1)) = SelectionRows(Until(log, k)) \o RowsOfEntry(log, k + 1)
           /\ Until(log, k) \in Seq(LoggedRows) /\ Until(log, k + 1) \in Seq(LoggedRows)
           /\ RowsOfEntry(log, k + 1) \in Seq(StoredRows)
           /\ Len(RowsOfEntry(log, k + 1)) = Len(log[k + 1].values)
           /\ \A n \in 1..Len(log[k + 1].values) : RowsOfEntry(log, k + 1)[n].decision = k + 1
<1> DEFINE n == Len(log)
<1>1. n \in Nat /\ DOMAIN log = 1..n /\ \A i \in 1..n : log[i] \in LoggedRows
  OBVIOUS
<1>2. k \in 0..n /\ k + 1 \in 0..n /\ k + 1 \in 1..n /\ k \in Nat
  BY <1>1
<1>3. ASSUME NEW i \in 1..n
      PROVE  /\ RowsOfEntry(log, i) \in Seq(StoredRows)
             /\ Len(RowsOfEntry(log, i)) = Len(log[i].values)
             /\ \A m \in 1..Len(log[i].values) : RowsOfEntry(log, i)[m].decision = i
  <2> DEFINE l == Len(log[i].values)
  <2>1. /\ l \in Nat /\ DOMAIN log[i].values = 1..l /\ \A m \in 1..l : log[i].values[m] \in Nat
        /\ i \in Nat /\ log[i].assessment \in Nat
    <3>1. log[i] \in LoggedRows /\ i \in Nat
      BY <1>1
    <3>2. log[i].values \in Seq(Nat) /\ log[i].assessment \in Nat
      BY <3>1 DEF LoggedRows
    <3>. QED BY <3>1, <3>2
  <2>2. RowsOfEntry(log, i) \in [1..l -> StoredRows]
    BY <2>1 DEF RowsOfEntry, StoredRows
  <2>3. \A m \in 1..l : RowsOfEntry(log, i)[m].decision = i
    BY <2>1 DEF RowsOfEntry
  <2>. HIDE DEF l
  <2>4. RowsOfEntry(log, i) \in Seq(StoredRows) /\ Len(RowsOfEntry(log, i)) = l
    BY <2>1, <2>2
  <2>. QED BY <2>3, <2>4 DEF l
<1>4. ASSUME NEW j \in 0..n
      PROVE  /\ Until(log, j) \in Seq(LoggedRows) /\ Len(Until(log, j)) = j
             /\ \A i \in 1..j : Until(log, j)[i] = log[i]
  BY <1>1 DEF Until
<1> DEFINE Seqs(j) == [i \in 1..j |-> RowsOfEntry(log, i)]
<1>5. ASSUME NEW j \in 0..n
      PROVE  SelectionRows(Until(log, j)) = FlattenSeq(Seqs(j))
  <2> DEFINE u == Until(log, j)
  <2>1. DOMAIN u = 1..j /\ \A i \in 1..j : u[i] = log[i]
    BY <1>4
  <2>. HIDE DEF u
  <2>2. [i \in DOMAIN u |-> RowsOfEntry(u, i)] = Seqs(j)
    BY <2>1 DEF RowsOfEntry
  <2>3. SelectionRows(u) = FlattenSeq([i \in DOMAIN u |-> RowsOfEntry(u, i)])
    BY DEF SelectionRows, RowsOfEntry
  <2>. QED BY <2>2, <2>3 DEF u
<1>6. Seqs(k) \in Seq(Seq(StoredRows)) /\ Seqs(k + 1) = Append(Seqs(k), RowsOfEntry(log, k + 1))
  <2> DEFINE T == Seq(StoredRows)
             s == Seqs(k)
             t == Seqs(k + 1)
  <2>1. \A i \in 1..k : i \in 1..n /\ RowsOfEntry(log, i) \in T
    BY <1>1, <1>2, <1>3
  <2>2. s \in [1..k -> T] /\ DOMAIN t = 1..(k + 1) /\ t[k + 1] = RowsOfEntry(log, k + 1)
        /\ \A i \in 1..k : t[i] = s[i]
    <3>. HIDE DEF T
    <3>. QED BY <1>2, <2>1
  <2>3. t = [i \in 1..(k + 1) |-> t[i]]
    OBVIOUS
  <2>4. s \in Seq(T) /\ Len(s) = k
    <3>. HIDE DEF T, s
    <3>. QED BY <1>2, <2>2
  <2>5. t = Append(s, RowsOfEntry(log, k + 1))
    <3>. HIDE DEF T, s, t
    <3> DEFINE r == RowsOfEntry(log, k + 1)
               whole == Append(s, r)
    <3>1. \A i \in 1..(k + 1) : i \in 1..k \/ i = k + 1
      BY <1>2
    <3>2. r \in T
      BY <1>2, <1>3 DEF T
    <3>. HIDE DEF r
    <3>3. /\ whole \in Seq(T) /\ Len(whole) = k + 1 /\ whole[k + 1] = r
          /\ \A i \in 1..k : whole[i] = s[i]
      BY <1>2, <2>4, <3>2
    <3>. HIDE DEF whole
    <3>4. whole = [i \in 1..(k + 1) |-> whole[i]]
      BY <3>3
    <3>5. \A i \in 1..(k + 1) : whole[i] = t[i]
      BY <2>2, <3>1, <3>3 DEF r
    <3>6. whole = t
      BY <2>3, <3>4, <3>5
    <3>. QED BY <3>6 DEF whole, r
  <2>. QED BY <2>4, <2>5
<1>. HIDE DEF Seqs, n
<1>7. FlattenSeq(Seqs(k + 1)) = FlattenSeq(Seqs(k)) \o RowsOfEntry(log, k + 1)
  BY <1>2, <1>3, <1>6, FlattenAppend
<1>. QED BY <1>2, <1>3, <1>4, <1>5, <1>7

\* What is added later belongs to later decisions.
LEMMA LaterRows ==
    ASSUME NEW log \in Seq(LoggedRows), NEW m \in 0..Len(log), NEW n \in m..Len(log)
    PROVE  \/ SelectionRows(Until(log, n)) = SelectionRows(Until(log, m))
           \/ \E p \in 1..Len(SelectionRows(Until(log, n))) :
                SelectionRows(Until(log, n))[p].decision > m
<1> DEFINE R(k) == SelectionRows(Until(log, k))
           Later(k) == R(k) = R(m) \/ \E p \in 1..Len(R(k)) : R(k)[p].decision > m
           S == {k \in 0..(n - m) : Later(m + k)}
<1>0. m \in Nat /\ n \in Nat /\ m <= n /\ Len(log) \in Nat /\ n <= Len(log)
  OBVIOUS
<1>1. 0 \in S
  BY <1>0
<1>2. ASSUME NEW k \in 0..((n - m) - 1), k \in S PROVE k + 1 \in S
  <2> DEFINE j == m + k
             new == RowsOfEntry(log, j + 1)
             l == Len(log[j + 1].values)
  <2>1. j \in 0..(Len(log) - 1) /\ m + (k + 1) = j + 1 /\ k + 1 \in 0..(n - m) /\ j >= m /\ j \in Nat
    BY <1>0
  <2>. HIDE DEF j
  <2>2. /\ R(j + 1) = R(j) \o new /\ new \in Seq(StoredRows) /\ Len(new) = l
        /\ \A i \in 1..l : new[i].decision = j + 1
        /\ Until(log, j) \in Seq(LoggedRows)
    BY <2>1, RowsAppended
  <2>3. R(j) \in Seq(StoredRows)
    BY <2>2, RowsStand
  <2>. HIDE DEF R, new, l
  <2>4. /\ Len(R(j + 1)) = Len(R(j)) + l /\ Len(R(j)) \in Nat /\ l \in Nat
        /\ \A p \in 1..Len(R(j)) : R(j + 1)[p] = R(j)[p]
        /\ \A i \in 1..l : R(j + 1)[Len(R(j)) + i] = new[i]
    <3>1. Joins(R(j), new, R(j + 1))
      BY <2>2, <2>3, JoinIs
    <3>. QED BY <3>1, <2>2, <2>3 DEF Joins
  <2>5. Later(j)
    BY <1>2 DEF j
  <2>6. CASE l = 0
    <3>1. R(j + 1) = R(j)
      BY <2>2, <2>3, <2>6
    <3>. QED BY <3>1, <2>1, <2>5
  <2>7. CASE l # 0
    <3>1. /\ Len(R(j)) + 1 \in 1..Len(R(j + 1))
          /\ R(j + 1)[Len(R(j)) + 1].decision = j + 1
      <4>1. 1 \in 1..l
        BY <2>4, <2>7
      <4>. QED BY <4>1, <2>2, <2>4
    <3>2. j + 1 > m
      BY <2>1, <1>0
    <3>. QED BY <3>1, <3>2, <2>1
  <2>. QED BY <2>6, <2>7
<1>3. 0..(n - m) \subseteq S
  <2>1. n - m \in Nat
    BY <1>0
  <2>. HIDE DEF S
  <2>. QED BY <2>1, <1>1, <1>2, Induction
<1>4. Later(m + (n - m)) /\ m + (n - m) = n
  BY <1>0, <1>3
<1>. QED BY <1>4

\* The selections a reader finds for a decision, among those of its assessment.
LEMMA MineAreRows ==
    ASSUME NEW E, NEW seq \in Seq(E), NEW a, NEW d
    PROVE  SelectionsOf(RowsOf(seq, a), d) =
             Picked(seq, {p \in 1..Len(seq) : seq[p].assessment = a.id /\ seq[p].decision = d.id})
<1> DEFINE P == {p \in DOMAIN seq : seq[p].assessment = a.id}
           Q == {p \in 1..Len(seq) : seq[p].assessment = a.id /\ seq[p].decision = d.id}
           kept == Picked(seq, P)
           order == Sorted(P, <)
<1>1. P \in SUBSET (1..Len(seq)) /\ Q \in SUBSET P /\ DOMAIN seq = 1..Len(seq) /\ Len(seq) \in Nat
  OBVIOUS
<1>2. \A p \in P : p \in Q <=> seq[p].decision = d.id
  OBVIOUS
<1>3. RowsOf(seq, a) = kept
  BY DEF RowsOf, Where
<1>4. SelectionsOf(kept, d) = Picked(kept, {n \in DOMAIN kept : kept[n].decision = d.id})
  BY DEF SelectionsOf, Where
<1>. HIDE DEF P, Q
<1>5. kept = [n \in DOMAIN order |-> seq[order[n]]]
  BY DEF Picked
<1>6. \A n \in DOMAIN order : order[n] \in P
  <2>1. Enumerates(order, P, Cardinality(P))
    BY <1>1, SortedEnumerates
  <2>. QED BY <2>1 DEF Enumerates
<1>. HIDE DEF kept, order
<1>7. {n \in DOMAIN kept : kept[n].decision = d.id} = {n \in DOMAIN kept : order[n] \in Q}
  BY <1>2, <1>5, <1>6
<1>8. Picked(kept, {n \in DOMAIN kept : order[n] \in Q}) = Picked(seq, Q)
  BY <1>1, PickedTwice DEF kept, order
<1>. QED BY <1>3, <1>4, <1>7, <1>8 DEF Q

-----------------------------------------------------------------------------
(* The chain of an assessment holds before its readers. *)

\* The decisions about an assessment as a reader finds them, in order.
LEMMA DecisionsFound ==
    ASSUME NEW log \in Seq(LoggedRows), NEW a
    PROVE  LET order == Sorted(About(log, a), <)
               c == Cardinality(About(log, a))
               h == RowsOf(DecisionsOf(log), a) IN
           /\ Enumerates(order, About(log, a), c) /\ c \in Nat
           /\ About(log, a) \in SUBSET (1..Len(log))
           /\ DOMAIN h = 1..c /\ \A i \in 1..c : h[i] = DecisionsOf(log)[order[i]]
<1> DEFINE P == About(log, a)
           order == Sorted(P, <)
           D == DecisionsOf(log)
<1>1. Len(log) \in Nat /\ P \in SUBSET (1..Len(log)) /\ DOMAIN log = 1..Len(log)
  BY DEF About
<1>2. Enumerates(order, P, Cardinality(P)) /\ Cardinality(P) \in Nat
  BY <1>1, SortedEnumerates
<1>3. {i \in DOMAIN D : D[i].assessment = a.id} = P
  <2>1. DOMAIN D = 1..Len(log) /\ \A i \in 1..Len(log) : D[i].assessment = log[i].assessment
    BY <1>1 DEF DecisionsOf
  <2>. HIDE DEF D
  <2>. QED BY <2>1 DEF About
<1>4. RowsOf(D, a) = Picked(D, P)
  <2>1. RowsOf(D, a) = Picked(D, {i \in DOMAIN D : D[i].assessment = a.id})
    BY DEF RowsOf, Where
  <2>. QED BY <1>3, <2>1
<1>5. RowsOf(D, a) = [i \in DOMAIN order |-> D[order[i]]]
  BY <1>4 DEF Picked
<1>. HIDE DEF order, D, P
<1>6. DOMAIN order = 1..Cardinality(P)
  BY <1>2 DEF Enumerates
<1>. QED BY <1>1, <1>2, <1>5, <1>6 DEF order, D, P

\* They are numbered, and each supersedes the one before.
LEMMA DecisionsAreChained ==
    ASSUME NEW log \in Seq(LoggedRows), NEW a,
           NEW order, NEW c \in Nat, Enumerates(order, About(log, a), c), NEW i \in 1..c
    PROVE  LET d == DecisionsOf(log)[order[i]] IN
           /\ d.id = order[i] /\ d.no = i
           /\ d.supersedes = IF i = 1 THEN NoDecision ELSE DecisionsOf(log)[order[i - 1]].id
           /\ d.kind = log[order[i]].kind /\ d.count = Len(log[order[i]].values)
<1> DEFINE P == About(log, a)
           n == Len(log)
           x == order[i]
<1>1. n \in Nat /\ DOMAIN log = 1..n /\ P \in SUBSET (1..n) /\ P \in SUBSET Nat
  BY DEF About
<1>2. \A j \in 1..c : order[j] \in P /\ order[j] \in 1..n
  BY <1>1 DEF Enumerates
<1>3. \A y \in 1..n : y \in P <=> log[y].assessment = a.id
  BY DEF About
<1>4. \A y \in 1..n :
        /\ DecisionsOf(log)[y].id = y /\ DecisionsOf(log)[y].kind = log[y].kind
        /\ DecisionsOf(log)[y].no = Cardinality(Before(log, y)) + 1
        /\ DecisionsOf(log)[y].supersedes =
             IF Before(log, y) = {} THEN NoDecision ELSE Max(Before(log, y))
        /\ DecisionsOf(log)[y].count = Len(log[y].values)
  BY <1>1 DEF DecisionsOf
<1>5. x \in P /\ x \in 1..n /\ log[x].assessment = a.id
  BY <1>2, <1>3
<1>6. Before(log, x) = Smaller(P, x)
  <2>1. \A y : y \in 1..(x - 1) <=> y \in 1..n /\ y < x
    BY <1>1, <1>5
  <2>2. \A y : y \in Before(log, x) <=> y \in 1..n /\ y < x /\ log[y].assessment = a.id
    <3>. HIDE DEF n, x
    <3>. QED BY <2>1, <1>5 DEF Before
  <2>3. \A y : y \in Smaller(P, x) <=> y \in P /\ y < x
    BY DEF Smaller
  <2>. HIDE DEF P, n, x
  <2>. QED BY <2>2, <2>3, <1>1, <1>3
<1>7. Smaller(P, x) = {order[j] : j \in 1..(i - 1)} /\ Cardinality(Smaller(P, x)) = i - 1
  <2>1. Enumerates(order, P, c)
    OBVIOUS
  <2>. HIDE DEF P
  <2>2. Smaller(P, order[i]) = FirstOnes(order, i) /\ Cardinality(Smaller(P, order[i])) = i - 1
    BY <1>1, <2>1, PlaceTells
  <2>. QED BY <2>2 DEF FirstOnes
<1>8. i = 1 => Smaller(P, x) = {}
  BY <1>7
<1>9. ASSUME i # 1
      PROVE  Smaller(P, x) # {} /\ Max(Smaller(P, x)) = order[i - 1]
                /\ DecisionsOf(log)[order[i - 1]].id = order[i - 1]
  <2>1. i - 1 \in 1..(i - 1) /\ i - 1 \in 1..c
    BY <1>9
  <2>2. order[i - 1] \in Smaller(P, x) /\ order[i - 1] \in 1..n
    <3>. HIDE DEF P, x, n
    <3>. QED BY <1>2, <1>7, <2>1
  <2>3. Smaller(P, x) \in SUBSET (1..n)
    BY <1>1 DEF Smaller
  <2>. HIDE DEF P, x
  <2>4. Max(Smaller(P, x)) \in Smaller(P, x) /\ order[i - 1] <= Max(Smaller(P, x))
    BY <2>2, <2>3, <1>1, MaxIs
  <2>5. PICK j \in 1..(i - 1) : order[j] = Max(Smaller(P, x))
    BY <2>4, <1>7
  <2>6. ~(j < i - 1)
    <3>1. j < i - 1 => order[j] < order[i - 1]
      <4>1. j \in 1..c
        OBVIOUS
      <4>. QED BY <2>1, <4>1 DEF Enumerates
    <3>2. order[j] \in 1..n
      BY <2>3, <2>4, <2>5
    <3>. QED BY <3>1, <3>2, <2>2, <2>4, <2>5, <1>1
  <2>7. j = i - 1
    BY <2>6, <2>1
  <2>8. DecisionsOf(log)[order[i - 1]].id = order[i - 1]
    BY <2>2, <1>4
  <2>. QED BY <2>2, <2>5, <2>7, <2>8
<1>10. /\ DecisionsOf(log)[x].id = x /\ DecisionsOf(log)[x].no = i
       /\ DecisionsOf(log)[x].kind = log[x].kind
       /\ DecisionsOf(log)[x].count = Len(log[x].values)
       /\ DecisionsOf(log)[x].supersedes =
            IF Smaller(P, x) = {} THEN NoDecision ELSE Max(Smaller(P, x))
  <2>1. (i - 1) + 1 = i
    OBVIOUS
  <2>. HIDE DEF P, x, n
  <2>2. Cardinality(Before(log, x)) + 1 = i
    BY <2>1, <1>6, <1>7
  <2>. QED BY <2>2, <1>4, <1>5, <1>6
<1>. HIDE DEF P
<1>. QED BY <1>8, <1>9, <1>10

\* The rows found for decision x are those it selected.
LEMMA SelectionFound ==
    ASSUME NEW log \in Seq(LoggedRows), NEW x \in 1..Len(log),
           NEW a, log[x].assessment = a.id, NEW d, d.id = x
    PROVE  LET rows == SelectionRows(log)
               mine == SelectionsOf(RowsOf(rows, a), d) IN
           /\ DOMAIN mine = 1..Len(log[x].values) /\ Len(mine) = Len(log[x].values)
           /\ \A i \in DOMAIN mine : mine[i].order = i
           /\ Selected(d, RowsOf(rows, a)) = log[x].values
<1> DEFINE rows == SelectionRows(log)
           mine == SelectionsOf(RowsOf(rows, a), d)
           values == log[x].values
           l == Len(values)
           Q == {p \in 1..Len(rows) : rows[p].assessment = a.id /\ rows[p].decision = d.id}
<1>1. /\ rows \in Seq(StoredRows) /\ \E o \in Nat : BlockAt(rows, log, x, o)
      /\ \A p \in 1..Len(rows) : rows[p].assessment = log[rows[p].decision].assessment
  BY RowsStand DEF Blocks
<1>2. mine = Picked(rows, Q)
  BY <1>1, MineAreRows
<1>. HIDE DEF rows, mine
<1>3. PICK o \in Nat : BlockAt(rows, log, x, o)
  BY <1>1
<1>4. l \in Nat /\ values = [n \in 1..l |-> values[n]]
  <2>0. log[x] \in LoggedRows
    OBVIOUS
  <2>1. values \in Seq(Nat)
    BY <2>0 DEF LoggedRows
  <2>. HIDE DEF values
  <2>. QED BY <2>1
<1>5. Q = (o + 1)..(o + l)
  <2>1. /\ \A n \in 1..l : o + n \in 1..Len(rows)
        /\ \A p \in 1..Len(rows) : rows[p].decision = x <=> p \in (o + 1)..(o + l)
    BY <1>3 DEF BlockAt
  <2>. HIDE DEF l, values
  <2>2. ASSUME NEW p \in (o + 1)..(o + l) PROVE p \in 1..Len(rows)
    <3>1. p - o \in 1..l /\ p = o + (p - o)
      BY <1>4
    <3>. QED BY <3>1, <2>1
  <2>3. \A p \in 1..Len(rows) : rows[p].decision = x => rows[p].assessment = a.id
    BY <1>1
  <2>. QED BY <2>1, <2>2, <2>3
<1>6. mine = [n \in 1..l |-> rows[o + n]]
  <2>1. l \in Nat
    BY <1>4
  <2>. HIDE DEF l, values, Q
  <2>2. mine = Stretch(rows, o, l)
    BY <2>1, <1>2, <1>5, BlockPicked
  <2>. QED BY <2>2 DEF Stretch
<1>7. \A n \in 1..l : rows[o + n].value = values[n] /\ rows[o + n].order = n
  BY <1>3 DEF BlockAt
<1>8. /\ DOMAIN mine = 1..l /\ Len(mine) = l
      /\ \A n \in 1..l : mine[n].value = values[n] /\ mine[n].order = n
  <2>. HIDE DEF l, values
  <2>. QED BY <1>4, <1>6, <1>7
<1>9. Selected(d, RowsOf(rows, a)) = [n \in DOMAIN mine |-> mine[n].value]
  BY DEF Selected, mine
<1>10. [n \in DOMAIN mine |-> mine[n].value] = values
  <2>. HIDE DEF values, l
  <2>1. [n \in DOMAIN mine |-> mine[n].value] = [n \in 1..l |-> values[n]]
    BY <1>8
  <2>. QED BY <2>1, <1>4
<1>. HIDE DEF l, values
<1>. QED BY <1>8, <1>9, <1>10 DEF rows, mine, l, values

-----------------------------------------------------------------------------
(* What is stored holds, what is torn or lost does not. *)

LEMMA EntryFits ==
    ASSUME NEW A, AssessmentsGiven(A), NEW log, LogGiven(log, A), NEW x \in 1..Len(log)
    PROVE  \E a \in A :
             /\ log[x].assessment = a.id /\ SelectionShape(log[x].kind, Len(log[x].values))
             /\ IsInjective(log[x].values)
             /\ Range(log[x].values) \subseteq ValuesOf(CandidateOf(Candidates, a))
<1>1. log \in Seq(LoggedRows)
  BY GivenLogs
<1>2. x \in DOMAIN log
  BY <1>1
<1>. QED BY <1>2 DEF LogGiven

\* The chain of one assessment.
LEMMA ChainOfLog ==
    ASSUME NEW A, AssessmentsGiven(A), NEW log, LogGiven(log, A), NEW a \in A
    PROVE  ChainHolds(RowsOf(DecisionsOf(log), a), RowsOf(SelectionRows(log), a),
                      ValuesOf(CandidateOf(Candidates, a)))
<1> DEFINE P == About(log, a)
           order == Sorted(P, <)
           c == Cardinality(P)
           D == DecisionsOf(log)
           h == RowsOf(D, a)
           rows == SelectionRows(log)
           mine == RowsOf(rows, a)
           V == ValuesOf(CandidateOf(Candidates, a))
<1>1. log \in Seq(LoggedRows)
  BY GivenLogs
<1>2. /\ Enumerates(order, P, c) /\ c \in Nat /\ P \in SUBSET (1..Len(log))
      /\ DOMAIN h = 1..c /\ \A i \in 1..c : h[i] = D[order[i]]
  BY <1>1, DecisionsFound
<1>3. \A i \in 1..c : /\ order[i] \in P /\ order[i] \in 1..Len(log)
                      /\ log[order[i]].assessment = a.id
  <2>1. \A i \in 1..c : order[i] \in P
    BY <1>2 DEF Enumerates
  <2>2. \A y \in P : log[y].assessment = a.id
    BY DEF About
  <2>. HIDE DEF P, order, c
  <2>. QED BY <2>1, <2>2, <1>2
<1>. HIDE DEF order, c
<1>4. ASSUME NEW i \in 1..c
      PROVE  /\ h[i].id = order[i] /\ h[i].no = i
             /\ h[i].supersedes = IF i = 1 THEN NoDecision ELSE h[i - 1].id
             /\ h[i].kind = log[order[i]].kind /\ h[i].count = Len(log[order[i]].values)
  <2> DEFINE d == D[order[i]]
  <2>1. /\ d.id = order[i] /\ d.no = i
        /\ d.supersedes = IF i = 1 THEN NoDecision ELSE D[order[i - 1]].id
        /\ d.kind = log[order[i]].kind /\ d.count = Len(log[order[i]].values)
    BY <1>1, <1>2, DecisionsAreChained
  <2>2. i # 1 => i - 1 \in 1..c
    BY <1>2
  <2>. HIDE DEF D, h
  <2>. QED BY <1>2, <2>1, <2>2
<1>. HIDE DEF h, D, P
<1>5. IsInjective([i \in DOMAIN h |-> h[i].id])
  <2>1. \A i, j \in 1..c : order[i] = order[j] => i = j
    <3>1. \A i, j \in 1..c : i < j \/ j < i \/ i = j
      BY <1>2
    <3>2. \A i, j \in 1..c : i < j => order[i] < order[j]
      BY <1>2 DEF Enumerates
    <3>3. \A i \in 1..c : order[i] \in Nat
      BY <1>3
    <3>. QED BY <3>1, <3>2, <3>3
  <2>. QED BY <1>2, <1>4, <2>1 DEF IsInjective
<1>6. ASSUME NEW i \in 1..c
      PROVE  SelectionHolds(h[i], mine, V)
  <2> DEFINE x == order[i]
             found == SelectionsOf(mine, h[i])
             values == log[x].values
  <2>1. x \in 1..Len(log) /\ log[x].assessment = a.id /\ h[i].id = x
    BY <1>3, <1>4
  <2>2. /\ DOMAIN found = 1..Len(values) /\ Len(found) = Len(values)
        /\ \A j \in DOMAIN found : found[j].order = j
        /\ Selected(h[i], mine) = values
    <3>. HIDE DEF x
    <3>. QED BY <1>1, <2>1, SelectionFound
  <2>3. /\ SelectionShape(log[x].kind, Len(values))
        /\ IsInjective(values) /\ Range(values) \subseteq V
    <3>1. PICK b \in A :
             /\ log[x].assessment = b.id /\ SelectionShape(log[x].kind, Len(log[x].values))
             /\ IsInjective(log[x].values)
             /\ Range(log[x].values) \subseteq ValuesOf(CandidateOf(Candidates, b))
      BY <2>1, EntryFits
    <3>2. b = a
      <4>1. b.id = a.id
        BY <3>1, <2>1
      <4>. QED BY <4>1, OneAssessment
    <3>. QED BY <3>1, <3>2
  <2>4. h[i].count = Len(values) /\ h[i].kind = log[x].kind
    BY <1>4
  <2>. HIDE DEF x, found, values, mine, V
  <2>. QED BY <2>2, <2>3, <2>4 DEF SelectionHolds, found
<1>7. \A s \in Range(mine) : \E d \in Range(h) : d.id = s.decision
  <2>1. /\ rows \in Seq(StoredRows)
        /\ \A p \in 1..Len(rows) : /\ rows[p].decision \in 1..Len(log)
                                   /\ rows[p].assessment = log[rows[p].decision].assessment
    BY <1>1, RowsStand DEF Blocks
  <2> DEFINE Q == {p \in DOMAIN rows : rows[p].assessment = a.id}
  <2>2. mine = Picked(rows, Q)
    BY DEF RowsOf, Where
  <2>. HIDE DEF rows
  <2>3. Q \in SUBSET (1..Len(rows)) /\ \A p \in Q : rows[p].assessment = a.id
    BY <2>1
  <2>. HIDE DEF Q, mine
  <2>4. PICK at : PickedBy(mine, at, Q, rows)
    BY <2>1, <2>2, <2>3, PickedIs
  <2>5. ASSUME NEW k \in DOMAIN mine PROVE \E d \in Range(h) : d.id = mine[k].decision
    <3>1. at[k] \in Q /\ mine[k] = rows[at[k]] /\ at[k] \in 1..Len(rows)
      BY <2>3, <2>4, <2>5 DEF PickedBy, Lists
    <3>2. mine[k].decision \in 1..Len(log) /\ log[mine[k].decision].assessment = a.id
      BY <2>1, <2>3, <3>1
    <3>3. mine[k].decision \in P
      BY <3>2 DEF P, About
    <3>4. PICK i \in 1..c : order[i] = mine[k].decision
      BY <1>2, <3>3 DEF Enumerates
    <3>5. h[i].id = mine[k].decision /\ h[i] \in Range(h)
      BY <1>2, <1>4, <3>4 DEF Range
    <3>. QED BY <3>5
  <2>. QED BY <2>5 DEF Range
<1>. HIDE DEF mine, V, rows
<1>8. ChainHolds(h, mine, V)
  BY <1>2, <1>4, <1>5, <1>6, <1>7 DEF ChainHolds
<1>. QED BY <1>8 DEF h, D, mine, rows, V

LEMMA LedgersOfLog ==
    ASSUME NEW A, AssessmentsGiven(A), NEW log, LogGiven(log, A)
    PROVE  LedgersHold(A, Candidates, DecisionsOf(log), SelectionRows(log))
<1>1. log \in Seq(LoggedRows) /\ DOMAIN log = 1..Len(log)
  BY GivenLogs
<1>2. \A x \in 1..Len(log) : \E a \in A : log[x].assessment = a.id
  BY EntryFits
<1> DEFINE D == DecisionsOf(log)
           rows == SelectionRows(log)
<1>3. \A r \in Range(D) : \E a \in A : r.assessment = a.id
  <2>1. DOMAIN D = 1..Len(log) /\ \A i \in 1..Len(log) : D[i].assessment = log[i].assessment
    BY <1>1 DEF DecisionsOf
  <2>. HIDE DEF D
  <2>. QED BY <2>1, <1>2 DEF Range
<1>4. \A s \in Range(rows) : \E a \in A : s.assessment = a.id
  <2>1. /\ rows \in Seq(StoredRows)
        /\ \A p \in 1..Len(rows) : /\ rows[p].decision \in 1..Len(log)
                                   /\ rows[p].assessment = log[rows[p].decision].assessment
    BY <1>1, RowsStand DEF Blocks
  <2>. HIDE DEF rows
  <2>2. DOMAIN rows = 1..Len(rows)
    BY <2>1
  <2>. QED BY <2>1, <2>2, <1>2 DEF Range
<1>5. \A a \in A : ChainHolds(RowsOf(D, a), RowsOf(rows, a), ValuesOf(CandidateOf(Candidates, a)))
  BY ChainOfLog
<1>. HIDE DEF D, rows
<1>. QED BY <1>3, <1>4, <1>5 DEF LedgersHold, D, rows

\* What holds has no row of a decision that was not read.
LEMMA NoStrangers ==
    ASSUME NEW A, NEW log \in Seq(LoggedRows), NEW E, NEW rows \in Seq(E),
           LedgersHold(A, Candidates, DecisionsOf(log), rows)
    PROVE  \A p \in 1..Len(rows) : rows[p].decision \in 1..Len(log)
<1>. SUFFICES ASSUME NEW p \in 1..Len(rows) PROVE rows[p].decision \in 1..Len(log)
  OBVIOUS
<1>1. p \in DOMAIN rows /\ rows[p] \in Range(rows)
  BY DEF Range
<1>2. PICK a \in A : rows[p].assessment = a.id
  BY <1>1 DEF LedgersHold
<1> DEFINE P == {q \in DOMAIN rows : rows[q].assessment = a.id}
           mine == RowsOf(rows, a)
           h == RowsOf(DecisionsOf(log), a)
<1>3. \A s \in Range(mine) : \E d \in Range(h) : d.id = s.decision
  BY DEF LedgersHold, ChainHolds
<1>4. mine = Picked(rows, P) /\ P \in SUBSET (1..Len(rows)) /\ p \in P
  BY <1>1, <1>2 DEF RowsOf, Where
<1>. HIDE DEF mine, P
<1>5. PICK at : PickedBy(mine, at, P, rows)
  BY <1>4, PickedIs
<1>6. PICK k \in DOMAIN mine : at[k] = p /\ mine[k] = rows[p]
  BY <1>4, <1>5 DEF PickedBy, Lists
<1>7. PICK d \in Range(h) : d.id = rows[p].decision
  BY <1>3, <1>6 DEF Range
<1> DEFINE order == Sorted(About(log, a), <)
           c == Cardinality(About(log, a))
<1>8. /\ Enumerates(order, About(log, a), c) /\ c \in Nat
      /\ About(log, a) \in SUBSET (1..Len(log))
      /\ DOMAIN h = 1..c /\ \A i \in 1..c : h[i] = DecisionsOf(log)[order[i]]
  BY DecisionsFound
<1>. HIDE DEF order, c, h
<1>9. PICK i \in 1..c : d = DecisionsOf(log)[order[i]] /\ order[i] \in 1..Len(log)
  <2>1. PICK i \in 1..c : d = h[i]
    BY <1>7, <1>8 DEF Range
  <2>2. order[i] \in About(log, a)
    BY <1>8 DEF Enumerates
  <2>. QED BY <2>1, <2>2, <1>8
<1>10. DecisionsOf(log)[order[i]].id = order[i]
  <2>1. order[i] \in DOMAIN log
    BY <1>9
  <2>. QED BY <2>1 DEF DecisionsOf
<1>. QED BY <1>7, <1>9, <1>10

LEMMA PrefixGiven ==
    ASSUME NEW A, NEW log, LogGiven(log, A), NEW m \in 0..Len(log)
    PROVE  /\ LogGiven(Until(log, m), A) /\ Until(log, m) \in Seq(LoggedRows)
           /\ Len(Until(log, m)) = m
<1>1. log \in Seq(LoggedRows)
  BY GivenLogs
<1>2. /\ Until(log, m) \in Seq(LoggedRows) /\ Len(Until(log, m)) = m
      /\ \A i \in 1..m : Until(log, m)[i] = log[i] /\ i \in DOMAIN log
  BY <1>1 DEF Until
<1>3. DOMAIN Until(log, m) = 1..m
  BY <1>2
<1>4. LoggedRows = [assessment: Nat, values: Seq(Nat),
                    kind: {"select_one", "keep_multiple", "confirm_compatible", "defer"}]
  BY DEF LoggedRows, Kinds
<1>. HIDE DEF LoggedRows
<1>5. \A i \in 1..m : \E a \in A :
         /\ log[i].assessment = a.id /\ SelectionShape(log[i].kind, Len(log[i].values))
         /\ IsInjective(log[i].values)
         /\ Range(log[i].values) \subseteq ValuesOf(CandidateOf(Candidates, a))
  BY <1>2 DEF LogGiven
<1>6. \A i \in DOMAIN Until(log, m) : \E a \in A :
         /\ Until(log, m)[i].assessment = a.id
         /\ SelectionShape(Until(log, m)[i].kind, Len(Until(log, m)[i].values))
         /\ IsInjective(Until(log, m)[i].values)
         /\ Range(Until(log, m)[i].values) \subseteq ValuesOf(CandidateOf(Candidates, a))
  BY <1>2, <1>3, <1>5
<1>. QED BY <1>2, <1>4, <1>6 DEF LogGiven

\* Decisions read first and selections read later hold when none was added in between.
LEMMA TornRefused ==
    ASSUME NEW A, AssessmentsGiven(A), NEW log, LogGiven(log, A),
           NEW m \in 0..Len(log), NEW n \in m..Len(log)
    PROVE  LedgersHold(A, Candidates, DecisionsOf(Until(log, m)), SelectionRows(Until(log, n)))
             <=> SelectionRows(Until(log, m)) = SelectionRows(Until(log, n))
<1>1. log \in Seq(LoggedRows) /\ n \in 0..Len(log)
  BY GivenLogs
<1>2. /\ LogGiven(Until(log, m), A) /\ Until(log, m) \in Seq(LoggedRows)
      /\ Len(Until(log, m)) = m /\ Until(log, n) \in Seq(LoggedRows)
  BY <1>1, PrefixGiven
<1>3. LedgersHold(A, Candidates, DecisionsOf(Until(log, m)), SelectionRows(Until(log, m)))
  BY <1>2, LedgersOfLog
<1> DEFINE rows == SelectionRows(Until(log, n))
<1>4. rows \in Seq(StoredRows)
  BY <1>2, RowsStand
<1>5. ASSUME LedgersHold(A, Candidates, DecisionsOf(Until(log, m)), rows)
      PROVE  rows = SelectionRows(Until(log, m))
  <2>1. \/ rows = SelectionRows(Until(log, m))
        \/ \E p \in 1..Len(rows) : rows[p].decision > m
    BY <1>1, LaterRows
  <2>. HIDE DEF rows
  <2>2. \A p \in 1..Len(rows) : rows[p].decision \in 1..m
    BY <1>2, <1>4, <1>5, NoStrangers
  <2>3. \A p \in 1..Len(rows) : ~(rows[p].decision > m)
    BY <2>2
  <2>. QED BY <2>1, <2>3
<1>. QED BY <1>3, <1>5

\* A decision without one of its rows tells another number of them.
LEMMA LostRefused ==
    ASSUME NEW A, AssessmentsGiven(A), NEW log, LogGiven(log, A),
           NEW i \in DOMAIN SelectionRows(log)
    PROVE  ~LedgersHold(A, Candidates, DecisionsOf(log), RemoveAt(SelectionRows(log), i))
<1> DEFINE rows == SelectionRows(log)
           left == RemoveAt(rows, i)
           x == rows[i].decision
           l == Len(log[x].values)
<1>1. log \in Seq(LoggedRows)
  BY GivenLogs
<1>2. /\ rows \in Seq(StoredRows) /\ Blocks(rows, log, Len(log))
  BY <1>1, RowsStand
<1>. HIDE DEF rows
<1>3. /\ i \in 1..Len(rows) /\ x \in 1..Len(log) /\ Len(rows) \in Nat
      /\ \E o \in Nat : BlockAt(rows, log, x, o)
  <2>1. i \in DOMAIN rows
    BY DEF rows
  <2>2. i \in 1..Len(rows) /\ Len(rows) \in Nat
    BY <1>2, <2>1
  <2>. QED BY <1>2, <2>2 DEF Blocks
<1>4. PICK o \in Nat : BlockAt(rows, log, x, o)
  BY <1>3
<1>. HIDE DEF x
<1>5. PICK a \in A : log[x].assessment = a.id
  <2>1. \E a \in A :
           /\ log[x].assessment = a.id /\ SelectionShape(log[x].kind, Len(log[x].values))
           /\ IsInjective(log[x].values)
           /\ Range(log[x].values) \subseteq ValuesOf(CandidateOf(Candidates, a))
    BY <1>3, EntryFits
  <2>. QED BY <2>1
<1>6. l \in Nat
  <2>1. log[x] \in LoggedRows
    BY <1>1, <1>3
  <2>2. log[x].values \in Seq(Nat)
    BY <2>1 DEF LoggedRows
  <2>. QED BY <2>2
<1> DEFINE B == (o + 1)..(o + l)
<1>7. /\ \A p \in 1..Len(rows) : rows[p].decision = x <=> p \in B
      /\ i \in B /\ IsFiniteSet(B) /\ Cardinality(B) = l
  <2>1. \A p \in 1..Len(rows) : rows[p].decision = x <=> p \in B
    BY <1>4 DEF BlockAt
  <2>2. i \in B
    BY <1>3, <2>1 DEF x
  <2>3. o + 1 \in Int /\ o + l \in Int
    BY <1>6
  <2>. HIDE DEF l
  <2>4. IsFiniteSet((o + 1)..(o + l)) /\ Cardinality((o + 1)..(o + l)) =
          IF o + 1 > o + l THEN 0 ELSE (o + l) - (o + 1) + 1
    BY <2>3, FS_Interval
  <2>. QED BY <2>1, <2>2, <2>4, <1>6
<1>8. /\ left \in Seq(StoredRows) /\ Len(left) = Len(rows) - 1
      /\ \A p \in 1..(Len(rows) - 1) :
            left[p] = rows[After1(i, p)] /\ After1(i, p) \in (1..Len(rows)) \ {i}
      /\ \A p, q \in 1..(Len(rows) - 1) : After1(i, p) = After1(i, q) => p = q
  BY <1>2, <1>3, RemovedIs
<1>. HIDE DEF left
<1>. SUFFICES ASSUME LedgersHold(A, Candidates, DecisionsOf(log), left) PROVE FALSE
  BY DEF left, rows
<1> DEFINE h == RowsOf(DecisionsOf(log), a)
           order == Sorted(About(log, a), <)
           c == Cardinality(About(log, a))
<1>9. PICK k \in DOMAIN h : h[k].id = x /\ h[k].count = l
  <2>1. /\ Enumerates(order, About(log, a), c) /\ c \in Nat
        /\ DOMAIN h = 1..c /\ \A j \in 1..c : h[j] = DecisionsOf(log)[order[j]]
    BY <1>1, DecisionsFound
  <2>2. x \in About(log, a)
    BY <1>3, <1>5 DEF About
  <2>. HIDE DEF order, c, h
  <2>3. PICK k \in 1..c : order[k] = x
    BY <2>1, <2>2 DEF Enumerates
  <2>4. DecisionsOf(log)[x].id = x /\ DecisionsOf(log)[x].count = l
    <3>1. x \in DOMAIN log
      BY <1>1, <1>3
    <3>. QED BY <3>1 DEF DecisionsOf
  <2>. QED BY <2>1, <2>3, <2>4
<1>. HIDE DEF order, c, l, B
<1> DEFINE mine == SelectionsOf(RowsOf(left, a), h[k])
           Q == {p \in 1..Len(left) : left[p].assessment = a.id /\ left[p].decision = h[k].id}
<1>10. l = Len(mine)
  <2>1. ChainHolds(h, RowsOf(left, a), ValuesOf(CandidateOf(Candidates, a)))
    BY DEF LedgersHold
  <2>. HIDE DEF h
  <2>2. SelectionHolds(h[k], RowsOf(left, a), ValuesOf(CandidateOf(Candidates, a)))
    BY <2>1 DEF ChainHolds
  <2>. QED BY <2>2, <1>9 DEF SelectionHolds
<1>11. Len(mine) = Cardinality(Q) /\ IsFiniteSet(Q)
  <2>1. mine = Picked(left, Q)
    <3>. HIDE DEF h
    <3>. QED BY <1>8, MineAreRows
  <2>2. Q \in SUBSET (1..Len(left))
    OBVIOUS
  <2>. HIDE DEF mine, Q
  <2>. QED BY <1>8, <2>1, <2>2, PickedIs
<1>12. Cardinality(Q) <= l - 1
  <2> DEFINE f == [p \in Q |-> After1(i, p)]
             T == B \ {i}
  <2>1. \A p \in Q : p \in 1..(Len(rows) - 1) /\ left[p].decision = x
    BY <1>8, <1>9
  <2>2. \A p \in Q : After1(i, p) \in T
    <3>. HIDE DEF Q
    <3>. QED BY <2>1, <1>7, <1>8
  <2>3. f \in Injection(Q, T)
    <3>1. f \in [Q -> T]
      BY <2>2
    <3>2. \A p, q \in Q : f[p] = f[q] => p = q
      BY <2>1, <1>8
    <3>. HIDE DEF f, Q, T
    <3>. QED BY <3>1, <3>2 DEF Injection, IsInjective
  <2>4. IsFiniteSet(T) /\ Cardinality(T) = l - 1
    BY <1>7, FS_RemoveElement
  <2>. HIDE DEF f, Q, T
  <2>. QED BY <2>3, <2>4, FS_Injection
<1>. HIDE DEF mine, Q
<1>. QED BY <1>6, <1>10, <1>11, <1>12, FS_CardinalityType DEF l

-----------------------------------------------------------------------------
(* The check an answer is stored as. *)

\* The members of a candidate are listed once each.
LEMMA MembersList ==
    ASSUME NEW C \in SUBSET ValueRows, IsFiniteSet(C), \A v, w \in C : v.id = w.id => v = w
    PROVE  Lists(Members(C), C) /\ Members(C) \in Seq(C)
<1> DEFINE R == {p \in C \X C : MemberBefore(p[1], p[2])}
           rank == [x \in C |-> Cardinality({y \in C : MemberBefore(y, x)})]
<1>1. \A v \in C : v.key \in Nat /\ v.batch \in Nat /\ v.id \in Nat
  BY DEF ValueRows
<1>2. \A v, w \in C : <<v, w>> \in R <=> MemberBefore(v, w)
  OBVIOUS
<1>3. StrictOrder(R, C)
  <2>1. \A v \in C : ~MemberBefore(v, v)
    BY <1>1 DEF MemberBefore
  <2>2. \A v, w \in C : v = w \/ MemberBefore(v, w) \/ MemberBefore(w, v)
    BY <1>1 DEF MemberBefore
  <2>3. \A u, v, w \in C : MemberBefore(u, v) /\ MemberBefore(v, w) => MemberBefore(u, w)
    BY <1>1 DEF MemberBefore
  <2>. HIDE DEF R
  <2>. QED BY <1>2, <2>1, <2>2, <2>3 DEF StrictOrder
<1>4. \A x \in C : rank[x] = Cardinality(Below(C, R, x))
  <2>1. \A x \in C : {y \in C : MemberBefore(y, x)} = Below(C, R, x)
    BY <1>2 DEF Below
  <2>. HIDE DEF R
  <2>. QED BY <2>1
<1>5. Members(C) = Ranked(C, rank)
  BY DEF Members, Sorted
<1>. HIDE DEF R, rank
<1>6. Lists(Ranked(C, rank), C) /\ Ranked(C, rank) \in Seq(C)
  BY <1>3, <1>4, RankedInOrder
<1>. QED BY <1>5, <1>6

AssessmentRows == [fact: Nat, cites: Seq(Nat)]

\* Candidates by their places, and the assessment an acceptable answer has for each.
LEMMA OrderedIs ==
    ASSUME NEW batch, CandidatesGiven(batch), NEW answer \in Seq(AssessmentRows),
           Acceptable(batch, answer)
    PROVE  LET kept == Ordered(batch, answer) IN
           /\ Len(batch) \in Nat /\ DOMAIN batch = 1..Len(batch)
           /\ kept \in Seq(AssessmentRows) /\ Len(kept) = Len(batch) /\ DOMAIN kept = 1..Len(batch)
           /\ \A i \in 1..Len(batch) :
                /\ kept[i] \in Range(answer) /\ kept[i].fact = FactOf(batch[i])
                /\ Range(kept[i].cites) \subseteq LinksOf(batch[i]) /\ kept[i].cites \in Seq(Nat)
           /\ \A i, j \in 1..Len(batch) : FactOf(batch[i]) = FactOf(batch[j]) => i = j
<1> DEFINE kept == Ordered(batch, answer)
           n == Len(batch)
<1>1. n \in Nat /\ DOMAIN batch = 1..n
  BY DEF CandidatesGiven
<1>2. \A i, j \in 1..n : FactOf(batch[i]) = FactOf(batch[j]) => i = j
  BY <1>1 DEF CandidatesGiven, IsInjective
<1>3. \A i \in 1..n : batch[i] \in Range(batch)
  BY <1>1 DEF Range
<1>4. \A i \in 1..n : CandidateFor(batch, FactOf(batch[i])) = batch[i]
  <2>1. \A C \in Range(batch) : \E j \in 1..n : C = batch[j]
    BY <1>1 DEF Range
  <2>2. \A i \in 1..n : \A C \in Range(batch) : FactOf(C) = FactOf(batch[i]) => C = batch[i]
    BY <1>2, <2>1
  <2>. QED BY <1>3, <2>2 DEF CandidateFor
<1>5. \A i \in 1..n : \E a \in Range(answer) : a.fact = FactOf(batch[i])
  BY <1>3 DEF Acceptable
<1>6. DOMAIN kept = 1..n /\ \A i \in 1..n : kept[i] = AssessmentOf(answer, FactOf(batch[i]))
  BY <1>1 DEF Ordered
<1>. HIDE DEF kept, n
<1>7. \A i \in 1..n : kept[i] \in Range(answer) /\ kept[i].fact = FactOf(batch[i])
  BY <1>5, <1>6 DEF AssessmentOf
<1>8. \A i \in 1..n : Range(kept[i].cites) \subseteq LinksOf(batch[i])
  BY <1>4, <1>7 DEF Acceptable, CitesCandidate
<1>9. \A a \in Range(answer) : a \in AssessmentRows /\ a.cites \in Seq(Nat)
  <2>1. \A a \in Range(answer) : a \in AssessmentRows
    BY DEF Range
  <2>. QED BY <2>1 DEF AssessmentRows
<1>10. kept \in Seq(AssessmentRows) /\ Len(kept) = n
  <2>1. kept = [i \in 1..n |-> kept[i]]
    BY <1>1, <1>6 DEF kept, Ordered
  <2>2. kept \in [1..n -> AssessmentRows]
    BY <2>1, <1>7, <1>9
  <2>. QED BY <2>2, <1>1
<1>. QED BY <1>1, <1>2, <1>6, <1>7, <1>8, <1>9, <1>10 DEF n, kept

KeptOf(batch, answer) == PlanResult(<<batch>>, <<answer>>).assessments

LEMMA KeptIs ==
    ASSUME NEW batch, CandidatesGiven(batch), NEW answer \in Seq(AssessmentRows),
           Acceptable(batch, answer)
    PROVE  KeptOf(batch, answer) = Ordered(batch, answer)
<1> DEFINE plan == <<batch>>
           answers == <<answer>>
           seqs == [b \in DOMAIN plan |-> Ordered(plan[b], answers[b])]
<1>1. DOMAIN plan = 1..1 /\ plan[1] = batch /\ answers[1] = answer
  OBVIOUS
<1>2. KeptOf(batch, answer) = FlattenSeq(seqs)
  BY DEF KeptOf, PlanResult
<1>3. Ordered(batch, answer) \in Seq(AssessmentRows)
  BY OrderedIs
<1>4. seqs \in [1..1 -> Seq(AssessmentRows)] /\ seqs[1] = Ordered(batch, answer)
  <2>1. \A b \in 1..1 : b = 1
    OBVIOUS
  <2>. HIDE DEF plan, answers
  <2>. QED BY <1>1, <1>3, <2>1
<1>. HIDE DEF seqs
<1>. QED BY <1>2, <1>4, FlattenOne

\* The rows of the check.
MemberTold(v) == [value |-> v.id, links |-> v.links]
CandidatesTold(batch) ==
    [i \in DOMAIN batch |->
        [id |-> FactOf(batch[i]),
         members |-> [n \in DOMAIN Members(batch[i]) |-> MemberTold(Members(batch[i])[n])]]]
AssessmentTold(kept, i) == [id |-> i, batch |-> 1, candidate |-> kept[i].fact, verdict |-> "conflict"]
AssessmentsTold(kept) == {AssessmentTold(kept, i) : i \in DOMAIN kept}
CitationTold(batch, kept, i, n) ==
    [assessment |-> i, order |-> n, value |-> Citations(batch[i], kept[i])[n].value,
     link |-> kept[i].cites[n]]
CitationsTold(batch, kept) ==
    UNION {{CitationTold(batch, kept, i, n) : n \in DOMAIN kept[i].cites} : i \in DOMAIN kept}
CheckTold(batch, kept) ==
    [batches |-> 1, skipped |-> 0, runs |-> 1, assessments |-> Len(kept),
     result |-> ResultOf(1, AssessmentsTold(kept), CitationsTold(batch, kept), CandidatesTold(batch))]
Taken(batch, kept, cited) ==
    AuthenticCheck(CheckTold(batch, kept), {[index |-> 1, skipped |-> FALSE, run |-> TRUE]},
                   AssessmentsTold(kept), cited, CandidatesTold(batch))

\* The citations of the assessment of a candidate.
CitedFor(cited, i) == {<<x.order, x.link>> : x \in {y \in cited : y.assessment = i}}

\* One assessment for each of n candidates, in their order.
OnePerCandidate(n, candidates, assessments, row) ==
    /\ n \in Nat /\ DOMAIN candidates = 1..n
    /\ \A i \in 1..n : row[i].id = i /\ row[i].batch = 1 /\ row[i].candidate = candidates[i].id
    /\ \A a \in assessments : \E k \in 1..n : a = row[k]
    /\ \A k \in 1..n : row[k] \in assessments
    /\ \A i, j \in 1..n : candidates[i].id = candidates[j].id => i = j

LEMMA ResultTells ==
    ASSUME NEW n, NEW candidates, NEW assessments, NEW row,
           OnePerCandidate(n, candidates, assessments, row),
           NEW cited, NEW i \in 1..n
    PROVE  ResultOf(1, assessments, cited, candidates)[1][i][3] = CitedFor(cited, i)
<1> DEFINE places == {k \in DOMAIN candidates :
                        \E a \in assessments : a.batch = 1 /\ a.candidate = candidates[k].id}
           mine == Picked(candidates, places)
           Own(c) == CHOOSE a \in assessments : a.batch = 1 /\ a.candidate = c.id
<1>. USE DEF OnePerCandidate
<1>1. \A a \in assessments : \E k \in 1..n : a = row[k]
  OBVIOUS
<1>2. \A k \in 1..n : row[k] \in assessments
  OBVIOUS
<1>3. places = (0 + 1)..(0 + n)
  BY <1>2
<1>4. mine = Stretch(candidates, 0, n)
  <2>1. 0 \in Nat
    OBVIOUS
  <2>. HIDE DEF places
  <2>. QED BY <1>3, <2>1, BlockPicked
<1>5. DOMAIN mine = 1..n /\ mine[i] = candidates[i]
  <2>. HIDE DEF mine
  <2>. QED BY <1>4 DEF Stretch
<1>6. Own(candidates[i]) = row[i]
  <2>1. \A a \in assessments : a.candidate = candidates[i].id => a = row[i]
    BY <1>1
  <2>2. row[i] \in assessments /\ row[i].batch = 1 /\ row[i].candidate = candidates[i].id
    BY <1>2
  <2>. QED BY <2>1, <2>2
<1>7. ResultOf(1, assessments, cited, candidates)[1] =
        [k \in DOMAIN mine |->
            <<Own(mine[k]).candidate, Own(mine[k]).verdict,
              {<<x.order, x.link>> : x \in {y \in cited : y.assessment = Own(mine[k]).id}}>>]
  <2>1. 1 \in 1..1
    OBVIOUS
  <2>. QED BY <2>1 DEF ResultOf, Where
<1>. HIDE DEF mine, Own
<1>8. ResultOf(1, assessments, cited, candidates)[1][i] =
        <<row[i].candidate, row[i].verdict,
          {<<x.order, x.link>> : x \in {y \in cited : y.assessment = row[i].id}}>>
  BY <1>5, <1>6, <1>7
<1>9. row[i].id = i
  OBVIOUS
<1>. QED BY <1>8, <1>9 DEF CitedFor

\* A citation of a kept assessment belongs to a value of its candidate.
LEMMA CitationIsOwn ==
    ASSUME NEW batch, CandidatesGiven(batch), NEW kept, NEW i \in DOMAIN batch,
           Range(kept[i].cites) \subseteq LinksOf(batch[i]), NEW n \in DOMAIN kept[i].cites
    PROVE  \E m \in Range(CandidatesTold(batch)[i].members) :
             /\ CitationTold(batch, kept, i, n).value = m.value
             /\ CitationTold(batch, kept, i, n).link \in m.links
<1> DEFINE C == batch[i]
           link == kept[i].cites[n]
           v == CHOOSE u \in C : link \in u.links
<1>1. link \in LinksOf(C)
  BY DEF Range
<1>2. v \in C /\ link \in v.links
  BY <1>1 DEF LinksOf
<1>3. CitationTold(batch, kept, i, n).value = v.id /\ CitationTold(batch, kept, i, n).link = link
  BY DEF CitationTold, Citations
<1>. HIDE DEF v, link
<1>4. Lists(Members(C), C)
  <2>1. C \in Range(batch)
    BY DEF Range
  <2> DEFINE U == UNION Range(batch)
  <2>2. C \subseteq U
    BY <2>1
  <2>3. U \in SUBSET ValueRows /\ IsFiniteSet(U) /\ \A u, w \in U : u # w => u.id # w.id
    BY DEF CandidatesGiven, ValuesGiven
  <2>. HIDE DEF U, C
  <2>4. IsFiniteSet(C)
    BY <2>2, <2>3, FS_Subset
  <2>. QED BY <2>2, <2>3, <2>4, MembersList
<1>5. PICK p \in DOMAIN Members(C) : Members(C)[p] = v
  BY <1>2, <1>4 DEF Lists
<1>6. MemberTold(v) \in Range(CandidatesTold(batch)[i].members)
  BY <1>5 DEF CandidatesTold, Range
<1>. QED BY <1>2, <1>3, <1>6 DEF MemberTold

LEMMA CheckIsTaken ==
    ASSUME NEW batch, CandidatesGiven(batch), batch # << >>, NEW answer \in Seq(AssessmentRows),
           Acceptable(batch, answer)
    PROVE  LET kept == Ordered(batch, answer)
               cited == CitationsTold(batch, kept) IN
           Taken(batch, kept, cited) /\ \A x \in cited : ~Taken(batch, kept, cited \ {x})
<1> DEFINE kept == Ordered(batch, answer)
           cited == CitationsTold(batch, kept)
           n == Len(batch)
           candidates == CandidatesTold(batch)
           assessments == AssessmentsTold(kept)
           row == [i \in 1..n |-> AssessmentTold(kept, i)]
<1>1. /\ n \in Nat /\ DOMAIN batch = 1..n
      /\ Len(kept) = n /\ DOMAIN kept = 1..n
      /\ \A i \in 1..n :
           /\ kept[i].fact = FactOf(batch[i])
           /\ Range(kept[i].cites) \subseteq LinksOf(batch[i])
      /\ \A i, j \in 1..n : FactOf(batch[i]) = FactOf(batch[j]) => i = j
  BY OrderedIs
<1>2. n # 0
  BY DEF CandidatesGiven
<1>. HIDE DEF kept, n
<1>3. /\ DOMAIN candidates = 1..n /\ Len(candidates) = n
      /\ \A i \in 1..n : candidates[i].id = FactOf(batch[i])
  BY <1>1 DEF CandidatesTold
<1>4. /\ \A i \in 1..n : /\ row[i].id = i /\ row[i].batch = 1
                         /\ row[i].candidate = candidates[i].id
      /\ assessments = {row[i] : i \in 1..n}
  BY <1>1, <1>3 DEF AssessmentsTold, AssessmentTold
<1>5. \A x \in cited : \E i \in 1..n : \E m \in DOMAIN kept[i].cites : x = CitationTold(batch, kept, i, m)
  BY <1>1 DEF CitationsTold
<1>6. \A i, m : CitationTold(batch, kept, i, m).assessment = i
                  /\ CitationTold(batch, kept, i, m).order = m
  BY DEF CitationTold
<1>7. \A x, y \in cited : x.assessment = y.assessment /\ x.order = y.order => x = y
  <2>. HIDE DEF cited, row, assessments, candidates
  <2>. QED BY <1>5, <1>6
<1>8. ASSUME NEW x \in cited
      PROVE  \E a \in assessments, c \in Range(candidates) :
               /\ x.assessment = a.id /\ c.id = a.candidate
               /\ \E m \in Range(c.members) : x.value = m.value /\ x.link \in m.links
  <2>1. PICK i \in 1..n : \E m \in DOMAIN kept[i].cites : x = CitationTold(batch, kept, i, m)
    BY <1>5, <1>8
  <2>a. PICK m \in DOMAIN kept[i].cites : x = CitationTold(batch, kept, i, m)
    BY <2>1
  <2>2. \E mm \in Range(candidates[i].members) : x.value = mm.value /\ x.link \in mm.links
    <3>1. i \in DOMAIN batch /\ Range(kept[i].cites) \subseteq LinksOf(batch[i])
      BY <1>1
    <3>. QED BY <2>a, <3>1, CitationIsOwn
  <2>. HIDE DEF candidates, assessments, row, cited
  <2>3. row[i] \in assessments /\ candidates[i] \in Range(candidates)
    BY <1>3, <1>4 DEF Range
  <2>4. x.assessment = row[i].id /\ candidates[i].id = row[i].candidate
    BY <1>4, <1>6, <2>a
  <2>. QED BY <2>2, <2>3, <2>4
<1>. HIDE DEF cited, candidates, row, assessments
<1>9. /\ OneToOne(assessments, LAMBDA a : a.id)
      /\ OneToOne(assessments, LAMBDA a : <<a.batch, a.candidate>>)
  <2>1. \A i, j \in 1..n : candidates[i].id = candidates[j].id => i = j
    BY <1>1, <1>3
  <2>2. \A a, b \in assessments : \E i, j \in 1..n : a = row[i] /\ b = row[j]
    BY <1>4
  <2>3. \A a, b \in assessments : a.id = b.id => a = b
    BY <1>4, <2>2
  <2>4. \A a, b \in assessments : a.candidate = b.candidate => a = b
    BY <1>4, <2>1, <2>2
  <2>. QED BY <2>3, <2>4 DEF OneToOne
<1>10. Cardinality(assessments) = n
  <2> DEFINE D == 1..n
  <2>1. IsFiniteSet(D) /\ Cardinality(D) = n
    BY <1>1, CountTo
  <2>2. assessments = {row[i] : i \in D} /\ \A i, j \in D : row[i] = row[j] => i = j
    <3>1. \A i, j \in D : row[i].id = i /\ row[j].id = j
      BY <1>4
    <3>. QED BY <1>4, <3>1
  <2>. HIDE DEF D
  <2>. QED BY <2>1, <2>2, ManyAs
<1>11. {a.candidate : a \in assessments} = {c.id : c \in Range(candidates)}
  <2>1. {a.candidate : a \in assessments} = {candidates[i].id : i \in 1..n}
    BY <1>4
  <2>2. {c.id : c \in Range(candidates)} = {candidates[i].id : i \in 1..n}
    BY <1>3 DEF Range
  <2>. QED BY <2>1, <2>2
<1> DEFINE one == [index |-> 1, skipped |-> FALSE, run |-> TRUE]
           app == CheckTold(batch, kept)
<1>12. /\ OneToOne({one}, LAMBDA b : b.index) /\ {b.index : b \in {one}} = 1..1
       /\ Cardinality({b \in {one} : b.skipped}) = 0 /\ Cardinality({b \in {one} : b.run}) = 1
       /\ \A b \in {one} : b.skipped <=> ~\E a \in assessments : a.batch = b.index
  <2>1. OneToOne({one}, LAMBDA b : b.index)
    BY DEF OneToOne
  <2>2. {b.index : b \in {one}} = 1..1
    OBVIOUS
  <2>3. {b \in {one} : b.skipped} = {} /\ {b \in {one} : b.run} = {one}
    OBVIOUS
  <2>4. Cardinality({b \in {one} : b.skipped}) = 0 /\ Cardinality({b \in {one} : b.run}) = 1
    <3>. HIDE DEF one
    <3>. QED BY <2>3, FS_EmptySet, FS_Singleton
  <2>5. \E a \in assessments : a.batch = 1
    <3>1. 1 \in 1..n
      BY <1>1, <1>2
    <3>. QED BY <1>4, <3>1
  <2>. QED BY <2>1, <2>2, <2>4, <2>5
<1>13. /\ app.batches = 1 /\ app.skipped = 0 /\ app.runs = 1 /\ app.assessments = n
       /\ app.result = ResultOf(1, assessments, cited, candidates)
  BY <1>1 DEF CheckTold, assessments, cited, candidates
<1>. HIDE DEF one, app
<1>14. ASSUME NEW some \in SUBSET cited
       PROVE  Taken(batch, kept, some) <=>
                ResultOf(1, assessments, cited, candidates) = ResultOf(1, assessments, some, candidates)
  <2>1. /\ \A x \in some : \E a \in assessments, c \in Range(candidates) :
             /\ x.assessment = a.id /\ c.id = a.candidate
             /\ \E m \in Range(c.members) : x.value = m.value /\ x.link \in m.links
        /\ \A x, y \in some : x.assessment = y.assessment /\ x.order = y.order => x = y
    BY <1>7, <1>8
  <2>2. Taken(batch, kept, some) <=> AuthenticCheck(app, {one}, assessments, some, candidates)
    BY DEF Taken, app, one, assessments, candidates
  <2>. QED BY <1>3, <1>9, <1>10, <1>11, <1>12, <1>13, <2>1, <2>2 DEF AuthenticCheck
<1>15. Taken(batch, kept, cited)
  BY <1>14
<1>16. ASSUME NEW x \in cited PROVE ~Taken(batch, kept, cited \ {x})
  <2>1. PICK i \in 1..n : x.assessment = i
    BY <1>5, <1>6
  <2> DEFINE less == cited \ {x}
  <2>2. \A i1, j1 \in 1..n : candidates[i1].id = candidates[j1].id => i1 = j1
    BY <1>1, <1>3
  <2>3. /\ ResultOf(1, assessments, cited, candidates)[1][i][3] = CitedFor(cited, i)
        /\ ResultOf(1, assessments, less, candidates)[1][i][3] = CitedFor(less, i)
    <3>. HIDE DEF less
    <3>1. n \in Nat /\ DOMAIN candidates = 1..n
      BY <1>1, <1>3
    <3>2. /\ \A i1 \in 1..n : row[i1].id = i1 /\ row[i1].batch = 1
                            /\ row[i1].candidate = candidates[i1].id
          /\ \A a \in assessments : \E k \in 1..n : a = row[k]
          /\ \A k \in 1..n : row[k] \in assessments
      BY <1>4
    <3>a. OnePerCandidate(n, candidates, assessments, row)
      BY <2>2, <3>1, <3>2 DEF OnePerCandidate
    <3>3. ResultOf(1, assessments, cited, candidates)[1][i][3] = CitedFor(cited, i)
      BY <2>1, <3>a, ResultTells
    <3>4. ResultOf(1, assessments, less, candidates)[1][i][3] = CitedFor(less, i)
      BY <2>1, <3>a, ResultTells
    <3>. QED BY <3>3, <3>4
  <2>4. <<x.order, x.link>> \in CitedFor(cited, i)
    BY <2>1 DEF CitedFor
  <2>5. <<x.order, x.link>> \notin CitedFor(less, i)
    <3>1. \A y \in less : y.assessment = i => y.order # x.order
      BY <1>7, <2>1
    <3>. HIDE DEF less
    <3>. QED BY <3>1 DEF CitedFor
  <2>6. less \in SUBSET cited
    OBVIOUS
  <2>. HIDE DEF less
  <2>7. ~Taken(batch, kept, less)
    BY <2>3, <2>4, <2>5, <2>6, <1>14
  <2>. QED BY <2>7 DEF less
<1>. QED BY <1>15, <1>16 DEF cited, kept

-----------------------------------------------------------------------------
(* The rows of a revision and their snapshot. *)

LEMMA DisjointJoin ==
    ASSUME NEW E, NEW s \in Seq(E), NEW t \in Seq(E), NEW S, NEW T, Lists(s, S), Lists(t, T),
           IsFiniteSet(S), IsFiniteSet(T), S \cap T = {}
    PROVE  Lists(s \o t, S \cup T) /\ IsFiniteSet(S \cup T)
<1> DEFINE w == s \o t
<1> DEFINE m == Cardinality(S)
           n == Cardinality(T)
<1>1. m \in Nat /\ n \in Nat /\ Len(s) = m /\ Len(t) = n
  BY DEF Lists
<1>2. Joins(s, t, w)
  BY JoinIs
<1>3. IsFiniteSet(S \cup T) /\ Cardinality(S \cup T) = m + n
  <2>1. Cardinality(S \cap T) = 0
    BY FS_EmptySet
  <2>2. /\ IsFiniteSet(S \cup T)
        /\ Cardinality(S \cup T) = Cardinality(S) + Cardinality(T) - Cardinality(S \cap T)
    BY FS_Union
  <2>. QED BY <1>1, <2>1, <2>2
<1>4. w \in Seq(E)
  OBVIOUS
<1>. HIDE DEF w
<1>5. DOMAIN w = 1..(m + n)
  BY <1>1, <1>2, <1>4 DEF Joins
<1>6. \A i \in 1..(m + n) : i \in 1..m \/ \E k \in 1..n : i = m + k
  <2>1. ASSUME NEW i \in 1..(m + n), i \notin 1..m PROVE i - m \in 1..n /\ i = m + (i - m)
    BY <1>1, <2>1
  <2>. QED BY <2>1
<1>7. \A i \in 1..m : w[i] = s[i] /\ s[i] \in S
  BY <1>1, <1>2 DEF Joins, Lists
<1>8. \A k \in 1..n : w[m + k] = t[k] /\ t[k] \in T /\ m + k \in 1..(m + n)
  BY <1>1, <1>2 DEF Joins, Lists
<1>9. \A i \in 1..(m + n) : w[i] \in S \cup T
  BY <1>6, <1>7, <1>8
<1>10. ASSUME NEW x \in S \cup T PROVE \E i \in 1..(m + n) : w[i] = x
  <2>1. CASE x \in S
    <3>1. PICK i \in 1..m : s[i] = x
      BY <1>1, <2>1 DEF Lists
    <3>2. i \in 1..(m + n)
      BY <1>1
    <3>. QED BY <1>7, <3>1, <3>2
  <2>2. CASE x \in T
    <3>1. PICK k \in 1..n : t[k] = x
      BY <1>1, <2>2 DEF Lists
    <3>. QED BY <1>8, <3>1
  <2>. QED BY <2>1, <2>2
<1>11. ASSUME NEW i \in 1..(m + n), NEW j \in 1..(m + n), w[i] = w[j] PROVE i = j
  <2>1. CASE i \in 1..m /\ j \in 1..m
    BY <1>1, <1>7, <1>11, <2>1 DEF Lists
  <2>2. CASE \E k, l \in 1..n : i = m + k /\ j = m + l
    <3>1. PICK k \in 1..n, l \in 1..n : i = m + k /\ j = m + l
      BY <2>2
    <3>2. t[k] = t[l]
      BY <1>8, <1>11, <3>1
    <3>3. k = l
      BY <1>1, <3>2 DEF Lists
    <3>. QED BY <3>1, <3>3
  <2>3. CASE i \in 1..m /\ \E l \in 1..n : j = m + l
    BY <1>7, <1>8, <1>11, <2>3
  <2>4. CASE j \in 1..m /\ \E l \in 1..n : i = m + l
    BY <1>7, <1>8, <1>11, <2>4
  <2>. QED BY <1>6, <2>1, <2>2, <2>3, <2>4
<1>12. m + n \in Nat
  BY <1>1
<1>13. Lists(w, S \cup T)
  BY <1>3, <1>5, <1>9, <1>10, <1>11, <1>12 DEF Lists
<1>. QED BY <1>3, <1>13 DEF w

FirstParts(part, k) == UNION {part[i] : i \in 1..k}

\* Lists of sets that share nothing make up a list of all.
LEMMA FlattenLists ==
    ASSUME NEW E, NEW seqs \in Seq(Seq(E)), NEW n \in Nat, n = Len(seqs), NEW part,
           \A i \in 1..n : IsFiniteSet(part[i]) /\ Lists(seqs[i], part[i]),
           \A i, j \in 1..n : i # j => part[i] \cap part[j] = {}
    PROVE  /\ Lists(FlattenSeq(seqs), FirstParts(part, n)) /\ IsFiniteSet(FirstParts(part, n))
           /\ FlattenSeq(seqs) \in Seq(E)
<1>0. \E acc \in [0..Len(seqs) -> Seq(E)] :
        /\ acc[0] = << >> /\ FlattenSeq(seqs) = acc[Len(seqs)]
        /\ \A k \in 0..(Len(seqs) - 1) : acc[k + 1] = acc[k] \o seqs[k + 1]
  BY FlattenIs
<1>1. PICK acc \in [0..n -> Seq(E)] :
        /\ acc[0] = << >> /\ FlattenSeq(seqs) = acc[n]
        /\ \A k \in 0..(n - 1) : acc[k + 1] = acc[k] \o seqs[k + 1]
  BY <1>0
<1> DEFINE Done == {k \in 0..n : Lists(acc[k], FirstParts(part, k))
                                    /\ IsFiniteSet(FirstParts(part, k))}
<1>2. 0 \in Done
  <2>1. FirstParts(part, 0) = {}
    BY DEF FirstParts
  <2>2. Cardinality({}) = 0 /\ IsFiniteSet({})
    BY FS_EmptySet
  <2>3. Lists(<< >>, {})
    BY <2>2 DEF Lists
  <2>4. Lists(acc[0], FirstParts(part, 0)) /\ IsFiniteSet(FirstParts(part, 0))
    BY <1>1, <2>1, <2>2, <2>3
  <2>5. 0 \in 0..n
    OBVIOUS
  <2>. QED BY <2>4, <2>5
<1>3. ASSUME NEW k \in 0..(n - 1), k \in Done PROVE k + 1 \in Done
  <2>1. k \in Nat /\ k + 1 \in 1..n /\ k + 1 \in 0..n /\ k \in 0..n
    OBVIOUS
  <2>2. FirstParts(part, k + 1) = FirstParts(part, k) \cup part[k + 1]
    <3>1. \A i \in 1..(k + 1) : i \in 1..k \/ i = k + 1
      BY <2>1
    <3>2. \A i \in 1..k : i \in 1..(k + 1)
      BY <2>1
    <3>. QED BY <2>1, <3>1, <3>2 DEF FirstParts
  <2>3. FirstParts(part, k) \cap part[k + 1] = {}
    <3>1. \A i \in 1..k : i \in 1..n /\ i # k + 1
      BY <2>1
    <3>2. \A i \in 1..k : part[i] \cap part[k + 1] = {}
      BY <2>1, <3>1
    <3>. QED BY <3>2 DEF FirstParts
  <2>a. DOMAIN seqs = 1..n
    OBVIOUS
  <2>b. seqs[k + 1] \in Seq(E)
    BY <2>1, <2>a
  <2>4. acc[k] \in Seq(E) /\ seqs[k + 1] \in Seq(E)
    BY <1>1, <2>1, <2>b
  <2>5. Lists(acc[k] \o seqs[k + 1], FirstParts(part, k) \cup part[k + 1])
          /\ IsFiniteSet(FirstParts(part, k) \cup part[k + 1])
    <3>1. Lists(acc[k], FirstParts(part, k)) /\ IsFiniteSet(FirstParts(part, k))
      BY <1>3
    <3>2. Lists(seqs[k + 1], part[k + 1]) /\ IsFiniteSet(part[k + 1])
      BY <2>1
    <3>. HIDE DEF Done
    <3>. QED BY <2>3, <2>4, <3>1, <3>2, DisjointJoin
  <2>. QED BY <1>1, <2>1, <2>2, <2>5
<1>4. 0..n \subseteq Done
  <2>. HIDE DEF Done
  <2>. QED BY <1>2, <1>3, Induction
<1>5. n \in Done
  BY <1>4
<1>. QED BY <1>1, <1>5

ValueTold(r) == [value |-> r.value, batch |-> r.batch, proposal |-> r.proposal]
ValuesTold(mine) == {ValueTold(r) : r \in mine}

FactsInOrder(rows, order) == Sorted(Facts(rows), LAMBDA f, g : order[f] < order[g])

LEMMA FactsOrdered ==
    ASSUME NEW rows, RowsStored(rows), NEW order, order \in [DOMAIN order -> Nat],
           IsInjective(order),
           Facts(rows) \subseteq DOMAIN order
    PROVE  /\ Lists(FactsInOrder(rows, order), Facts(rows))
           /\ FactsInOrder(rows, order) \in Seq(Facts(rows)) /\ IsFiniteSet(Facts(rows))
<1> DEFINE F == Facts(rows)
           R == {p \in F \X F : order[p[1]] < order[p[2]]}
           rank == [f \in F |-> Cardinality({g \in F : order[g] < order[f]})]
<1>1. IsFiniteSet(F)
  <2> DEFINE f == [r \in rows |-> r.fact]
  <2>1. f \in Surjection(rows, F)
    BY DEF Surjection, Facts
  <2>2. IsFiniteSet(rows)
    BY DEF RowsStored, RowsGiven
  <2>. HIDE DEF f, F
  <2>. QED BY <2>1, <2>2, FS_Surjection
<1>2. \A f \in F : order[f] \in Nat
  OBVIOUS
<1>3. \A f, g \in F : order[f] = order[g] => f = g
  BY DEF IsInjective
<1>. HIDE DEF F
<1>4. \A f, g \in F : <<f, g>> \in R <=> order[f] < order[g]
  OBVIOUS
<1>5. StrictOrder(R, F)
  <2>1. \A f \in F : ~(order[f] < order[f])
    BY <1>2
  <2>2. \A f, g \in F : f = g \/ order[f] < order[g] \/ order[g] < order[f]
    BY <1>2, <1>3
  <2>3. \A f, g, h \in F : order[f] < order[g] /\ order[g] < order[h] => order[f] < order[h]
    BY <1>2
  <2>. HIDE DEF R
  <2>. QED BY <1>4, <2>1, <2>2, <2>3 DEF StrictOrder
<1>6. \A f \in F : rank[f] = Cardinality(Below(F, R, f))
  <2>1. \A f \in F : {g \in F : order[g] < order[f]} = Below(F, R, f)
    BY <1>4 DEF Below
  <2>. HIDE DEF R
  <2>. QED BY <2>1
<1>7. FactsInOrder(rows, order) = Ranked(F, rank)
  BY DEF Sorted, FactsInOrder, F
<1>. HIDE DEF R, rank
<1>8. Lists(Ranked(F, rank), F) /\ Ranked(F, rank) \in Seq(F)
  BY <1>1, <1>5, <1>6, RankedInOrder
<1>. QED BY <1>1, <1>7, <1>8 DEF F

LEMMA EvidencesOrdered ==
    ASSUME NEW rows, RowsStored(rows), NEW mine \in SUBSET rows
    PROVE  /\ Lists(Sorted(mine, InPlace), mine) /\ Sorted(mine, InPlace) \in Seq(mine)
           /\ IsFiniteSet(mine)
<1> DEFINE R == {p \in mine \X mine : InPlace(p[1], p[2])}
           rank == [x \in mine |-> Cardinality({y \in mine : InPlace(y, x)})]
<1>0. IsFiniteSet(mine)
  BY FS_Subset DEF RowsStored, RowsGiven
<1>1. \A r \in mine : r.block \in Nat /\ r.link \in Nat
  BY DEF RowsStored, RowsGiven, FactRows
<1>2. \A q, r \in mine : q.link = r.link => q = r
  BY DEF RowsStored
<1>3. \A q, r \in mine : <<q, r>> \in R <=> InPlace(q, r)
  OBVIOUS
<1>4. StrictOrder(R, mine)
  <2>1. \A v \in mine : ~InPlace(v, v)
    BY <1>1 DEF InPlace
  <2>2. \A v, w \in mine : v = w \/ InPlace(v, w) \/ InPlace(w, v)
    BY <1>1, <1>2 DEF InPlace
  <2>3. \A u, v, w \in mine : InPlace(u, v) /\ InPlace(v, w) => InPlace(u, w)
    BY <1>1 DEF InPlace
  <2>. HIDE DEF R
  <2>. QED BY <1>3, <2>1, <2>2, <2>3 DEF StrictOrder
<1>5. \A x \in mine : rank[x] = Cardinality(Below(mine, R, x))
  <2>1. \A x \in mine : {y \in mine : InPlace(y, x)} = Below(mine, R, x)
    BY <1>3 DEF Below
  <2>. HIDE DEF R
  <2>. QED BY <2>1
<1>6. Sorted(mine, InPlace) = Ranked(mine, rank)
  BY DEF Sorted
<1>. HIDE DEF R, rank
<1>7. Lists(Ranked(mine, rank), mine) /\ Ranked(mine, rank) \in Seq(mine)
  BY <1>0, <1>4, <1>5, RankedInOrder
<1>. QED BY <1>0, <1>6, <1>7

LEMMA ProposalsOrdered ==
    ASSUME NEW rows, RowsStored(rows), NEW mine \in SUBSET rows
    PROVE  /\ Lists(Sorted(ValuesTold(mine), Proposed), ValuesTold(mine))
           /\ Sorted(ValuesTold(mine), Proposed) \in Seq(ValuesTold(mine))
           /\ IsFiniteSet(ValuesTold(mine))
<1> DEFINE V == ValuesTold(mine)
           R == {p \in V \X V : Proposed(p[1], p[2])}
           rank == [x \in V |-> Cardinality({y \in V : Proposed(y, x)})]
<1>0. IsFiniteSet(V)
  <2> DEFINE f == [r \in mine |-> ValueTold(r)]
  <2>1. f \in Surjection(mine, V)
    BY DEF Surjection, ValuesTold
  <2>2. IsFiniteSet(mine)
    BY FS_Subset DEF RowsStored, RowsGiven
  <2>. HIDE DEF f, V
  <2>. QED BY <2>1, <2>2, FS_Surjection
<1>1. \A v \in V : v.batch \in Nat /\ v.proposal \in Nat /\ v.value \in Nat
  BY DEF RowsStored, RowsGiven, FactRows, ValuesTold, ValueTold
<1>2. \A v, w \in V : v.value = w.value => v = w
  BY DEF RowsStored, ValuesTold, ValueTold
<1>. HIDE DEF V
<1>3. \A q, r \in V : <<q, r>> \in R <=> Proposed(q, r)
  OBVIOUS
<1>4. StrictOrder(R, V)
  <2>1. \A v \in V : ~Proposed(v, v)
    BY <1>1 DEF Proposed
  <2>2. \A v, w \in V : v = w \/ Proposed(v, w) \/ Proposed(w, v)
    BY <1>1, <1>2 DEF Proposed
  <2>3. \A u, v, w \in V : Proposed(u, v) /\ Proposed(v, w) => Proposed(u, w)
    BY <1>1 DEF Proposed
  <2>. HIDE DEF R
  <2>. QED BY <1>3, <2>1, <2>2, <2>3 DEF StrictOrder
<1>5. \A x \in V : rank[x] = Cardinality(Below(V, R, x))
  <2>1. \A x \in V : {y \in V : Proposed(y, x)} = Below(V, R, x)
    BY <1>3 DEF Below
  <2>. HIDE DEF R
  <2>. QED BY <2>1
<1>6. Sorted(V, Proposed) = Ranked(V, rank)
  BY DEF Sorted
<1>. HIDE DEF R, rank
<1>7. Lists(Ranked(V, rank), V) /\ Ranked(V, rank) \in Seq(V)
  BY <1>0, <1>4, <1>5, RankedInOrder
<1>. QED BY <1>0, <1>6, <1>7 DEF V

GroupsTold(rows, f) == {ValueGroup(rows, f, k) : k \in Meanings(rows, f)}
AllGroups(rows) == UNION {GroupsTold(rows, f) : f \in Facts(rows)}
GroupList(rows, order) ==
    LET facts == FactsInOrder(rows, order) IN
    FlattenSeq([i \in DOMAIN facts |-> ValueGroups(rows, facts[i])])

\* A group of a fact has its rows and the values they tell of.
GroupTells(rows, g, f, k) ==
    /\ g.key = k /\ GroupRows(rows, f, k) # {}
    /\ Range(g.evidences) = GroupRows(rows, f, k)
    /\ Lists(g.evidences, GroupRows(rows, f, k)) /\ g.evidences \in Seq(rows)
    /\ Range(g.values) = ValuesTold(GroupRows(rows, f, k))
    /\ Lists(g.values, ValuesTold(GroupRows(rows, f, k))) /\ g.values \in Seq(ValuesTold(rows))
    /\ IsFiniteSet(GroupRows(rows, f, k)) /\ IsFiniteSet(ValuesTold(GroupRows(rows, f, k)))

LEMMA RangeOfList ==
    ASSUME NEW S, NEW seq, Lists(seq, S)
    PROVE  Range(seq) = S
BY DEF Lists, Range

LEMMA GroupIs ==
    ASSUME NEW rows, RowsStored(rows), NEW f \in Facts(rows), NEW k \in Meanings(rows, f)
    PROVE  GroupTells(rows, ValueGroup(rows, f, k), f, k)
<1> DEFINE mine == GroupRows(rows, f, k)
           g == ValueGroup(rows, f, k)
<1>1. mine \in SUBSET rows /\ mine # {}
  BY DEF GroupRows, Meanings
<1>2. g.key = k /\ g.evidences = Sorted(mine, InPlace) /\ g.values = Sorted(ValuesTold(mine), Proposed)
  BY DEF ValueGroup, ValuesTold, ValueTold
<1>3. ValuesTold(mine) \subseteq ValuesTold(rows)
  BY <1>1 DEF ValuesTold
<1>. HIDE DEF mine, g
<1>4. /\ Lists(g.evidences, mine) /\ g.evidences \in Seq(mine) /\ IsFiniteSet(mine)
      /\ Lists(g.values, ValuesTold(mine)) /\ g.values \in Seq(ValuesTold(mine))
      /\ IsFiniteSet(ValuesTold(mine))
  BY <1>1, <1>2, EvidencesOrdered, ProposalsOrdered
<1>5. g.evidences \in Seq(rows) /\ g.values \in Seq(ValuesTold(rows))
  BY <1>1, <1>3, <1>4
<1>6. Range(g.evidences) = mine /\ Range(g.values) = ValuesTold(mine)
  BY <1>4, RangeOfList
<1>. QED BY <1>1, <1>2, <1>4, <1>5, <1>6 DEF GroupTells, g, mine

\* The groups of a fact are told of by meaning.
LEMMA GroupsOrdered ==
    ASSUME NEW rows, RowsStored(rows), NEW f \in Facts(rows)
    PROVE  /\ Lists(ValueGroups(rows, f), GroupsTold(rows, f))
           /\ ValueGroups(rows, f) \in Seq(GroupsTold(rows, f)) /\ IsFiniteSet(GroupsTold(rows, f))
<1> DEFINE M == Meanings(rows, f)
           keys == Sorted(M, <)
           seq == ValueGroups(rows, f)
           of == [k \in M |-> ValueGroup(rows, f, k)]
<1>1. M \in SUBSET Nat
  BY DEF Meanings, RowsStored, RowsGiven, FactRows
<1>2. IsFiniteSet(M)
  <2> DEFINE mine == {x \in rows : x.fact = f}
             h == [r \in mine |-> r.key]
  <2>1. h \in Surjection(mine, M)
    BY DEF Surjection, Meanings
  <2>2. IsFiniteSet(rows) /\ mine \subseteq rows
    BY DEF RowsStored, RowsGiven
  <2>. HIDE DEF h, mine, M
  <2>3. IsFiniteSet(mine)
    BY <2>2, FS_Subset
  <2>. QED BY <2>1, <2>3, FS_Surjection
<1>3. DOMAIN seq = DOMAIN keys /\ \A i \in DOMAIN keys : seq[i] = ValueGroup(rows, f, keys[i])
  BY DEF ValueGroups
<1>4. seq = [i \in DOMAIN keys |-> seq[i]]
  BY DEF ValueGroups
<1>5. GroupsTold(rows, f) = {of[k] : k \in M}
  BY DEF GroupsTold
<1>6. \A k \in M : of[k] = ValueGroup(rows, f, k) /\ of[k].key = k
  BY DEF ValueGroup
<1>. HIDE DEF M, keys, seq, of
<1>7. Lists(keys, M) /\ keys \in Seq(M)
  BY <1>1, <1>2, NumbersSorted DEF keys
<1> DEFINE G == GroupsTold(rows, f)
<1>8. IsFiniteSet(G) /\ Cardinality(G) = Cardinality(M)
  <2>1. G = {of[k] : k \in M} /\ \A k, l \in M : of[k] = of[l] => k = l
    BY <1>5, <1>6
  <2>. HIDE DEF G
  <2>. QED BY <1>2, <2>1, ManyAs
<1>9. \A i \in DOMAIN keys : keys[i] \in M /\ seq[i] = of[keys[i]]
  BY <1>3, <1>6, <1>7 DEF Lists
<1>10. \A i \in DOMAIN keys : seq[i] \in G
  BY <1>5, <1>9
<1>11. \A x \in G : \E i \in DOMAIN keys : seq[i] = x
  <2>1. \A k \in M : \E i \in DOMAIN keys : keys[i] = k
    BY <1>7 DEF Lists
  <2>. QED BY <1>5, <1>9, <2>1
<1>12. \A i, j \in DOMAIN keys : seq[i] = seq[j] => i = j
  <2>1. \A i, j \in DOMAIN keys : keys[i] = keys[j] => i = j
    BY <1>7 DEF Lists
  <2>. QED BY <1>6, <1>9, <2>1
<1>13. DOMAIN keys = 1..Cardinality(G) /\ Cardinality(G) \in Nat
  BY <1>7, <1>8 DEF Lists
<1>. HIDE DEF G
<1>14. Lists(seq, G)
  BY <1>3, <1>10, <1>11, <1>12, <1>13 DEF Lists
<1>15. seq \in Seq(G)
  <2>1. seq \in [1..Cardinality(G) -> G]
    BY <1>4, <1>10, <1>13
  <2>. QED BY <1>13, <2>1
<1>. QED BY <1>8, <1>14, <1>15 DEF G, seq

LEMMA GroupsListed ==
    ASSUME NEW rows, RowsStored(rows), NEW order, order \in [DOMAIN order -> Nat],
           IsInjective(order), Facts(rows) \subseteq DOMAIN order
    PROVE  Lists(GroupList(rows, order), AllGroups(rows)) /\ GroupList(rows, order) \in Seq(AllGroups(rows))
<1> DEFINE facts == FactsInOrder(rows, order)
           seqs == [i \in DOMAIN facts |-> ValueGroups(rows, facts[i])]
           part == [i \in DOMAIN facts |-> GroupsTold(rows, facts[i])]
           F == Facts(rows)
           n == Len(facts)
           E == AllGroups(rows)
<1>1. Lists(facts, F) /\ facts \in Seq(F)
  BY FactsOrdered
<1>2. GroupList(rows, order) = FlattenSeq(seqs)
  BY DEF GroupList
<1>3. /\ DOMAIN seqs = DOMAIN facts /\ \A i \in DOMAIN facts : seqs[i] = ValueGroups(rows, facts[i])
      /\ DOMAIN part = DOMAIN facts /\ \A i \in DOMAIN facts : part[i] = GroupsTold(rows, facts[i])
      /\ seqs = [i \in DOMAIN facts |-> seqs[i]]
  OBVIOUS
<1>. HIDE DEF facts, seqs, part
<1>4. n \in Nat /\ DOMAIN facts = 1..n
  BY <1>1
<1>5. \A i \in 1..n : facts[i] \in F
  BY <1>1, <1>4 DEF Lists
<1>6. \A i \in 1..n : /\ Lists(seqs[i], part[i]) /\ IsFiniteSet(part[i])
                      /\ seqs[i] \in Seq(part[i]) /\ part[i] \subseteq E
  <2>. SUFFICES ASSUME NEW i \in 1..n
                PROVE  /\ Lists(seqs[i], part[i]) /\ IsFiniteSet(part[i])
                       /\ seqs[i] \in Seq(part[i]) /\ part[i] \subseteq E
    OBVIOUS
  <2>1. seqs[i] = ValueGroups(rows, facts[i]) /\ part[i] = GroupsTold(rows, facts[i]) /\ facts[i] \in F
    BY <1>3, <1>4, <1>5
  <2>2. GroupsTold(rows, facts[i]) \subseteq E
    BY <2>1 DEF AllGroups
  <2>. HIDE DEF E
  <2>. QED BY <2>1, <2>2, GroupsOrdered
<1>7. \A i, j \in 1..n : i # j => part[i] \cap part[j] = {}
  <2>. SUFFICES ASSUME NEW i \in 1..n, NEW j \in 1..n, NEW g, g \in part[i], g \in part[j]
                PROVE  i = j
    OBVIOUS
  <2>1. PICK k \in Meanings(rows, facts[i]) : g = ValueGroup(rows, facts[i], k)
    BY <1>3, <1>4 DEF GroupsTold
  <2>2. PICK l \in Meanings(rows, facts[j]) : g = ValueGroup(rows, facts[j], l)
    BY <1>3, <1>4 DEF GroupsTold
  <2>3. GroupTells(rows, g, facts[i], k) /\ GroupTells(rows, g, facts[j], l)
    BY <1>5, <2>1, <2>2, GroupIs
  <2>4. GroupRows(rows, facts[i], k) = GroupRows(rows, facts[j], l) /\ GroupRows(rows, facts[i], k) # {}
    BY <2>3 DEF GroupTells
  <2>5. facts[i] = facts[j]
    BY <2>4 DEF GroupRows
  <2>. QED BY <1>1, <1>4, <2>5 DEF Lists
<1>8. Len(seqs) = n /\ seqs \in Seq(Seq(E))
  <2>1. \A i \in 1..n : seqs[i] \in Seq(E)
    <3>. HIDE DEF E
    <3>. QED BY <1>6
  <2>2. seqs \in [1..n -> Seq(E)]
    BY <1>3, <1>4, <2>1
  <2>. QED BY <1>4, <2>2
<1>9. FirstParts(part, n) = E
  <2>1. \A f \in F : \E i \in 1..n : facts[i] = f
    BY <1>1, <1>4 DEF Lists
  <2>2. \A i \in 1..n : part[i] = GroupsTold(rows, facts[i])
    BY <1>3, <1>4
  <2>. QED BY <1>5, <2>1, <2>2 DEF FirstParts, AllGroups
<1>. HIDE DEF E, n
<1>10. Lists(FlattenSeq(seqs), FirstParts(part, n)) /\ FlattenSeq(seqs) \in Seq(E)
  BY <1>4, <1>6, <1>7, <1>8, FlattenLists
<1>. QED BY <1>2, <1>9, <1>10 DEF E

SourceOf(rows) ==
    {[value |-> r.value, fact |-> r.fact, key |-> r.key, batch |-> r.batch,
      links |-> {q.link : q \in {x \in rows : x.value = r.value}}] : r \in rows}
LinksFor(rows, v) == {q.link : q \in {x \in rows : x.value = v}}
ValuesList(groups) == FlattenSeq([i \in DOMAIN groups |-> groups[i].values])
EvidencesList(groups) == FlattenSeq([i \in DOMAIN groups |-> groups[i].evidences])

LEMMA StoredRowsFit ==
    ASSUME NEW rows, RowsStored(rows)
    PROVE  RowsFit(rows, SourceOf(rows), 1)
<1> DEFINE source == SourceOf(rows)
           Told(r) == [value |-> r.value, fact |-> r.fact, key |-> r.key, batch |-> r.batch,
                       links |-> LinksFor(rows, r.value)]
<1>1. source = {Told(r) : r \in rows}
  BY DEF SourceOf, LinksFor
<1>2. \A r \in rows : /\ Told(r).value = r.value /\ Told(r).fact = r.fact /\ Told(r).key = r.key
                      /\ Told(r).batch = r.batch /\ Told(r).links = LinksFor(rows, r.value)
  OBVIOUS
<1>. HIDE DEF Told, source
<1>3. {r.value : r \in rows} = {s.value : s \in source}
  BY <1>1, <1>2
<1>4. \A s \in source : \E r \in rows :
         /\ r.value = s.value /\ r.fact = s.fact /\ r.key = s.key /\ r.batch = s.batch
         /\ LinksFor(rows, s.value) = s.links
  BY <1>1, <1>2
<1>5. /\ \A r \in rows : r.run = 1 /\ r.blockRun = 1
      /\ \A q, r \in rows : q.value = r.value =>
           q.fact = r.fact /\ q.key = r.key /\ q.batch = r.batch /\ q.proposal = r.proposal
      /\ \A q, r \in rows : q.link = r.link => q = r
  BY DEF RowsStored
<1>. QED BY <1>3, <1>4, <1>5 DEF RowsFit, LinksFor, source

LEMMA LostRowShows ==
    ASSUME NEW rows, RowsStored(rows), NEW r \in rows
    PROVE  ~RowsFit(rows \ {r}, SourceOf(rows), 1)
<1> DEFINE s == [value |-> r.value, fact |-> r.fact, key |-> r.key, batch |-> r.batch,
                 links |-> {q.link : q \in {x \in rows : x.value = r.value}}]
           less == rows \ {r}
<1>1. s \in SourceOf(rows)
  BY DEF SourceOf
<1>2. r.link \in s.links
  OBVIOUS
<1>3. \A q \in less : q.link # r.link
  BY DEF RowsStored
<1>. HIDE DEF s, less
<1>4. RowsFit(less, SourceOf(rows), 1) => {q.link : q \in {x \in less : x.value = s.value}} = s.links
  BY <1>1 DEF RowsFit
<1>5. r.link \notin {q.link : q \in {x \in less : x.value = s.value}}
  BY <1>3
<1>. QED BY <1>2, <1>4, <1>5 DEF less

\* A place of the groups and the fact and meaning told of there.
LEMMA GroupPlaces ==
    ASSUME NEW rows, RowsStored(rows), NEW groups, Lists(groups, AllGroups(rows)),
           NEW i \in DOMAIN groups
    PROVE  \E f \in Facts(rows) : \E k \in Meanings(rows, f) :
              groups[i] = ValueGroup(rows, f, k) /\ GroupTells(rows, groups[i], f, k)
<1>1. groups[i] \in AllGroups(rows)
  BY DEF Lists
<1>2. PICK f \in Facts(rows) : \E k \in Meanings(rows, f) : groups[i] = ValueGroup(rows, f, k)
  BY <1>1 DEF AllGroups, GroupsTold
<1>3. PICK k \in Meanings(rows, f) : groups[i] = ValueGroup(rows, f, k)
  BY <1>2
<1>. QED BY <1>3, GroupIs

LEMMA SnapshotLists ==
    ASSUME NEW rows, RowsStored(rows), NEW groups, groups \in Seq(AllGroups(rows)),
           Lists(groups, AllGroups(rows))
    PROVE  /\ Lists(ValuesList(groups), ValuesTold(rows)) /\ ValuesList(groups) \in Seq(ValuesTold(rows))
           /\ Lists(EvidencesList(groups), rows) /\ EvidencesList(groups) \in Seq(rows)
<1> DEFINE n == Len(groups)
           V == ValuesTold(rows)
           vs == [i \in DOMAIN groups |-> groups[i].values]
           es == [i \in DOMAIN groups |-> groups[i].evidences]
           vp == [i \in DOMAIN groups |-> Range(groups[i].values)]
           ep == [i \in DOMAIN groups |-> Range(groups[i].evidences)]
<1>1. n \in Nat /\ DOMAIN groups = 1..n
  OBVIOUS
<1>2. \A i \in 1..n : /\ vs[i] = groups[i].values /\ es[i] = groups[i].evidences
                      /\ vp[i] = Range(groups[i].values) /\ ep[i] = Range(groups[i].evidences)
  BY <1>1
<1>3. vs = [i \in 1..n |-> vs[i]] /\ es = [i \in 1..n |-> es[i]]
  BY <1>1
<1>. HIDE DEF vs, es, vp, ep, n
<1>4. \A i \in 1..n : \E f \in Facts(rows) : \E k \in Meanings(rows, f) :
         groups[i] = ValueGroup(rows, f, k) /\ GroupTells(rows, groups[i], f, k)
  BY <1>1, GroupPlaces
<1>5. \A i \in 1..n : /\ IsFiniteSet(vp[i]) /\ Lists(vs[i], vp[i]) /\ vs[i] \in Seq(V)
                      /\ IsFiniteSet(ep[i]) /\ Lists(es[i], ep[i]) /\ es[i] \in Seq(rows)
  <2>. HIDE DEF V
  <2>. SUFFICES ASSUME NEW i \in 1..n
                PROVE  /\ IsFiniteSet(vp[i]) /\ Lists(vs[i], vp[i]) /\ vs[i] \in Seq(V)
                       /\ IsFiniteSet(ep[i]) /\ Lists(es[i], ep[i]) /\ es[i] \in Seq(rows)
    OBVIOUS
  <2>1. PICK f \in Facts(rows) : \E k \in Meanings(rows, f) : GroupTells(rows, groups[i], f, k)
    BY <1>4
  <2>2. PICK k \in Meanings(rows, f) : GroupTells(rows, groups[i], f, k)
    BY <2>1
  <2>. QED BY <1>2, <2>2 DEF GroupTells, V
<1>6. \A i \in 1..n : \A r \in ep[i] :
         r \in rows /\ r.fact \in Facts(rows) /\ r.key \in Meanings(rows, r.fact)
           /\ groups[i] = ValueGroup(rows, r.fact, r.key)
  <2>. SUFFICES ASSUME NEW i \in 1..n, NEW r \in ep[i]
                PROVE  r \in rows /\ r.fact \in Facts(rows) /\ r.key \in Meanings(rows, r.fact)
                         /\ groups[i] = ValueGroup(rows, r.fact, r.key)
    OBVIOUS
  <2>1. PICK f \in Facts(rows) : \E k \in Meanings(rows, f) :
          groups[i] = ValueGroup(rows, f, k) /\ GroupTells(rows, groups[i], f, k)
    BY <1>4
  <2>2. PICK k \in Meanings(rows, f) : groups[i] = ValueGroup(rows, f, k) /\ GroupTells(rows, groups[i], f, k)
    BY <2>1
  <2>3. r \in GroupRows(rows, f, k)
    BY <1>2, <2>2 DEF GroupTells
  <2>4. r \in rows /\ r.fact = f /\ r.key = k
    BY <2>3 DEF GroupRows
  <2>. QED BY <2>2, <2>4
<1>7. \A i \in 1..n : vp[i] = ValuesTold(ep[i])
  <2>. SUFFICES ASSUME NEW i \in 1..n PROVE vp[i] = ValuesTold(ep[i])
    OBVIOUS
  <2>1. PICK f \in Facts(rows) : \E k \in Meanings(rows, f) : GroupTells(rows, groups[i], f, k)
    BY <1>4
  <2>2. PICK k \in Meanings(rows, f) : GroupTells(rows, groups[i], f, k)
    BY <2>1
  <2>. QED BY <1>2, <2>2 DEF GroupTells
<1>8. \A i, j \in 1..n : groups[i] = groups[j] => i = j
  BY <1>1 DEF Lists
<1>9. \A i, j \in 1..n : i # j => ep[i] \cap ep[j] = {}
  BY <1>6, <1>8
<1>10. \A i, j \in 1..n : i # j => vp[i] \cap vp[j] = {}
  <2>. SUFFICES ASSUME NEW i \in 1..n, NEW j \in 1..n, NEW v, v \in vp[i], v \in vp[j] PROVE i = j
    OBVIOUS
  <2>1. PICK q \in ep[i] : v = ValueTold(q)
    BY <1>7 DEF ValuesTold
  <2>2. PICK r \in ep[j] : v = ValueTold(r)
    BY <1>7 DEF ValuesTold
  <2>3. q.value = r.value
    BY <2>1, <2>2 DEF ValueTold
  <2>4. q \in rows /\ r \in rows
    BY <1>6
  <2>5. q.fact = r.fact /\ q.key = r.key
    BY <2>3, <2>4 DEF RowsStored
  <2>6. groups[i] = ValueGroup(rows, q.fact, q.key) /\ groups[j] = ValueGroup(rows, r.fact, r.key)
    BY <1>6
  <2>. QED BY <1>8, <2>5, <2>6
<1>11. \A r \in rows : \E i \in 1..n : r \in ep[i]
  <2>. SUFFICES ASSUME NEW r \in rows PROVE \E i \in 1..n : r \in ep[i]
    OBVIOUS
  <2>1. r.fact \in Facts(rows) /\ r.key \in Meanings(rows, r.fact)
    BY DEF Facts, Meanings
  <2>2. ValueGroup(rows, r.fact, r.key) \in AllGroups(rows)
    BY <2>1 DEF AllGroups, GroupsTold
  <2>3. PICK i \in 1..n : groups[i] = ValueGroup(rows, r.fact, r.key)
    BY <1>1, <2>2 DEF Lists
  <2>4. GroupTells(rows, groups[i], r.fact, r.key)
    BY <2>1, <2>3, GroupIs
  <2>5. r \in GroupRows(rows, r.fact, r.key)
    BY DEF GroupRows
  <2>. QED BY <1>2, <2>4, <2>5 DEF GroupTells
<1>12. FirstParts(ep, n) = rows
  BY <1>6, <1>11 DEF FirstParts
<1>13. FirstParts(vp, n) = V
  BY <1>6, <1>7, <1>11 DEF FirstParts, ValuesTold
<1>. HIDE DEF V
<1>14. Len(vs) = n /\ vs \in Seq(Seq(V)) /\ Len(es) = n /\ es \in Seq(Seq(rows))
  <2>1. vs \in [1..n -> Seq(V)] /\ es \in [1..n -> Seq(rows)]
    BY <1>3, <1>5
  <2>. QED BY <1>1, <2>1
<1>15. Lists(FlattenSeq(vs), FirstParts(vp, n)) /\ FlattenSeq(vs) \in Seq(V)
  BY <1>1, <1>5, <1>10, <1>14, FlattenLists
<1>16. Lists(FlattenSeq(es), FirstParts(ep, n)) /\ FlattenSeq(es) \in Seq(rows)
  BY <1>1, <1>5, <1>9, <1>14, FlattenLists
<1>. QED BY <1>12, <1>13, <1>15, <1>16 DEF V, vs, es, ValuesList, EvidencesList

LEMMA ListIsInjective ==
    ASSUME NEW S, NEW seq \in Seq(S), Lists(seq, S)
    PROVE  IsInjective(seq) /\ Len(seq) = Cardinality(S)
BY DEF Lists, IsInjective

\* As many values are told of as there are.
LEMMA ValuesCounted ==
    ASSUME NEW rows, RowsStored(rows)
    PROVE  Cardinality(ValuesTold(rows)) = Cardinality({r.value : r \in rows})
<1> DEFINE V == ValuesTold(rows)
           T == {r.value : r \in rows}
           f == [v \in V |-> v.value]
<1>1. IsFiniteSet(V)
  BY ProposalsOrdered
<1>2. T = {f[v] : v \in V}
  <2>1. \A v \in V : f[v] = v.value
    OBVIOUS
  <2>2. \A r \in rows : ValueTold(r) \in V /\ ValueTold(r).value = r.value
    BY DEF ValuesTold, ValueTold
  <2>3. \A v \in V : \E r \in rows : v = ValueTold(r)
    BY DEF ValuesTold
  <2>. HIDE DEF V, f
  <2>. QED BY <2>1, <2>2, <2>3
<1>3. \A v, w \in V : f[v] = f[w] => v = w
  BY DEF RowsStored, ValuesTold, ValueTold
<1>. HIDE DEF V, T, f
<1>4. Cardinality(T) = Cardinality(V)
  BY <1>1, <1>2, <1>3, ManyAs
<1>. QED BY <1>4 DEF V, T

-----------------------------------------------------------------------------
(* Each element of a sequence once, and what the sequences joined hold. *)

LEMMA NotedOneByOne ==
    ASSUME NEW E, NEW seq \in Seq(E), NEW T, << >> \in T,
           \A s \in T, e \in E : Noted(s, e) \in T
    PROVE  \E acc \in [0..Len(seq) -> T] :
              /\ acc[0] = << >> /\ EachOnce(seq) = acc[Len(seq)]
              /\ \A k \in 0..(Len(seq) - 1) : acc[k + 1] = Noted(acc[k], seq[k + 1])
<1> DEFINE n == Len(seq)
           F == [p \in T \X (1..n) |-> Noted(p[1], seq[p[2]])]
           Body(g) == [s \in SUBSET DOMAIN seq |->
                         IF s = {} THEN << >> ELSE Noted(g[s \ {Max(s)}], seq[Max(s)])]
           fold == CHOOSE h : h = Body(h)
           acc == [k \in 0..n |-> fold[1..k]]
<1>1. EachOnce(seq) = fold[DOMAIN seq]
  BY DEF EachOnce, FoldLeft, MapThenFoldSet
<1>2. n \in Nat /\ DOMAIN seq = 1..n /\ \A i \in 1..n : seq[i] \in E
  OBVIOUS
<1>3. F \in [T \X (1..n) -> T]
  <2>. HIDE DEF n
  <2>1. ASSUME NEW p \in T \X (1..n) PROVE Noted(p[1], seq[p[2]]) \in T
    <3>1. p[1] \in T /\ p[2] \in 1..n
      OBVIOUS
    <3>2. seq[p[2]] \in E
      BY <1>2, <3>1
    <3>. QED BY <3>1, <3>2
  <2>. QED BY <2>1
<1>4. PICK h \in [SUBSET (1..n) -> T] : FoldsTo(h, n, << >>, F)
  <2>. HIDE DEF F, n
  <2>. QED BY <1>2, <1>3, FoldExists
<1>5. \A s \in SUBSET (1..n) : s # {} => Max(s) \in s /\ Max(s) \in 1..n /\ s \ {Max(s)} \in SUBSET (1..n)
  <2>1. \A s \in SUBSET (1..n) : s # {} => Max(s) \in s
    <3>. HIDE DEF n
    <3>. QED BY <1>2, MaxIs
  <2>. QED BY <2>1
<1>6. \A p \in T \X (1..n) : F[p] = Noted(p[1], seq[p[2]])
  OBVIOUS
<1>. HIDE DEF F
<1>7. ASSUME NEW s \in SUBSET (1..n)
      PROVE  h[s] = IF s = {} THEN << >> ELSE Noted(h[s \ {Max(s)}], seq[Max(s)])
  <2>1. CASE s = {}
    BY <2>1, <1>4 DEF FoldsTo
  <2>2. CASE s # {}
    <3>1. h[s] = F[<<h[s \ {Max(s)}], Max(s)>>]
      BY <2>2, <1>4 DEF FoldsTo
    <3>2. h[s \ {Max(s)}] \in T /\ Max(s) \in 1..n
      <4>. HIDE DEF n
      <4>. QED BY <1>4, <1>5, <2>2
    <3>3. <<h[s \ {Max(s)}], Max(s)>> \in T \X (1..n)
      BY <3>2
    <3>4. F[<<h[s \ {Max(s)}], Max(s)>>] = Noted(h[s \ {Max(s)}], seq[Max(s)])
      <4>. HIDE DEF n
      <4>. QED BY <1>6, <3>3
    <3>. QED BY <2>2, <3>1, <3>4
  <2>. QED BY <2>1, <2>2
<1>8. h = Body(h)
  <2>. HIDE DEF n
  <2>. QED BY <1>2, <1>4, <1>7
<1>9. fold = Body(fold)
  <2>. HIDE DEF Body
  <2>. QED BY <1>8
<1>. HIDE DEF fold
<1>10. ASSUME NEW s \in SUBSET (1..n)
       PROVE  fold[s] = IF s = {} THEN << >> ELSE Noted(fold[s \ {Max(s)}], seq[Max(s)])
  <2>. HIDE DEF n
  <2>. QED BY <1>2, <1>9
<1>11. \A k \in 0..n : acc[k] = fold[1..k] /\ 1..k \in SUBSET (1..n)
  OBVIOUS
<1>12. acc[0] = << >>
  <2>1. 1..0 = {} /\ 0 \in 0..n
    BY <1>2
  <2>. QED BY <1>10, <1>11, <2>1
<1>13. ASSUME NEW k \in 0..(n - 1) PROVE acc[k + 1] = Noted(acc[k], seq[k + 1])
  <2>1. Max(1..(k + 1)) = k + 1 /\ (1..(k + 1)) \ {k + 1} = 1..k
    BY MaxOfInterval
  <2>a. n \in Nat
    BY <1>2
  <2>2. 1..(k + 1) # {} /\ k \in 0..n /\ k + 1 \in 0..n /\ 1..(k + 1) \in SUBSET (1..n)
    <3>. HIDE DEF n
    <3>1. k \in Nat /\ k + 1 \in Nat /\ ~(k + 1 > n)
      BY <2>a
    <3>2. 1 \in 1..(k + 1) /\ k \in 0..n /\ k + 1 \in 0..n
      BY <2>a, <3>1
    <3>3. \A i \in 1..(k + 1) : i \in 1..n
      BY <2>a, <3>1
    <3>. QED BY <3>2, <3>3
  <2>3. fold[1..(k + 1)] = Noted(fold[(1..(k + 1)) \ {Max(1..(k + 1))}], seq[Max(1..(k + 1))])
    BY <1>10, <2>2
  <2>4. fold[1..(k + 1)] = Noted(fold[1..k], seq[k + 1])
    BY <2>1, <2>3
  <2>5. acc[k] = fold[1..k] /\ acc[k + 1] = fold[1..(k + 1)]
    BY <1>11, <2>2
  <2>. QED BY <2>4, <2>5
<1>14. \A k \in 0..(n - 1) : acc[k] \in T => acc[k + 1] \in T
  <2>1. \A k \in 0..(n - 1) : k + 1 \in 1..n
    BY <1>2
  <2>. HIDE DEF acc, n
  <2>. QED BY <1>2, <1>13, <2>1
<1>15. \A k \in 0..n : acc[k] \in T
  <2>. HIDE DEF acc, n
  <2>. QED BY <1>2, <1>12, <1>14, StatesStay
<1>16. acc \in [0..n -> T]
  <2>1. acc = [k \in 0..n |-> acc[k]]
    OBVIOUS
  <2>. HIDE DEF acc, n
  <2>. QED BY <1>15, <2>1
<1>17. acc[n] = fold[DOMAIN seq]
  BY <1>2
<1>. HIDE DEF acc
<1>. QED BY <1>1, <1>12, <1>13, <1>16, <1>17

\* What is noted is there once, and it is what was there.
OnceUpTo(acc, seq, k) ==
    IsInjective(acc[k]) /\ Range(acc[k]) = {seq[i] : i \in 1..k}

LEMMA EachIsNoted ==
    ASSUME NEW E, NEW seq \in Seq(E)
    PROVE  EachOnce(seq) \in Seq(E) /\ IsInjective(EachOnce(seq)) /\ Range(EachOnce(seq)) = Range(seq)
<1> DEFINE n == Len(seq)
           T == Seq(E)
<1>1. << >> \in T /\ \A s \in T, e \in E : Noted(s, e) \in T
  BY DEF Noted
<1>2. PICK acc \in [0..n -> T] :
        /\ acc[0] = << >> /\ EachOnce(seq) = acc[n]
        /\ \A k \in 0..(n - 1) : acc[k + 1] = Noted(acc[k], seq[k + 1])
  <2>. HIDE DEF T
  <2>. QED BY <1>1, NotedOneByOne
<1>3. n \in Nat /\ DOMAIN seq = 1..n /\ \A i \in 1..n : seq[i] \in E
  OBVIOUS
<1>. HIDE DEF n
<1> DEFINE Done == {k \in 0..n : OnceUpTo(acc, seq, k)}
<1>4. 0 \in Done
  <2>1. IsInjective(acc[0]) /\ Range(acc[0]) = {} /\ 1..0 = {} /\ 0 \in 0..n
    BY <1>2, <1>3 DEF IsInjective, Range
  <2>. QED BY <2>1 DEF OnceUpTo
<1>5. ASSUME NEW k \in 0..(n - 1), k \in Done PROVE k + 1 \in Done
  <2>0. k + 1 \in 1..n /\ k \in 0..n /\ k + 1 \in 0..n /\ 1..(k + 1) = (1..k) \cup {k + 1}
    BY <1>3
  <2> DEFINE s == acc[k]
             b == seq[k + 1]
             t == acc[k + 1]
  <2>1. s \in Seq(E) /\ b \in E /\ t = Noted(s, b)
    BY <1>2, <1>3, <2>0
  <2>2. IsInjective(s) /\ Range(s) = {seq[i] : i \in 1..k}
    BY <1>5 DEF OnceUpTo
  <2>3. {seq[i] : i \in 1..(k + 1)} = {seq[i] : i \in 1..k} \cup {b}
    BY <2>0
  <2>. HIDE DEF s, b, t
  <2>4. IsInjective(t) /\ Range(t) = Range(s) \cup {b}
    <3>1. CASE Contains(s, b)
      <4>1. b \in Range(s)
        BY <2>1, <3>1 DEF Contains, Range
      <4>. QED BY <2>1, <2>2, <3>1, <4>1 DEF Noted
    <3>2. CASE ~Contains(s, b)
      <4>1. t = Append(s, b)
        BY <2>1, <3>2 DEF Noted
      <4>2. /\ DOMAIN t = 1..(Len(s) + 1) /\ Len(s) \in Nat /\ DOMAIN s = 1..Len(s)
            /\ \A i \in 1..Len(s) : t[i] = s[i]
            /\ t[Len(s) + 1] = b
        BY <2>1, <4>1
      <4>3. \A i \in 1..Len(s) : s[i] # b
        BY <3>2 DEF Contains
      <4>4. \A i \in 1..(Len(s) + 1) : i \in 1..Len(s) \/ i = Len(s) + 1
        BY <4>2
      <4>5. \A i \in 1..Len(s) : i \in 1..(Len(s) + 1)
        BY <4>2
      <4>6. Len(s) + 1 \in 1..(Len(s) + 1)
        BY <4>2
      <4>7. IsInjective(t)
        BY <2>2, <4>2, <4>3, <4>4 DEF IsInjective
      <4>8. Range(t) = Range(s) \cup {b}
        BY <4>2, <4>4, <4>5, <4>6 DEF Range
      <4>. QED BY <4>7, <4>8
    <3>. QED BY <3>1, <3>2
  <2>. QED BY <2>0, <2>2, <2>3, <2>4 DEF OnceUpTo, t
<1>6. n \in Done
  <2>1. 0..n \subseteq Done
    <3>. HIDE DEF Done
    <3>. QED BY <1>3, <1>4, <1>5, Induction
  <2>. QED BY <1>3, <2>1
<1>7. Range(seq) = {seq[i] : i \in 1..n}
  BY <1>3 DEF Range
<1>8. acc[n] \in T
  BY <1>2, <1>3
<1>. QED BY <1>2, <1>6, <1>7, <1>8 DEF OnceUpTo

RangesTo(seqs, k) == UNION {Range(seqs[i]) : i \in 1..k}

LEMMA FlattenRange ==
    ASSUME NEW E, NEW seqs \in Seq(Seq(E))
    PROVE  Range(FlattenSeq(seqs)) = RangesTo(seqs, Len(seqs)) /\ FlattenSeq(seqs) \in Seq(E)
<1> DEFINE n == Len(seqs)
<1>1. PICK acc \in [0..n -> Seq(E)] :
        /\ acc[0] = << >> /\ FlattenSeq(seqs) = acc[n]
        /\ \A k \in 0..(n - 1) : acc[k + 1] = acc[k] \o seqs[k + 1]
  BY FlattenIs
<1>2. n \in Nat /\ DOMAIN seqs = 1..n /\ \A i \in 1..n : seqs[i] \in Seq(E)
  OBVIOUS
<1>. HIDE DEF n
<1> DEFINE Done == {k \in 0..n : Range(acc[k]) = RangesTo(seqs, k)}
<1>3. 0 \in Done
  <2>1. Range(acc[0]) = {} /\ 1..0 = {} /\ 0 \in 0..n
    BY <1>1, <1>2 DEF Range
  <2>. QED BY <2>1 DEF RangesTo
<1>4. ASSUME NEW k \in 0..(n - 1), k \in Done PROVE k + 1 \in Done
  <2>0. k + 1 \in 1..n /\ k \in 0..n /\ k + 1 \in 0..n /\ 1..(k + 1) = (1..k) \cup {k + 1}
    BY <1>2
  <2> DEFINE s == acc[k]
             t == seqs[k + 1]
  <2>1. s \in Seq(E) /\ t \in Seq(E) /\ acc[k + 1] = s \o t
    BY <1>1, <1>2, <2>0
  <2>2. Range(s) = RangesTo(seqs, k)
    BY <1>4
  <2>3. RangesTo(seqs, k + 1) = RangesTo(seqs, k) \cup Range(t)
    BY <2>0 DEF RangesTo
  <2>. HIDE DEF s, t
  <2>4. Range(s \o t) = Range(s) \cup Range(t)
    <3> DEFINE w == s \o t
    <3>1. Joins(s, t, w)
      BY <2>1, JoinIs
    <3>2. w \in Seq(E)
      BY <2>1
    <3>. HIDE DEF w
    <3>3. /\ Len(s) \in Nat /\ Len(t) \in Nat /\ DOMAIN w = 1..(Len(s) + Len(t))
          /\ DOMAIN s = 1..Len(s) /\ DOMAIN t = 1..Len(t)
      BY <2>1, <3>1, <3>2 DEF Joins
    <3>4. \A i \in 1..(Len(s) + Len(t)) : i \in 1..Len(s) \/ \E m \in 1..Len(t) : i = Len(s) + m
      <4>1. ASSUME NEW i \in 1..(Len(s) + Len(t)), i \notin 1..Len(s)
            PROVE  i - Len(s) \in 1..Len(t) /\ i = Len(s) + (i - Len(s))
        BY <3>3, <4>1
      <4>. QED BY <4>1
    <3>5. \A i \in 1..Len(s) : i \in DOMAIN w /\ w[i] = s[i]
      BY <3>1, <3>3 DEF Joins
    <3>6. \A m \in 1..Len(t) : Len(s) + m \in DOMAIN w /\ w[Len(s) + m] = t[m]
      BY <3>1, <3>3 DEF Joins
    <3>a. \A i \in 1..(Len(s) + Len(t)) : w[i] \in Range(s) \cup Range(t)
      <4>1. \A i \in 1..Len(s) : s[i] \in Range(s)
        BY <3>3 DEF Range
      <4>2. \A m \in 1..Len(t) : t[m] \in Range(t)
        BY <3>3 DEF Range
      <4>. QED BY <3>4, <3>5, <3>6, <4>1, <4>2
    <3>8. \A x \in Range(w) : x \in Range(s) \cup Range(t)
      BY <3>3, <3>a DEF Range
    <3>9. \A x \in Range(s) \cup Range(t) : x \in Range(w)
      BY <3>3, <3>5, <3>6 DEF Range
    <3>7. Range(w) = Range(s) \cup Range(t)
      BY <3>8, <3>9
    <3>. QED BY <3>7 DEF w
  <2>. QED BY <2>0, <2>1, <2>2, <2>3, <2>4
<1>5. n \in Done
  <2>1. 0..n \subseteq Done
    <3>. HIDE DEF Done
    <3>. QED BY <1>2, <1>3, <1>4, Induction
  <2>. QED BY <1>2, <2>1
<1>6. acc[n] \in Seq(E)
  BY <1>1, <1>2
<1>. QED BY <1>1, <1>5, <1>6 DEF n

LEMMA TableIsSeq ==
    ASSUME NEW S, NEW n \in Nat, NEW f, f \in [1..n -> S]
    PROVE  f \in Seq(S) /\ Len(f) = n
OBVIOUS

================================================================================
