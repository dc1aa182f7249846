-------------------------------- MODULE ViewProofs -------------------------------
(* Proofs about the operators of KnowledgeView and ReviewQueries, for any fields,      *)
(* facts and decisions: what the projections, the view made of them and the lists of   *)
(* reviewed facts are, subject by subject and field by field.  The sequences they      *)
(* join, sort and add up come first.                                                   *)
EXTENDS OperatorProofs, ReviewQueries

-----------------------------------------------------------------------------
(* What is filtered again, what is joined and what it adds up to. *)

LEMMA PickedAll ==
    ASSUME NEW E, NEW seq \in Seq(E)
    PROVE  Picked(seq, 1..Len(seq)) = seq
<1> DEFINE n == Len(seq)
           places == (0 + 1)..(0 + n)
<1>1. n \in Nat /\ DOMAIN seq = 1..n /\ seq = [i \in 1..n |-> seq[i]]
  OBVIOUS
<1>. HIDE DEF n
<1>2. places = 1..n
  BY <1>1
<1>3. Picked(seq, places) = Stretch(seq, 0, n)
  BY <1>1, BlockPicked
<1>4. Stretch(seq, 0, n) = [i \in 1..n |-> seq[i]]
  <2>1. \A i \in 1..n : 0 + i = i
    OBVIOUS
  <2>. QED BY <2>1 DEF Stretch
<1>5. Picked(seq, 1..n) = seq
  BY <1>1, <1>2, <1>3, <1>4
<1>. QED BY <1>5 DEF n

\* What is picked, and what makes it so.
PickedTells(kept, seq, P) ==
    /\ DOMAIN kept = 1..Len(kept) /\ Len(kept) = Cardinality(P) /\ Len(kept) \in Nat
    /\ Range(kept) = {seq[i] : i \in P} /\ kept \in Seq(Range(kept))
    /\ \A m \in DOMAIN kept : \E i \in P : kept[m] = seq[i]
    /\ \A i \in P : \E m \in DOMAIN kept : kept[m] = seq[i]
    /\ (\A i, j \in P : seq[i] = seq[j] => i = j) =>
          \A m, l \in DOMAIN kept : kept[m] = kept[l] => m = l

LEMMA PickedRange ==
    ASSUME NEW E, NEW seq \in Seq(E), NEW P \in SUBSET (1..Len(seq))
    PROVE  PickedTells(Picked(seq, P), seq, P) /\ Picked(seq, P) \in Seq(E) /\ IsFiniteSet(P)
<1> DEFINE kept == Picked(seq, P)
<1>1. /\ kept \in Seq(E) /\ IsFiniteSet(P) /\ Len(kept) = Cardinality(P)
      /\ \E order : PickedBy(kept, order, P, seq)
  BY PickedIs
<1>. HIDE DEF kept
<1>2. DOMAIN kept = 1..Len(kept) /\ Len(kept) \in Nat
  BY <1>1
<1>3. PICK order : PickedBy(kept, order, P, seq)
  BY <1>1
<1>4. /\ DOMAIN order = DOMAIN kept /\ \A m \in DOMAIN kept : kept[m] = seq[order[m]]
      /\ \A m \in DOMAIN kept : order[m] \in P
      /\ \A i \in P : \E m \in DOMAIN kept : order[m] = i
      /\ \A m, l \in DOMAIN kept : order[m] = order[l] => m = l
  BY <1>3 DEF PickedBy, Lists
<1>5. /\ \A m \in DOMAIN kept : \E i \in P : kept[m] = seq[i]
      /\ \A i \in P : \E m \in DOMAIN kept : kept[m] = seq[i]
  BY <1>4
<1>6. Range(kept) = {seq[i] : i \in P}
  BY <1>5 DEF Range
<1>7. kept \in Seq(Range(kept))
  <2>1. \A m \in 1..Len(kept) : kept[m] \in Range(kept)
    BY <1>2 DEF Range
  <2>. QED BY <1>1, <2>1
<1>8. ASSUME \A i, j \in P : seq[i] = seq[j] => i = j, NEW m \in DOMAIN kept, NEW l \in DOMAIN kept,
             kept[m] = kept[l]
      PROVE  m = l
  <2>2. kept[m] = seq[order[m]] /\ kept[l] = seq[order[l]] /\ order[m] \in P /\ order[l] \in P
    BY <1>4, <1>8
  <2>3. seq[order[m]] = seq[order[l]]
    BY <1>8, <2>2
  <2>1. order[m] = order[l]
    BY <1>8, <2>2, <2>3
  <2>. QED BY <1>4, <2>1
<1>. QED BY <1>1, <1>2, <1>5, <1>6, <1>7, <1>8 DEF PickedTells, kept

\* What is filtered twice is filtered once.
KeptTwice(kept, M, seq, P, Q, T) ==
    /\ kept = Picked(seq, P) /\ M \in SUBSET (DOMAIN kept) /\ Q \in SUBSET P
    /\ \A n \in DOMAIN kept : n \in M <=> kept[n] \in T
    /\ \A i \in P : i \in Q <=> seq[i] \in T

LEMMA PickedAgain ==
    ASSUME NEW E, NEW seq \in Seq(E), NEW P \in SUBSET (1..Len(seq)), NEW T,
           NEW kept, NEW M, NEW Q, KeptTwice(kept, M, seq, P, Q, T)
    PROVE  Picked(kept, M) = Picked(seq, Q)
<1> DEFINE order == Sorted(P, <)
           N == {n \in DOMAIN kept : order[n] \in Q}
<1>0. /\ kept = Picked(seq, P) /\ M \in SUBSET (DOMAIN kept) /\ Q \in SUBSET P
      /\ \A n \in DOMAIN kept : n \in M <=> kept[n] \in T
      /\ \A i \in P : i \in Q <=> seq[i] \in T
  BY DEF KeptTwice
<1>1. Picked(kept, N) = Picked(seq, Q)
  BY <1>0, PickedTwice
<1>2. DOMAIN kept = DOMAIN order /\ \A n \in DOMAIN order : kept[n] = seq[order[n]]
  BY <1>0 DEF Picked
<1>3. \A n \in DOMAIN order : order[n] \in P
  <2>1. Len(seq) \in Nat
    OBVIOUS
  <2>2. Enumerates(Sorted(P, <), P, Cardinality(P))
    BY <2>1, SortedEnumerates
  <2>3. Enumerates(order, P, Cardinality(P))
    BY <2>2
  <2>. HIDE DEF order
  <2>. QED BY <2>3 DEF Enumerates
<1>. HIDE DEF order
<1>4. \A n \in DOMAIN kept : order[n] \in Q <=> kept[n] \in T
  BY <1>0, <1>2, <1>3
<1>5. M = N
  BY <1>0, <1>4
<1>. QED BY <1>1, <1>5

LEMMA FiniteImage ==
    ASSUME NEW S, IsFiniteSet(S), NEW T, NEW f, \A x \in S : f[x] \in T,
           \A y \in T : \E x \in S : f[x] = y
    PROVE  IsFiniteSet(T) /\ Cardinality(T) <= Cardinality(S)
<1> DEFINE g == [x \in S |-> f[x]]
<1>1. g \in Surjection(S, T)
  BY DEF Surjection
<1>. HIDE DEF g
<1>. QED BY <1>1, FS_Surjection

LEMMA RangeIsFinite ==
    ASSUME NEW E, NEW seq \in Seq(E)
    PROVE  IsFiniteSet(Range(seq)) /\ Range(seq) \in SUBSET E
<1> DEFINE D == 1..Len(seq)
<1>1. DOMAIN seq = D /\ Len(seq) \in Nat
  OBVIOUS
<1>2. IsFiniteSet(D)
  BY <1>1, CountTo
<1>3. \A i \in D : seq[i] \in Range(seq)
  BY <1>1 DEF Range
<1>4. \A e \in Range(seq) : \E i \in D : seq[i] = e
  BY <1>1 DEF Range
<1>5. Range(seq) \in SUBSET E
  BY <1>1 DEF Range
<1>. HIDE DEF D
<1>. QED BY <1>2, <1>3, <1>4, <1>5, FiniteImage

\* Where the parts of what was flattened stand.
PartsStand(off, flat, seqs, n) ==
    /\ off \in [0..n -> Nat] /\ off[0] = 0 /\ DOMAIN flat = 1..off[n] /\ Len(flat) = off[n]
    /\ \A k \in 1..n : off[k] = off[k - 1] + Len(seqs[k]) /\ off[k] <= off[n]
    /\ \A k \in 1..n : \A p \in 1..Len(seqs[k]) : flat[off[k - 1] + p] = seqs[k][p]
    /\ \A q \in 1..off[n] : \E k \in 1..n : \E p \in 1..Len(seqs[k]) : q = off[k - 1] + p

LEMMA FlattenStands ==
    ASSUME NEW E, NEW seqs \in Seq(Seq(E)), NEW n \in Nat, n = Len(seqs)
    PROVE  \E off : PartsStand(off, FlattenSeq(seqs), seqs, n)
<1>1. PICK acc \in [0..n -> Seq(E)] :
         /\ acc[0] = << >> /\ FlattenSeq(seqs) = acc[n]
         /\ \A k \in 0..(n - 1) : acc[k + 1] = acc[k] \o seqs[k + 1]
  BY FlattenIs
<1> DEFINE off == [k \in 0..n |-> Len(acc[k])]
           Upto(m) == [k \in 0..m |-> off[k]]
           Good == {m \in 0..n : PartsStand(Upto(m), acc[m], seqs, m)}
<1>2. \A k \in 1..n : seqs[k] \in Seq(E) /\ Len(seqs[k]) \in Nat
  OBVIOUS
<1>3. \A k \in 0..n : acc[k] \in Seq(E) /\ off[k] = Len(acc[k]) /\ off[k] \in Nat
  BY <1>1
<1>4. 0 \in Good
  <2>1. acc[0] = << >> /\ off[0] = 0 /\ 0 \in 0..n
    BY <1>1
  <2>2. Upto(0) \in [0..0 -> Nat] /\ Upto(0)[0] = 0
    BY <2>1
  <2>3. PartsStand(Upto(0), acc[0], seqs, 0)
    <3>. HIDE DEF Upto
    <3>. QED BY <2>1, <2>2 DEF PartsStand
  <2>. QED BY <2>1, <2>3
<1>5. ASSUME NEW m \in 0..(n - 1), m \in Good PROVE m + 1 \in Good
  <2> DEFINE s == acc[m]
             t == seqs[m + 1]
             w == acc[m + 1]
             a == Upto(m)
             b == Upto(m + 1)
  <2>1. m \in 0..n /\ m + 1 \in 1..n /\ m + 1 \in 0..n /\ m \in Nat
    OBVIOUS
  <2>2. s \in Seq(E) /\ t \in Seq(E) /\ w = s \o t
    BY <1>1, <1>2, <1>3, <2>1
  <2>3. Joins(s, t, w)
    BY <2>2, JoinIs
  <2>4. PartsStand(a, s, seqs, m)
    BY <1>5
  <2>5. Len(s) \in Nat /\ Len(t) \in Nat /\ DOMAIN w = 1..Len(w) /\ Len(w) = Len(s) + Len(t)
    BY <2>2, <2>3 DEF Joins
  <2>6. \A k \in 0..m : a[k] = off[k] /\ b[k] = off[k] /\ k \in 0..(m + 1)
    OBVIOUS
  <2>7. b[m + 1] = off[m + 1] /\ m + 1 \in 0..(m + 1)
    OBVIOUS
  <2>8. DOMAIN b = 0..(m + 1) /\ b = [k \in 0..(m + 1) |-> b[k]]
    OBVIOUS
  <2>9. off[m] = Len(s) /\ off[m + 1] = Len(w)
    BY <1>3, <2>1
  <2>. HIDE DEF s, t, w, a, b, off, Upto
  <2>10. b \in [0..(m + 1) -> Nat]
    <3>1. \A k \in 0..m : a[k] \in Nat
      BY <2>4 DEF PartsStand
    <3>2. ASSUME NEW k \in 0..(m + 1) PROVE b[k] \in Nat
      <4>1. CASE k \in 0..m
        BY <2>6, <3>1, <4>1
      <4>2. CASE k = m + 1
        BY <2>5, <2>7, <2>9, <4>2
      <4>. QED BY <2>1, <4>1, <4>2
    <3>. QED BY <2>8, <3>2
  <2>11. b[0] = 0 /\ b[m] = Len(s) /\ b[m + 1] = Len(w)
    <3>1. 0 \in 0..m /\ m \in 0..m
      BY <2>1
    <3>2. a[0] = 0
      BY <2>4 DEF PartsStand
    <3>. QED BY <2>6, <2>7, <2>9, <3>1, <3>2
  <2>12. Len(seqs[m + 1]) = Len(t) /\ \A p \in 1..Len(t) : seqs[m + 1][p] = t[p]
    BY DEF t
  <2>13. ASSUME NEW k \in 1..(m + 1)
         PROVE  /\ b[k] = b[k - 1] + Len(seqs[k]) /\ b[k] <= b[m + 1]
                /\ \A p \in 1..Len(seqs[k]) : w[b[k - 1] + p] = seqs[k][p]
    <3>1. CASE k = m + 1
      <4>1. k - 1 = m
        BY <2>1, <3>1
      <4>2. \A p \in 1..Len(t) : w[Len(s) + p] = t[p]
        BY <2>3 DEF Joins
      <4>3. \A p \in 1..Len(seqs[m + 1]) : w[b[m] + p] = seqs[m + 1][p]
        BY <2>11, <2>12, <4>2
      <4>4. b[m + 1] = b[m] + Len(seqs[m + 1]) /\ b[m + 1] <= b[m + 1]
        BY <2>5, <2>11, <2>12
      <4>. QED BY <3>1, <4>1, <4>3, <4>4
    <3>2. CASE k # m + 1
      <4>1. k \in 1..m /\ k - 1 \in 0..m /\ k \in 0..m /\ m \in 0..m
        BY <2>1, <3>2
      <4>2. /\ a[k] = a[k - 1] + Len(seqs[k]) /\ a[k] <= a[m] /\ a[m] = Len(s)
            /\ \A p \in 1..Len(seqs[k]) : s[a[k - 1] + p] = seqs[k][p]
            /\ a[k - 1] \in Nat /\ a[k] \in Nat
        BY <2>4, <4>1 DEF PartsStand
      <4>3. b[k] = a[k] /\ b[k - 1] = a[k - 1]
        BY <2>6, <4>1
      <4>4. Len(seqs[k]) \in Nat
        BY <1>2, <2>1, <4>1
      <4>5. ASSUME NEW p \in 1..Len(seqs[k]) PROVE w[b[k - 1] + p] = seqs[k][p]
        <5>1. b[k - 1] + p \in 1..Len(s)
          <6>1. p \in Nat /\ 1 <= p /\ p <= Len(seqs[k])
            BY <4>4
          <6>2. /\ a[k] = a[k - 1] + Len(seqs[k]) /\ a[k] <= Len(s)
                /\ a[k - 1] \in Nat /\ b[k - 1] = a[k - 1]
            BY <4>2, <4>3
          <6>3. \A x, l, c, y \in Nat : 1 <= y /\ y <= l /\ x + l <= c => x + y \in 1..c
            OBVIOUS
          <6>4. a[k - 1] + Len(seqs[k]) <= Len(s)
            BY <6>2
          <6>. QED BY <2>5, <4>4, <6>1, <6>2, <6>3, <6>4
        <5>2. w[b[k - 1] + p] = s[b[k - 1] + p]
          BY <2>3, <5>1 DEF Joins
        <5>. QED BY <4>2, <4>3, <5>2
      <4>. QED BY <2>5, <2>11, <4>2, <4>3, <4>5
    <3>. QED BY <3>1, <3>2
  <2>14. ASSUME NEW q \in 1..b[m + 1]
         PROVE  \E k \in 1..(m + 1) : \E p \in 1..Len(seqs[k]) : q = b[k - 1] + p
    <3>1. CASE q <= Len(s)
      <4>1. q \in 1..a[m]
        BY <2>4, <2>5, <2>11, <3>1, <2>6, <2>1
      <4>2. PICK k \in 1..m : \E p \in 1..Len(seqs[k]) : q = a[k - 1] + p
        BY <2>4, <4>1 DEF PartsStand
      <4>3. k \in 1..(m + 1) /\ k - 1 \in 0..m
        BY <2>1
      <4>. QED BY <2>6, <4>2, <4>3
    <3>2. CASE ~(q <= Len(s))
      <4>1. q - Len(s) \in 1..Len(t) /\ q = Len(s) + (q - Len(s))
        BY <2>5, <2>11, <3>2
      <4>2. m + 1 \in 1..(m + 1) /\ (m + 1) - 1 = m
        BY <2>1
      <4>. QED BY <2>11, <2>12, <4>1, <4>2
    <3>. QED BY <3>1, <3>2
  <2>15. PartsStand(b, w, seqs, m + 1)
    BY <2>5, <2>10, <2>11, <2>13, <2>14 DEF PartsStand
  <2>. QED BY <2>1, <2>15 DEF b, w
<1>6. n \in Good
  <2>. HIDE DEF Good
  <2>1. 0..n \subseteq Good
    BY <1>4, <1>5, Induction
  <2>2. n \in 0..n
    OBVIOUS
  <2>. QED BY <2>1, <2>2
<1>. QED BY <1>1, <1>6

\* A table that grows by each member is the sum.
LEMMA TotalByTable ==
    ASSUME NEW S, NEW w, Weighs(w, S), NEW g, g[{}] = 0,
           \A s \in SUBSET S : \A x \in s : g[s] = w[x] + g[s \ {x}]
    PROVE  \A s \in SUBSET S : Total(w, s) = g[s]
<1> DEFINE Bad == {s \in SUBSET S : Total(w, s) # g[s]}
<1>1. IsFiniteSet(S)
  BY DEF Weighs
<1>2. ASSUME Bad # {} PROVE FALSE
  <2>1. Bad \in SUBSET (SUBSET S)
    OBVIOUS
  <2>2. \A s \in SUBSET S : s \notin Bad => Total(w, s) = g[s]
    OBVIOUS
  <2>3. \A s \in Bad : s \in SUBSET S /\ Total(w, s) # g[s]
    OBVIOUS
  <2>. HIDE DEF Bad
  <2>4. PICK s \in Bad : \A t \in SUBSET s : t # s => t \notin Bad
    BY <1>1, <1>2, <2>1, LeastSet
  <2>5. /\ Total(w, {}) = 0
        /\ \A t \in SUBSET S : \A x \in t : Total(w, t) = w[x] + Total(w, t \ {x})
    BY TotalStep
  <2>6. s # {}
    BY <2>3, <2>5
  <2>7. PICK x : x \in s
    BY <2>6
  <2>8. s \ {x} \in SUBSET s /\ s \ {x} # s /\ s \ {x} \in SUBSET S
    BY <2>3, <2>7
  <2>9. Total(w, s \ {x}) = g[s \ {x}]
    BY <2>2, <2>4, <2>8
  <2>10. Total(w, s) = w[x] + Total(w, s \ {x}) /\ g[s] = w[x] + g[s \ {x}]
    BY <2>3, <2>5, <2>7
  <2>. QED BY <2>3, <2>9, <2>10
<1>. QED BY <1>2

\* A sum over what stands for the members of a set.
LEMMA TotalMapped ==
    ASSUME NEW S, NEW w, Weighs(w, S), NEW A, IsFiniteSet(A), NEW f,
           \A x \in A : f[x] \in S, \A y \in S : \E x \in A : f[x] = y,
           \A x, y \in A : f[x] = f[y] => x = y,
           NEW v, \A x \in A : v[x] = w[f[x]]
    PROVE  Total(v, A) = Total(w, S) /\ Weighs(v, A)
<1> DEFINE Image(s) == {f[x] : x \in s}
           g == [s \in SUBSET A |-> Total(w, Image(s))]
<1>1. Weighs(v, A)
  BY DEF Weighs
<1>2. /\ Total(w, {}) = 0
      /\ \A t \in SUBSET S : \A x \in t : Total(w, t) = w[x] + Total(w, t \ {x})
  BY TotalStep
<1>3. g[{}] = 0
  <2>1. Image({}) = {}
    OBVIOUS
  <2>. QED BY <1>2, <2>1
<1>4. ASSUME NEW s \in SUBSET A, NEW x \in s PROVE g[s] = v[x] + g[s \ {x}]
  <2>1. Image(s) \in SUBSET S /\ f[x] \in Image(s)
    OBVIOUS
  <2>2. Image(s \ {x}) = Image(s) \ {f[x]}
    OBVIOUS
  <2>3. g[s] = Total(w, Image(s)) /\ g[s \ {x}] = Total(w, Image(s \ {x})) /\ v[x] = w[f[x]]
    OBVIOUS
  <2>. HIDE DEF Image, g
  <2>4. Total(w, Image(s)) = w[f[x]] + Total(w, Image(s) \ {f[x]})
    BY <1>2, <2>1
  <2>. QED BY <2>2, <2>3, <2>4
<1>5. Image(A) = S
  OBVIOUS
<1>6. g[A] = Total(w, Image(A))
  OBVIOUS
<1>. HIDE DEF g, Image
<1>7. Total(v, A) = g[A]
  BY <1>1, <1>3, <1>4, TotalByTable
<1>. QED BY <1>1, <1>5, <1>6, <1>7

LEMMA TotalConstant ==
    ASSUME NEW A, IsFiniteSet(A), NEW c \in Nat, NEW w, \A x \in A : w[x] = c
    PROVE  Total(w, A) = Cardinality(A) * c
<1> DEFINE g == [s \in SUBSET A |-> Cardinality(s) * c]
<1>1. Weighs(w, A)
  BY DEF Weighs
<1>2. g[{}] = 0
  <2>1. Cardinality({}) = 0
    BY FS_EmptySet
  <2>. QED BY <2>1
<1>3. ASSUME NEW s \in SUBSET A, NEW x \in s PROVE g[s] = w[x] + g[s \ {x}]
  <2>1. IsFiniteSet(s) /\ s \ {x} \in SUBSET A /\ w[x] = c
    BY FS_Subset
  <2>2. Cardinality(s) \in Nat /\ Cardinality(s \ {x}) \in Nat /\ Cardinality(s \ {x}) = Cardinality(s) - 1
    BY <2>1, SmallerByOne
  <2>3. g[s] = Cardinality(s) * c /\ g[s \ {x}] = Cardinality(s \ {x}) * c
    BY <2>1
  <2>4. \A k \in Nat : (k + 1) * c = c + k * c
    OBVIOUS
  <2>5. Cardinality(s) = Cardinality(s \ {x}) + 1
    BY <2>2
  <2>. HIDE DEF g
  <2>. QED BY <2>1, <2>2, <2>3, <2>4, <2>5
<1>4. g[A] = Cardinality(A) * c
  OBVIOUS
<1>. HIDE DEF g
<1>5. Total(w, A) = g[A]
  BY <1>1, <1>2, <1>3, TotalByTable
<1>. QED BY <1>4, <1>5

\* What is counted by its state is counted once.
HowMany(state, n, x) == Cardinality({i \in 1..n : state[i] = x})

LEMMA CountsMakeTheWhole ==
    ASSUME NEW n \in Nat, NEW state, NEW S, IsFiniteSet(S), \A i \in 1..n : state[i] \in S,
           NEW w, \A x \in S : w[x] = HowMany(state, n, x)
    PROVE  Total(w, S) = n
<1> DEFINE Rows(s) == {i \in 1..n : state[i] \in s}
           g == [s \in SUBSET S |-> Cardinality(Rows(s))]
<1>a. \A x \in S : w[x] = Cardinality({i \in 1..n : state[i] = x})
  BY DEF HowMany
<1>0. IsFiniteSet(1..n) /\ Cardinality(1..n) = n
  BY CountTo
<1>1. \A P \in SUBSET (1..n) : IsFiniteSet(P) /\ Cardinality(P) \in Nat
  BY <1>0, FS_Subset, FS_CardinalityType
<1>2. Weighs(w, S)
  <2>1. \A x \in S : {i \in 1..n : state[i] = x} \in SUBSET (1..n)
    OBVIOUS
  <2>2. \A x \in S : w[x] \in Nat
    BY <1>1, <1>a, <2>1
  <2>. QED BY <2>2 DEF Weighs
<1>3. g[{}] = 0
  <2>1. Rows({}) = {}
    OBVIOUS
  <2>. QED BY <2>1, FS_EmptySet
<1>4. ASSUME NEW s \in SUBSET S, NEW x \in s PROVE g[s] = w[x] + g[s \ {x}]
  <2> DEFINE P == {i \in 1..n : state[i] = x}
             Q == Rows(s \ {x})
  <2>1. g[s] = Cardinality(Rows(s)) /\ g[s \ {x}] = Cardinality(Q) /\ w[x] = Cardinality(P)
    BY <1>a
  <2>2. P \in SUBSET (1..n) /\ Q \in SUBSET (1..n)
    OBVIOUS
  <2>3. Rows(s) = P \cup Q /\ P \cap Q = {}
    OBVIOUS
  <2>. HIDE DEF P, Q, Rows, g
  <2>4. IsFiniteSet(P) /\ IsFiniteSet(Q) /\ Cardinality(P) \in Nat /\ Cardinality(Q) \in Nat
    BY <1>1, <2>2
  <2>5. Cardinality(P \cup Q) = Cardinality(P) + Cardinality(Q) - Cardinality(P \cap Q)
    BY <2>4, FS_Union
  <2>6. Cardinality(P \cap Q) = 0
    BY <2>3, FS_EmptySet
  <2>. QED BY <2>1, <2>3, <2>4, <2>5, <2>6
<1>5. Rows(S) = 1..n
  OBVIOUS
<1>6. g[S] = Cardinality(Rows(S))
  OBVIOUS
<1>. HIDE DEF g, Rows
<1>7. \A s \in SUBSET S : \A x \in s : g[s] = w[x] + g[s \ {x}]
  BY <1>4
<1>8. S \in SUBSET S
  OBVIOUS
<1>9. \A s \in SUBSET S : Total(w, s) = g[s]
  BY ONLY <1>2, <1>3, <1>7, TotalByTable
<1>. QED BY <1>0, <1>5, <1>6, <1>8, <1>9

-----------------------------------------------------------------------------
(* Sections: the fields of each group one after the other. *)

SameGroup(fields, i) == {j \in DOMAIN fields : GroupOf(fields[j]) = GroupOf(fields[i])}
PartsOf(fields) == [k \in DOMAIN Sections(fields) |-> Sections(fields)[k].fields]
Sectioned(fields) == FlattenSeq(PartsOf(fields))

\* Every field has one leader, the first of its group.
Leads(fields, order, m) ==
    /\ Enumerates(order, Leaders(fields), m)
    /\ \A k \in 1..m : order[k] \in 1..Len(fields)
    /\ \A k, l \in 1..m : GroupOf(fields[order[k]]) = GroupOf(fields[order[l]]) => k = l
    /\ \A j \in 1..Len(fields) : \E k \in 1..m :
         GroupOf(fields[j]) = GroupOf(fields[order[k]]) /\ order[k] <= j

LEMMA LeadersLead ==
    ASSUME NEW E, NEW fields \in Seq(E)
    PROVE  /\ Leads(fields, Sorted(Leaders(fields), <), Cardinality(Leaders(fields)))
           /\ Cardinality(Leaders(fields)) \in Nat /\ Leaders(fields) \in SUBSET (1..Len(fields))
<1> DEFINE order == Sorted(Leaders(fields), <)
           m == Cardinality(Leaders(fields))
<1>0. DOMAIN fields = 1..Len(fields) /\ Len(fields) \in Nat
  OBVIOUS
<1>1. Leaders(fields) \in SUBSET (1..Len(fields))
  BY <1>0 DEF Leaders
<1>2. Enumerates(order, Leaders(fields), m) /\ m \in Nat
  BY <1>0, <1>1, SortedEnumerates
<1>. HIDE DEF order, m
<1>3. \A k \in 1..m : order[k] \in Leaders(fields)
  BY <1>2 DEF Enumerates
<1>4. \A i, j \in Leaders(fields) : GroupOf(fields[i]) = GroupOf(fields[j]) => i = j
  <2>1. \A i, j \in Leaders(fields) : i < j => GroupOf(fields[i]) # GroupOf(fields[j])
    BY <1>0 DEF Leaders
  <2>2. \A i, j \in Leaders(fields) : i < j \/ j < i \/ i = j
    BY <1>1
  <2>. QED BY <2>1, <2>2
<1>5. \A k, l \in 1..m : order[k] = order[l] => k = l
  <2>1. \A k, l \in 1..m : k < l => order[k] < order[l]
    BY <1>2 DEF Enumerates
  <2>2. \A k \in 1..m : order[k] \in Nat
    BY <1>1, <1>3
  <2>3. \A k, l \in 1..m : k < l \/ l < k \/ k = l
    BY <1>2
  <2>. QED BY <2>1, <2>2, <2>3
<1>6. ASSUME NEW j \in 1..Len(fields)
      PROVE  \E k \in 1..m : GroupOf(fields[j]) = GroupOf(fields[order[k]]) /\ order[k] <= j
  <2> DEFINE Same == {i \in 1..Len(fields) : GroupOf(fields[i]) = GroupOf(fields[j])}
  <2>1. Same \in SUBSET Nat /\ j \in Same
    OBVIOUS
  <2>2. PICK i \in Same : \A l \in Same : i <= l
    <3>. HIDE DEF Same
    <3>. QED BY <2>1, LeastNumber
  <2>3. i \in Leaders(fields)
    <3>1. \A l \in 1..(i - 1) : l \in 1..Len(fields) /\ ~(i <= l)
      BY <1>0
    <3>2. \A l \in 1..(i - 1) : l \notin Same
      BY <2>2, <3>1
    <3>. QED BY <1>0, <3>1, <3>2 DEF Leaders
  <2>4. PICK k \in 1..m : order[k] = i
    BY <1>2, <2>3 DEF Enumerates
  <2>. QED BY <2>1, <2>2, <2>4
<1>. QED BY <1>1, <1>2, <1>3, <1>4, <1>5, <1>6 DEF Leads, order, m

SectionsTell(fields, order, m) ==
    /\ Leads(fields, order, m)
    /\ Sections(fields) = [k \in 1..m |-> SectionOf(fields, order[k])]
    /\ \A k \in 1..m :
         LET part == PartsOf(fields)[k] IN
         /\ part = Picked(fields, SameGroup(fields, order[k]))
         /\ Len(part) \in Nat \ {0} /\ part[1] = fields[order[k]]
         /\ \A p \in 1..Len(part) : GroupOf(part[p]) = GroupOf(fields[order[k]])

LEMMA FirstPicked ==
    ASSUME NEW E, NEW seq \in Seq(E), NEW P \in SUBSET (1..Len(seq)), NEW i \in P,
           \A j \in P : i <= j
    PROVE  Len(Picked(seq, P)) \in Nat \ {0} /\ Picked(seq, P)[1] = seq[i]
<1> DEFINE kept == Picked(seq, P)
<1>1. /\ kept \in Seq(E) /\ IsFiniteSet(P) /\ Len(kept) = Cardinality(P)
      /\ \E order : PickedBy(kept, order, P, seq)
  BY PickedIs
<1>2. PICK order : PickedBy(kept, order, P, seq)
  BY <1>1
<1>. HIDE DEF kept
<1>3. DOMAIN kept = 1..Len(kept) /\ Len(kept) \in Nat
  BY <1>1
<1>4. /\ DOMAIN order = DOMAIN kept /\ \A n \in DOMAIN kept : kept[n] = seq[order[n]]
      /\ \A n \in DOMAIN kept : order[n] \in P
      /\ \E n \in DOMAIN kept : order[n] = i
      /\ \A m, n \in DOMAIN kept : m < n => order[m] < order[n]
  BY <1>2 DEF PickedBy, Lists, Increasing
<1>5. PICK n \in 1..Len(kept) : order[n] = i
  BY <1>3, <1>4
<1>6. n = 1
  <2>1. Len(kept) # 0 /\ 1 \in DOMAIN kept
    BY <1>3
  <2>2. order[1] \in P
    BY <1>4, <2>1
  <2>3. \A j \in P : j \in Nat
    OBVIOUS
  <2>4. 1 < n => order[1] < i
    BY <1>3, <1>4, <1>5, <2>1
  <2>5. i <= order[1] /\ i \in Nat /\ order[1] \in Nat
    BY <2>2, <2>3
  <2>. QED BY <1>3, <2>4, <2>5
<1>. QED BY <1>3, <1>4, <1>5, <1>6 DEF kept

LEMMA SectionsStand ==
    ASSUME NEW E, NEW fields \in Seq(E)
    PROVE  /\ \E order, m : m \in Nat /\ SectionsTell(fields, order, m)
           /\ PartsOf(fields) \in Seq(Seq(E))
<1> DEFINE order == Sorted(Leaders(fields), <)
           m == Cardinality(Leaders(fields))
<1>0. DOMAIN fields = 1..Len(fields) /\ Len(fields) \in Nat
  OBVIOUS
<1>1. Leads(fields, order, m) /\ m \in Nat
  BY LeadersLead
<1>2. Sections(fields) = [k \in DOMAIN order |-> SectionOf(fields, order[k])]
  BY DEF Sections
<1>. HIDE DEF order, m
<1>3. DOMAIN order = 1..m
  BY <1>1 DEF Leads, Enumerates
<1>4. Sections(fields) = [k \in 1..m |-> SectionOf(fields, order[k])]
  BY <1>2, <1>3
<1>5. \A k \in 1..m : PartsOf(fields)[k] = Picked(fields, SameGroup(fields, order[k]))
  <2>1. DOMAIN Sections(fields) = 1..m /\ \A k \in 1..m : Sections(fields)[k] = SectionOf(fields, order[k])
    BY <1>4
  <2>2. \A k \in 1..m : PartsOf(fields)[k] = Sections(fields)[k].fields
    BY <2>1 DEF PartsOf
  <2>3. ASSUME NEW k \in 1..m
        PROVE  SectionOf(fields, order[k]).fields = Picked(fields, SameGroup(fields, order[k]))
    BY DEF SectionOf, Where, SameGroup
  <2>. QED BY <2>1, <2>2, <2>3
<1>6. ASSUME NEW k \in 1..m
      PROVE  LET part == PartsOf(fields)[k] IN
             /\ part \in Seq(E) /\ Len(part) \in Nat \ {0} /\ part[1] = fields[order[k]]
             /\ \A p \in 1..Len(part) : GroupOf(part[p]) = GroupOf(fields[order[k]])
  <2> DEFINE P == SameGroup(fields, order[k])
             part == Picked(fields, P)
  <2>1. order[k] \in 1..Len(fields) /\ order[k] \in Leaders(fields)
    BY <1>1 DEF Leads, Enumerates
  <2>2. P \in SUBSET (1..Len(fields)) /\ order[k] \in P
    BY <1>0, <2>1 DEF SameGroup
  <2>3. \A j \in P : j \in 1..Len(fields) /\ GroupOf(fields[j]) = GroupOf(fields[order[k]])
    BY <1>0 DEF SameGroup
  <2>4. \A j \in P : order[k] <= j
    <3>1. \A j \in 1..(order[k] - 1) : GroupOf(fields[j]) # GroupOf(fields[order[k]])
      BY <2>1 DEF Leaders
    <3>2. \A j \in P : j \notin 1..(order[k] - 1)
      BY <2>3, <3>1
    <3>. QED BY <2>1, <2>3, <3>2
  <2>. HIDE DEF P
  <2>5. Len(part) \in Nat \ {0} /\ part[1] = fields[order[k]]
    BY <2>2, <2>4, FirstPicked
  <2>6. PickedTells(part, fields, P) /\ part \in Seq(E)
    BY <2>2, PickedRange
  <2>7. \A p \in 1..Len(part) : \E i \in P : part[p] = fields[i]
    BY <2>6 DEF PickedTells
  <2>8. PartsOf(fields)[k] = part
    BY <1>5 DEF P
  <2>. QED BY <2>3, <2>5, <2>6, <2>7, <2>8
<1>7. SectionsTell(fields, order, m)
  BY <1>1, <1>4, <1>5, <1>6 DEF SectionsTell
<1>8. PartsOf(fields) \in Seq(Seq(E))
  <2>1. PartsOf(fields) = [k \in 1..m |-> PartsOf(fields)[k]]
    <3>1. DOMAIN PartsOf(fields) = 1..m
      BY <1>4 DEF PartsOf
    <3>2. PartsOf(fields) = [k \in DOMAIN PartsOf(fields) |-> PartsOf(fields)[k]]
      BY DEF PartsOf
    <3>. QED BY <3>1, <3>2
  <2>2. \A k \in 1..m : PartsOf(fields)[k] \in Seq(E)
    BY <1>6
  <2>. QED BY <1>1, <2>1, <2>2, TableIsSeq
<1>. QED BY <1>1, <1>7, <1>8

LEMMA OffsetsRise ==
    ASSUME NEW n \in Nat, NEW off \in [0..n -> Nat], NEW w, \A k \in 1..n : w[k] \in Nat,
           \A k \in 1..n : off[k] = off[k - 1] + w[k]
    PROVE  \A k, l \in 0..n : k <= l => off[k] <= off[l]
<1> DEFINE S == {l \in 0..n : \A k \in 0..l : off[k] <= off[l]}
<1>1. 0 \in S
  OBVIOUS
<1>2. ASSUME NEW l \in 0..(n - 1), l \in S PROVE l + 1 \in S
  <2>1. l + 1 \in 1..n /\ off[l + 1] = off[l] + w[l + 1] /\ w[l + 1] \in Nat
    <3>1. l + 1 \in 1..n /\ (l + 1) - 1 = l
      OBVIOUS
    <3>. QED BY <3>1
  <2>2. \A k \in 0..l : off[k] <= off[l]
    BY <1>2
  <2>3. \A k \in 0..(l + 1) : k \in 0..l \/ k = l + 1
    OBVIOUS
  <2>4. \A k \in 0..n : off[k] \in Nat
    OBVIOUS
  <2>5. \A a, b, c \in Nat : a <= b => a <= b + c
    OBVIOUS
  <2>6. l \in 0..n /\ off[l] \in Nat /\ off[l + 1] = off[l] + w[l + 1]
    BY <1>2, <2>1, <2>4
  <2>7. \A k \in 0..l : k \in 0..n /\ off[k] \in Nat
    BY <1>2, <2>4
  <2>8. \A k \in 0..l : off[k] <= off[l + 1]
    BY <2>1, <2>2, <2>5, <2>6, <2>7
  <2>9. off[l + 1] <= off[l + 1]
    BY <2>1, <2>6
  <2>10. \A k \in 0..(l + 1) : off[k] <= off[l + 1]
    BY <2>3, <2>8, <2>9
  <2>. QED BY <1>2, <2>1, <2>10
<1>. HIDE DEF S
<1>3. 0..n \subseteq S
  BY <1>1, <1>2, Induction
<1>. QED BY <1>3 DEF S

LEMMA SectionsAgain ==
    ASSUME NEW E, NEW fields \in Seq(E)
    PROVE  Sections(Sectioned(fields)) = Sections(fields)
<1> DEFINE flat == Sectioned(fields)
           parts == PartsOf(fields)
<1>1. PICK order, m : m \in Nat /\ SectionsTell(fields, order, m)
  BY SectionsStand
<1>2. parts \in Seq(Seq(E)) /\ Len(parts) = m
  <2>1. DOMAIN parts = 1..m
    BY <1>1 DEF SectionsTell, PartsOf
  <2>2. parts \in Seq(Seq(E))
    BY SectionsStand
  <2>. HIDE DEF parts
  <2>. QED BY <1>1, <2>1, <2>2
<1>3. \E off : PartsStand(off, FlattenSeq(parts), parts, m)
  <2>. HIDE DEF parts
  <2>. QED BY <1>1, <1>2, FlattenStands
<1>4. PICK off : PartsStand(off, flat, parts, m)
  BY <1>3 DEF Sectioned
<1> DEFINE G(k) == GroupOf(fields[order[k]])
           new == [k \in 1..m |-> off[k - 1] + 1]
<1>. HIDE DEF flat, parts
<1>5. /\ off \in [0..m -> Nat] /\ off[0] = 0 /\ DOMAIN flat = 1..off[m]
      /\ \A k \in 1..m : off[k] = off[k - 1] + Len(parts[k]) /\ off[k] <= off[m]
      /\ \A k \in 1..m : \A p \in 1..Len(parts[k]) : flat[off[k - 1] + p] = parts[k][p]
      /\ \A q \in 1..off[m] : \E k \in 1..m : \E p \in 1..Len(parts[k]) : q = off[k - 1] + p
  BY <1>4 DEF PartsStand
<1>6. /\ Sections(fields) = [k \in 1..m |-> SectionOf(fields, order[k])]
      /\ \A k \in 1..m :
           /\ parts[k] = Picked(fields, SameGroup(fields, order[k]))
           /\ Len(parts[k]) \in Nat \ {0} /\ parts[k][1] = fields[order[k]]
           /\ \A p \in 1..Len(parts[k]) : GroupOf(parts[k][p]) = G(k)
  BY <1>1 DEF SectionsTell, parts
<1>7. \A k, l \in 1..m : G(k) = G(l) => k = l
  BY <1>1 DEF SectionsTell, Leads
<1>. HIDE DEF G
<1>8. \A k, l \in 0..m : k <= l => off[k] <= off[l]
  <2> DEFINE w == [k \in 1..m |-> Len(parts[k])]
  <2>1. \A k \in 1..m : w[k] \in Nat /\ off[k] = off[k - 1] + w[k]
    BY <1>5, <1>6
  <2>2. \A k \in 1..m : w[k] \in Nat
    BY <2>1
  <2>3. \A k \in 1..m : off[k] = off[k - 1] + w[k]
    BY <2>1
  <2>4. off \in [0..m -> Nat]
    BY <1>5
  <2>. HIDE DEF w
  <2>. QED BY ONLY <1>1, <2>2, <2>3, <2>4, OffsetsRise
<1>9. \A k \in 1..m : k - 1 \in 0..m /\ k \in 0..m /\ off[k - 1] \in Nat /\ off[k] \in Nat
  BY <1>1, <1>5
<1>10. \A k \in 1..m : \A p \in 1..Len(parts[k]) :
         off[k - 1] + p \in 1..off[m] /\ GroupOf(flat[off[k - 1] + p]) = G(k)
  <2>1. \A k \in 1..m : \A p \in 1..Len(parts[k]) :
          /\ off[k] = off[k - 1] + Len(parts[k]) /\ off[k] <= off[m]
          /\ flat[off[k - 1] + p] = parts[k][p] /\ GroupOf(parts[k][p]) = G(k)
    BY <1>5, <1>6
  <2>2. \A k \in 1..m : Len(parts[k]) \in Nat /\ off[k - 1] \in Nat /\ off[m] \in Nat
    BY <1>1, <1>5, <1>6, <1>9
  <2>3. \A a, l, b \in Nat : \A p \in 1..l : a + l <= b => a + p \in 1..b
    OBVIOUS
  <2>4. \A k \in 1..m : \A p \in 1..Len(parts[k]) : off[k - 1] + p \in 1..off[m]
    BY <2>1, <2>2, <2>3
  <2>. QED BY <2>1, <2>4
<1>11. \A k \in 1..m : new[k] = off[k - 1] + 1 /\ new[k] \in 1..off[m] /\ flat[new[k]] = parts[k][1]
  <2>1. \A k \in 1..m : 1 \in 1..Len(parts[k])
    BY <1>6
  <2>. QED BY <1>5, <1>10, <2>1
<1>12. DOMAIN new = 1..m
  OBVIOUS
<1>13. new = [k \in 1..m |-> new[k]]
  OBVIOUS
<1>. HIDE DEF new
<1>14. \A k, l \in 1..m : k < l => new[k] < new[l]
  <2>1. \A k, l \in 1..m : k < l => off[k] <= off[l - 1]
    BY <1>1, <1>8, <1>9
  <2>2. \A k \in 1..m : off[k - 1] + 1 <= off[k]
    <3>1. \A a \in Nat, l \in Nat \ {0} : a + 1 <= a + l
      OBVIOUS
    <3>2. \A k \in 1..m : off[k] = off[k - 1] + Len(parts[k])
      BY <1>5
    <3>3. \A k \in 1..m : off[k - 1] \in Nat /\ Len(parts[k]) \in Nat \ {0}
      BY <1>6, <1>9
    <3>. QED BY <3>1, <3>2, <3>3
  <2>3. \A k, l \in 1..m : new[k] = off[k - 1] + 1 /\ new[l] = off[l - 1] + 1
    BY <1>11
  <2>4. \A k, l \in 1..m : off[k - 1] \in Nat /\ off[l - 1] \in Nat /\ off[k] \in Nat
    BY <1>9
  <2>5. \A a, b, c \in Nat : a + 1 <= b /\ b <= c => a + 1 < c + 1
    OBVIOUS
  <2>6. \A k, l \in 1..m : k < l => off[k - 1] + 1 < off[l - 1] + 1
    BY <2>1, <2>2, <2>4, <2>5
  <2>. QED BY <2>3, <2>6
<1>15. \A k \in 1..m : new[k] \in Leaders(flat)
  <2> SUFFICES ASSUME NEW k \in 1..m, NEW j \in 1..(new[k] - 1),
                      GroupOf(flat[j]) = GroupOf(flat[new[k]])
               PROVE  FALSE
    BY <1>5, <1>11 DEF Leaders
  <2>1. GroupOf(flat[new[k]]) = G(k)
    BY <1>6, <1>11
  <2>2. j \in 1..off[m]
    <3>1. \A a, b \in Nat : a \in 1..b => \A i \in 1..(a - 1) : i \in 1..b
      OBVIOUS
    <3>2. off[m] \in Nat /\ new[k] \in 1..off[m] /\ new[k] \in Nat
      BY <1>1, <1>5, <1>11
    <3>. QED BY <3>1, <3>2
  <2>3. PICK l \in 1..m : \E p \in 1..Len(parts[l]) : j = off[l - 1] + p
    BY <1>5, <2>2
  <2>4. PICK p \in 1..Len(parts[l]) : j = off[l - 1] + p
    BY <2>3
  <2>5. l = k
    BY <1>7, <1>10, <2>1, <2>4
  <2>. QED BY <1>9, <1>11, <2>4, <2>5
<1>16. \A q \in Leaders(flat) : \E k \in 1..m : new[k] = q
  <2> SUFFICES ASSUME NEW q \in Leaders(flat) PROVE \E k \in 1..m : new[k] = q
    OBVIOUS
  <2>1. q \in 1..off[m] /\ \A j \in 1..(q - 1) : GroupOf(flat[j]) # GroupOf(flat[q])
    BY <1>5 DEF Leaders
  <2>2. PICK k \in 1..m : \E p \in 1..Len(parts[k]) : q = off[k - 1] + p
    BY <1>5, <2>1
  <2>3. PICK p \in 1..Len(parts[k]) : q = off[k - 1] + p
    BY <2>2
  <2>4. GroupOf(flat[q]) = G(k) /\ GroupOf(flat[new[k]]) = G(k)
    <3>1. GroupOf(flat[q]) = G(k)
      BY <1>10, <2>3
    <3>2. 1 \in 1..Len(parts[k])
      BY <1>6
    <3>3. GroupOf(parts[k][1]) = G(k)
      BY <1>6, <3>2
    <3>. QED BY <1>11, <3>1, <3>3
  <2>5. ~(new[k] \in 1..(q - 1))
    BY <2>1, <2>4
  <2>. QED BY <1>9, <1>11, <2>1, <2>3, <2>5
<1>17. Leaders(flat) \in SUBSET Nat
  BY <1>5 DEF Leaders
<1>18. Sorted(Leaders(flat), <) = new
  <2>1. Enumerates(new, Leaders(flat), m)
    BY <1>12, <1>13, <1>14, <1>15, <1>16 DEF Enumerates
  <2>. QED BY <1>1, <1>17, <2>1, SortedUnique
<1>19. Sections(flat) = [k \in 1..m |-> SectionOf(flat, new[k])]
  BY <1>12, <1>18 DEF Sections
<1>20. ASSUME NEW k \in 1..m PROVE SectionOf(flat, new[k]) = SectionOf(fields, order[k])
  <2> DEFINE P == {q \in DOMAIN flat : GroupOf(flat[q]) = GroupOf(flat[new[k]])}
  <2>1. flat[new[k]] = fields[order[k]] /\ GroupOf(flat[new[k]]) = G(k)
    BY <1>6, <1>11 DEF G
  <2>2. P = (off[k - 1] + 1)..(off[k - 1] + Len(parts[k]))
    <3>1. ASSUME NEW q \in P PROVE q \in (off[k - 1] + 1)..(off[k - 1] + Len(parts[k]))
      <4>1. q \in 1..off[m] /\ GroupOf(flat[q]) = G(k)
        BY <1>5, <2>1
      <4>2. PICK l \in 1..m : \E p \in 1..Len(parts[l]) : q = off[l - 1] + p
        BY <1>5, <4>1
      <4>3. PICK p \in 1..Len(parts[l]) : q = off[l - 1] + p
        BY <4>2
      <4>4. l = k
        BY <1>7, <1>10, <4>1, <4>3
      <4>. QED BY <1>6, <1>9, <4>3, <4>4
    <3>2. ASSUME NEW q \in (off[k - 1] + 1)..(off[k - 1] + Len(parts[k])) PROVE q \in P
      <4>1. q - off[k - 1] \in 1..Len(parts[k]) /\ q = off[k - 1] + (q - off[k - 1])
        <5>1. \A a, l \in Nat : \A i \in (a + 1)..(a + l) : i - a \in 1..l /\ i = a + (i - a)
          OBVIOUS
        <5>2. off[k - 1] \in Nat /\ Len(parts[k]) \in Nat
          BY <1>6, <1>9
        <5>. QED BY <5>1, <5>2
      <4>2. q \in 1..off[m] /\ GroupOf(flat[q]) = G(k)
        BY <1>10, <4>1
      <4>. QED BY <1>5, <2>1, <4>2
    <3>. HIDE DEF P
    <3>. QED BY <3>1, <3>2
  <2>. HIDE DEF P
  <2>3. Picked(flat, P) = parts[k]
    <3>1. Picked(flat, P) = Stretch(flat, off[k - 1], Len(parts[k]))
      BY <1>6, <1>9, <2>2, BlockPicked
    <3>2. Stretch(flat, off[k - 1], Len(parts[k])) = [p \in 1..Len(parts[k]) |-> parts[k][p]]
      BY <1>5 DEF Stretch
    <3>3. parts[k] = [p \in 1..Len(parts[k]) |-> parts[k][p]]
      BY <1>2
    <3>. QED BY <3>1, <3>2, <3>3
  <2>4. SectionOf(flat, new[k]) =
          [group |-> G(k), place |-> fields[order[k]].raw.field.place, fields |-> Picked(flat, P)]
    BY <2>1 DEF SectionOf, Where, P
  <2>5. SectionOf(fields, order[k]) =
          [group |-> G(k), place |-> fields[order[k]].raw.field.place,
           fields |-> Picked(fields, SameGroup(fields, order[k]))]
    BY DEF SectionOf, Where, SameGroup, G
  <2>. QED BY <1>6, <2>3, <2>4, <2>5
<1>. QED BY <1>6, <1>19, <1>20 DEF flat

\* The sections have every field, and each once if the fields differ.
LEMMA SectionedHas ==
    ASSUME NEW E, NEW fields \in Seq(E)
    PROVE  /\ Sectioned(fields) \in Seq(E) /\ Range(Sectioned(fields)) = Range(fields)
           /\ IsInjective(fields) =>
                IsInjective(Sectioned(fields)) /\ Len(Sectioned(fields)) = Len(fields)
<1> DEFINE parts == PartsOf(fields)
<1>0. DOMAIN fields = 1..Len(fields) /\ Len(fields) \in Nat
  OBVIOUS
<1>1. PICK order, m : m \in Nat /\ SectionsTell(fields, order, m)
  BY SectionsStand
<1>2. parts \in Seq(Seq(E)) /\ Len(parts) = m /\ DOMAIN parts = 1..m
  <2>1. DOMAIN parts = 1..m
    BY <1>1 DEF SectionsTell, PartsOf
  <2>2. parts \in Seq(Seq(E))
    BY SectionsStand
  <2>. HIDE DEF parts
  <2>. QED BY <1>1, <2>1, <2>2
<1>. HIDE DEF parts
<1>3. ASSUME NEW k \in 1..m
      PROVE  /\ parts[k] = Picked(fields, SameGroup(fields, order[k]))
             /\ SameGroup(fields, order[k]) \in SUBSET (1..Len(fields))
             /\ PickedTells(parts[k], fields, SameGroup(fields, order[k]))
             /\ IsFiniteSet(SameGroup(fields, order[k]))
  <2>1. parts[k] = Picked(fields, SameGroup(fields, order[k]))
    BY <1>1 DEF SectionsTell, parts
  <2>2. SameGroup(fields, order[k]) \in SUBSET (1..Len(fields))
    BY <1>0 DEF SameGroup
  <2>. QED BY <2>1, <2>2, PickedRange
<1>4. /\ \A k, l \in 1..m : GroupOf(fields[order[k]]) = GroupOf(fields[order[l]]) => k = l
      /\ \A j \in 1..Len(fields) : \E k \in 1..m : GroupOf(fields[j]) = GroupOf(fields[order[k]])
  BY <1>1 DEF SectionsTell, Leads
<1>5. \A k \in 1..m : Range(parts[k]) = {fields[i] : i \in SameGroup(fields, order[k])}
  BY <1>3 DEF PickedTells
<1>6. Range(fields) = {fields[j] : j \in 1..Len(fields)}
  BY <1>0 DEF Range
<1>7. Range(Sectioned(fields)) = RangesTo(parts, m) /\ Sectioned(fields) \in Seq(E)
  BY <1>2, FlattenRange DEF Sectioned, parts
<1>8. RangesTo(parts, m) = Range(fields)
  <2>1. ASSUME NEW k \in 1..m, NEW e \in Range(parts[k]) PROVE e \in Range(fields)
    BY <1>3, <1>5, <1>6
  <2>2. ASSUME NEW j \in 1..Len(fields) PROVE \E k \in 1..m : fields[j] \in Range(parts[k])
    <3>1. PICK k \in 1..m : GroupOf(fields[j]) = GroupOf(fields[order[k]])
      BY <1>4
    <3>2. j \in SameGroup(fields, order[k])
      BY <1>0, <3>1 DEF SameGroup
    <3>. QED BY <1>5, <3>2
  <2>. QED BY <1>6, <2>1, <2>2 DEF RangesTo
<1>9. ASSUME IsInjective(fields)
      PROVE  IsInjective(Sectioned(fields)) /\ Len(Sectioned(fields)) = Len(fields)
  <2>1. \A i, j \in 1..Len(fields) : fields[i] = fields[j] => i = j
    BY <1>0, <1>9 DEF IsInjective
  <2> DEFINE part == [k \in 1..m |-> Range(parts[k])]
  <2>2. ASSUME NEW k \in 1..m PROVE IsFiniteSet(part[k]) /\ Lists(parts[k], part[k])
    <3>1. /\ DOMAIN parts[k] = 1..Len(parts[k]) /\ Len(parts[k]) = Cardinality(SameGroup(fields, order[k]))
          /\ Len(parts[k]) \in Nat
          /\ \A p, q \in DOMAIN parts[k] : parts[k][p] = parts[k][q] => p = q
      BY <1>3, <2>1 DEF PickedTells
    <3>2. IsFiniteSet(Range(parts[k])) /\ Cardinality(Range(parts[k])) = Len(parts[k])
      <4> DEFINE D == 1..Len(parts[k])
                 f == parts[k]
      <4>1. IsFiniteSet(D) /\ Cardinality(D) = Len(parts[k])
        BY <3>1, CountTo
      <4>2. Range(f) = {f[p] : p \in D}
        BY <3>1 DEF Range
      <4>3. \A p, q \in D : f[p] = f[q] => p = q
        BY <3>1
      <4>. HIDE DEF D, f
      <4>4. IsFiniteSet(Range(f)) /\ Cardinality(Range(f)) = Cardinality(D)
        BY <4>1, <4>2, <4>3, ManyAs
      <4>. QED BY <4>1, <4>4 DEF f
    <3>3. \A p \in DOMAIN parts[k] : parts[k][p] \in Range(parts[k])
      BY DEF Range
    <3>4. \A e \in Range(parts[k]) : \E p \in DOMAIN parts[k] : parts[k][p] = e
      BY DEF Range
    <3>. QED BY <3>1, <3>2, <3>3, <3>4 DEF Lists
  <2>3. ASSUME NEW k \in 1..m, NEW l \in 1..m, k # l PROVE part[k] \cap part[l] = {}
    <3> SUFFICES ASSUME NEW e \in Range(parts[k]), e \in Range(parts[l]) PROVE FALSE
      OBVIOUS
    <3>1. PICK i \in SameGroup(fields, order[k]) : e = fields[i]
      BY <1>5
    <3>2. PICK j \in SameGroup(fields, order[l]) : e = fields[j]
      BY <1>5
    <3>3. GroupOf(fields[order[k]]) = GroupOf(fields[order[l]])
      BY <3>1, <3>2 DEF SameGroup
    <3>. QED BY <1>4, <2>3, <3>3
  <2>4. FirstParts(part, m) = RangesTo(parts, m)
    BY DEF FirstParts, RangesTo
  <2>. HIDE DEF part
  <2>5. Lists(Sectioned(fields), FirstParts(part, m))
    BY <1>1, <1>2, <2>2, <2>3, FlattenLists DEF Sectioned, parts
  <2>6. Lists(Sectioned(fields), Range(fields))
    BY <1>8, <2>4, <2>5
  <2>7. Cardinality(Range(fields)) = Len(fields)
    <3> DEFINE D == 1..Len(fields)
    <3>1. IsFiniteSet(D) /\ Cardinality(D) = Len(fields)
      BY <1>0, CountTo
    <3>2. Range(fields) = {fields[p] : p \in D} /\ \A p, q \in D : fields[p] = fields[q] => p = q
      BY <1>6, <2>1
    <3>. HIDE DEF D
    <3>. QED BY <3>1, <3>2, ManyAs
  <2>8. DOMAIN Sectioned(fields) = 1..Len(fields)
    BY <2>6, <2>7 DEF Lists
  <2>9. IsInjective(Sectioned(fields))
    BY <2>6 DEF Lists, IsInjective
  <2>. QED BY <1>0, <1>7, <2>8, <2>9
<1>. QED BY <1>7, <1>8, <1>9

\* One field at most has the title, wherever it stands.
OneTitle(set) == \A f, g \in set : f.raw.field.title /\ g.raw.field.title => f = g

LEMMA TitlesAgree ==
    ASSUME NEW E, NEW fields \in Seq(E), NEW flat \in Seq(E), Range(flat) = Range(fields),
           IsInjective(flat), OneTitle(Range(fields))
    PROVE  Len(Titles(flat)) <= 1 /\ TitleOf(flat) = TitleOf(fields)
<1> DEFINE Titled(seq) == {i \in DOMAIN seq : seq[i].raw.field.title}
<1>1. ASSUME NEW seq \in Seq(E), Range(seq) = Range(fields)
      PROVE  /\ Titles(seq) \in Seq(E) /\ PickedTells(Titles(seq), seq, Titled(seq))
             /\ \A n \in DOMAIN Titles(seq) :
                  Titles(seq)[n] \in Range(fields) /\ Titles(seq)[n].raw.field.title
             /\ (\E f \in Range(fields) : f.raw.field.title) => Titles(seq) # << >>
  <2>1. Titles(seq) = Picked(seq, Titled(seq))
    BY DEF Titles, Where
  <2>2. Titled(seq) \in SUBSET (1..Len(seq))
    OBVIOUS
  <2>3. \A i \in Titled(seq) : seq[i] \in Range(fields) /\ seq[i].raw.field.title
    BY <1>1 DEF Range
  <2>4. (\E f \in Range(fields) : f.raw.field.title) => \E i \in Titled(seq) : TRUE
    BY <1>1 DEF Range
  <2>. HIDE DEF Titled
  <2>5. PickedTells(Titles(seq), seq, Titled(seq)) /\ Titles(seq) \in Seq(E)
    BY <2>1, <2>2, PickedRange
  <2>6. /\ \A n \in DOMAIN Titles(seq) : \E i \in Titled(seq) : Titles(seq)[n] = seq[i]
        /\ \A i \in Titled(seq) : \E n \in DOMAIN Titles(seq) : Titles(seq)[n] = seq[i]
    BY <2>5 DEF PickedTells
  <2>7. (\E f \in Range(fields) : f.raw.field.title) => DOMAIN Titles(seq) # {}
    BY <2>4, <2>6
  <2>8. Titles(seq) = << >> => DOMAIN Titles(seq) = {}
    OBVIOUS
  <2>. QED BY <2>3, <2>5, <2>6, <2>7, <2>8
<1>2. DOMAIN Titles(flat) = 1..Len(Titles(flat)) /\ Len(Titles(flat)) \in Nat
  BY <1>1
<1>3. \A n, l \in DOMAIN Titles(flat) : n = l
  <2>1. \A n, l \in DOMAIN Titles(flat) : Titles(flat)[n] = Titles(flat)[l] => n = l
    BY <1>1 DEF PickedTells, IsInjective
  <2>2. \A n, l \in DOMAIN Titles(flat) : Titles(flat)[n] = Titles(flat)[l]
    BY <1>1 DEF OneTitle
  <2>. QED BY <2>1, <2>2
<1>4. Len(Titles(flat)) <= 1
  <2>1. Len(Titles(flat)) > 1 => 1 \in DOMAIN Titles(flat) /\ 2 \in DOMAIN Titles(flat)
    BY <1>2
  <2>. QED BY <1>2, <1>3, <2>1
<1>5. CASE \E f \in Range(fields) : f.raw.field.title
  <2>1. Titles(flat) # << >> /\ Titles(fields) # << >>
    BY <1>1, <1>5
  <2>2. 1 \in DOMAIN Titles(flat) /\ 1 \in DOMAIN Titles(fields)
    <3>1. Titles(flat) \in Seq(E) /\ Titles(fields) \in Seq(E)
      BY <1>1
    <3>. QED BY <2>1, <3>1
  <2>3. Titles(flat)[1] = Titles(fields)[1]
    <3>1. /\ Titles(flat)[1] \in Range(fields) /\ Titles(flat)[1].raw.field.title
          /\ Titles(fields)[1] \in Range(fields) /\ Titles(fields)[1].raw.field.title
      BY <1>1, <2>2
    <3>. QED BY <3>1 DEF OneTitle
  <2>. QED BY <1>4, <2>1, <2>3 DEF TitleOf
<1>6. CASE ~\E f \in Range(fields) : f.raw.field.title
  <2>1. ASSUME NEW seq \in Seq(E), Range(seq) = Range(fields) PROVE Titles(seq) = << >>
    <3>1. Titles(seq) \in Seq(E) /\ \A n \in DOMAIN Titles(seq) : FALSE
      BY <1>1, <1>6, <2>1
    <3>2. Len(Titles(seq)) = 0
      <4>1. Len(Titles(seq)) > 0 => 1 \in DOMAIN Titles(seq)
        BY <3>1
      <4>. QED BY <3>1, <4>1
    <3>. QED BY <3>1, <3>2
  <2>2. Titles(flat) = << >> /\ Titles(fields) = << >>
    BY <2>1
  <2>. QED BY <1>4, <2>2 DEF TitleOf
<1>. QED BY <1>5, <1>6

RawsOf(fields) == [i \in DOMAIN fields |-> fields[i].raw]

LEMMA IssuesAgree ==
    ASSUME NEW E, NEW fields \in Seq(E), NEW flat \in Seq(E), Range(flat) = Range(fields),
           IsInjective(flat), IsInjective(fields),
           \A f \in Range(fields) : Len(f.raw.issues) \in Nat
    PROVE  IssuesOf(RawsOf(flat)) = IssuesOf(RawsOf(fields))
<1> DEFINE S == 1..Len(fields)
           A == 1..Len(flat)
           w == [i \in S |-> Len(fields[i].raw.issues)]
           v == [i \in A |-> Len(flat[i].raw.issues)]
           f == [q \in A |-> CHOOSE i \in S : fields[i] = flat[q]]
<1>1. DOMAIN fields = S /\ DOMAIN flat = A /\ Len(fields) \in Nat /\ Len(flat) \in Nat
  OBVIOUS
<1>2. IsFiniteSet(S) /\ IsFiniteSet(A)
  BY <1>1, CountTo
<1>3. \A q \in A : f[q] \in S /\ fields[f[q]] = flat[q]
  <2>1. \A q \in A : \E i \in S : fields[i] = flat[q]
    BY <1>1 DEF Range
  <2>. QED BY <2>1
<1>4. \A i \in S : \E q \in A : fields[i] = flat[q]
  BY <1>1 DEF Range
<1>5. /\ \A i, j \in S : fields[i] = fields[j] => i = j
      /\ \A q, p \in A : flat[q] = flat[p] => q = p
  BY <1>1 DEF IsInjective
<1>6. \A i \in S : w[i] \in Nat
  BY <1>1 DEF Range
<1>7. \A q \in A : v[q] = w[f[q]]
  BY <1>3
<1>8. IssuesOf(RawsOf(flat)) = Total(v, A) /\ IssuesOf(RawsOf(fields)) = Total(w, S)
  <2>1. [i \in DOMAIN RawsOf(flat) |-> Len(RawsOf(flat)[i].issues)] = v
    BY <1>1 DEF RawsOf
  <2>2. [i \in DOMAIN RawsOf(fields) |-> Len(RawsOf(fields)[i].issues)] = w
    BY <1>1 DEF RawsOf
  <2>3. DOMAIN v = A /\ DOMAIN w = S
    OBVIOUS
  <2>. HIDE DEF v, w, A, S
  <2>. QED BY <2>1, <2>2, <2>3 DEF IssuesOf, SumOver
<1>. HIDE DEF S, A, w, v, f
<1>9. \A i \in S : \E q \in A : f[q] = i
  BY <1>3, <1>4, <1>5
<1>10. \A q, p \in A : f[q] = f[p] => q = p
  BY <1>3, <1>5
<1>11. \A q \in A : f[q] \in S
  BY <1>3
<1>12. Weighs(w, S)
  BY <1>2, <1>6 DEF Weighs
<1>13. Total(v, A) = Total(w, S)
  BY ONLY <1>2, <1>7, <1>9, <1>10, <1>11, <1>12, TotalMapped
<1>. QED BY <1>8, <1>13

-----------------------------------------------------------------------------
(* The facts of a subject in a field. *)

FactsOf(known, kind, s) ==
    Where(Where(known, LAMBDA f : f.kind = kind), LAMBDA f : f.subject = s)
RawOf(known, kind, s, field) == RawField(field, FactsOf(known, kind, s))
IsAbout(f, kind, s) == f.kind = kind /\ f.subject = s
PlacesAbout(known, kind, s) == {i \in DOMAIN known : IsAbout(known[i], kind, s)}

LEMMA FactsOfIs ==
    ASSUME NEW known \in Seq(KnownRows), NEW kind, NEW s
    PROVE  /\ FactsOf(known, kind, s) = Picked(known, PlacesAbout(known, kind, s))
           /\ FactsOf(known, kind, s) \in Seq(KnownRows)
<1> DEFINE P == {i \in DOMAIN known : known[i].kind = kind}
           T == {f \in KnownRows : f.subject = s}
           kept == Picked(known, P)
<1>0. DOMAIN known = 1..Len(known) /\ \A i \in DOMAIN known : known[i] \in KnownRows
  OBVIOUS
<1>1. P \in SUBSET (1..Len(known))
  BY <1>0
<1> DEFINE M == {n \in DOMAIN kept : kept[n] \in T}
           Q == {i \in P : known[i] \in T}
<1>2. Picked(kept, M) = Picked(known, Q)
  <2>1. KeptTwice(kept, M, known, P, Q, T)
    BY DEF KeptTwice
  <2>. HIDE DEF P, T, kept, M, Q
  <2>. QED BY <1>1, <2>1, PickedAgain
<1>3. Q = PlacesAbout(known, kind, s)
  BY <1>0 DEF PlacesAbout, IsAbout
<1>4. kept \in Seq(KnownRows)
  <2>. HIDE DEF P
  <2>. QED BY <1>1, PickedRange
<1>5. M = {n \in DOMAIN kept : kept[n].subject = s}
  <2>. HIDE DEF kept
  <2>. QED BY <1>4
<1>6. FactsOf(known, kind, s) = Picked(kept, {n \in DOMAIN kept : kept[n].subject = s})
  BY DEF FactsOf, Where
<1>7. Picked(known, PlacesAbout(known, kind, s)) \in Seq(KnownRows)
  <2>1. PlacesAbout(known, kind, s) \in SUBSET (1..Len(known))
    BY <1>0 DEF PlacesAbout
  <2>. QED BY <2>1, PickedRange
<1>. QED BY <1>2, <1>3, <1>5, <1>6, <1>7

Takes(field, facts) == {i \in DOMAIN facts : Belongs(field, facts[i])}

LEMMA MatchingIs ==
    ASSUME NEW facts \in Seq(KnownRows), NEW field
    PROVE  /\ Matching(field, facts) = Picked(facts, Takes(field, facts))
           /\ Takes(field, facts) \in SUBSET (1..Len(facts))
           /\ Matching(field, facts) \in Seq(KnownRows)
           /\ PickedTells(Matching(field, facts), facts, Takes(field, facts))
           /\ Matching(field, Matching(field, facts)) = Matching(field, facts)
<1> DEFINE mine == Matching(field, facts)
<1>1. mine = Picked(facts, Takes(field, facts))
  BY DEF Matching, Where, Takes
<1>2. Takes(field, facts) \in SUBSET (1..Len(facts))
  BY DEF Takes
<1>3. mine \in Seq(KnownRows) /\ PickedTells(mine, facts, Takes(field, facts))
  BY <1>1, <1>2, PickedRange
<1>4. Matching(field, mine) = Picked(mine, Takes(field, mine))
  BY DEF Matching, Where, Takes
<1>. HIDE DEF mine
<1>5. \A n \in DOMAIN mine : Belongs(field, mine[n])
  BY <1>3 DEF PickedTells, Takes
<1>6. Takes(field, mine) = 1..Len(mine)
  BY <1>3, <1>5 DEF Takes
<1>7. Picked(mine, 1..Len(mine)) = mine
  BY <1>3, PickedAll
<1>. QED BY <1>1, <1>2, <1>3, <1>4, <1>6, <1>7 DEF mine

\* The facts a field shows: those about the subject that belong to it, each once.
OwnFacts(mine, known, kind, s, field) ==
    /\ mine \in Seq(KnownRows) /\ IsInjective(mine)
    /\ Range(mine) = {f \in Range(known) : IsAbout(f, kind, s) /\ Belongs(field, f)}
    /\ IsInjective([i \in DOMAIN mine |-> mine[i].id])

LEMMA OwnFactsShown ==
    ASSUME NEW known, FactsKnown(known), NEW kind, NEW s, NEW field
    PROVE  /\ OwnFacts(Matching(field, FactsOf(known, kind, s)), known, kind, s, field)
           /\ FactsOf(known, kind, s) \in Seq(KnownRows)
           /\ Range(FactsOf(known, kind, s)) = {f \in Range(known) : IsAbout(f, kind, s)}
           /\ Matching(field, FactsOf(known, kind, s)) =
                Picked(known, {i \in DOMAIN known : IsAbout(known[i], kind, s) /\ Belongs(field, known[i])})
<1> DEFINE facts == FactsOf(known, kind, s)
           mine == Matching(field, facts)
           P == PlacesAbout(known, kind, s)
           T == {f \in KnownRows : Belongs(field, f)}
           Q == {i \in DOMAIN known : IsAbout(known[i], kind, s) /\ Belongs(field, known[i])}
<1>0. known \in Seq(KnownRows) /\ IsInjective([i \in DOMAIN known |-> known[i].id])
  BY DEF FactsKnown
<1>1. facts = Picked(known, P) /\ facts \in Seq(KnownRows)
  BY <1>0, FactsOfIs
<1>2. mine = Picked(facts, Takes(field, facts)) /\ mine \in Seq(KnownRows)
  <2>. HIDE DEF facts
  <2>. QED BY <1>1, MatchingIs
<1>3. P \in SUBSET (1..Len(known)) /\ Q \in SUBSET (1..Len(known))
  BY <1>0 DEF PlacesAbout
<1>. HIDE DEF facts, mine
<1>4. \A n \in DOMAIN facts : n \in Takes(field, facts) <=> facts[n] \in T
  BY <1>1 DEF Takes
<1>5. \A i \in P : i \in Q <=> known[i] \in T
  BY <1>0 DEF PlacesAbout
<1>6. Q \in SUBSET P /\ Takes(field, facts) \in SUBSET (DOMAIN facts)
  BY DEF PlacesAbout, Takes
<1>7. mine = Picked(known, Q)
  <2>. HIDE DEF P, T, Q
  <2>1. KeptTwice(facts, Takes(field, facts), known, P, Q, T)
    BY <1>1, <1>4, <1>5, <1>6 DEF KeptTwice
  <2>2. Picked(facts, Takes(field, facts)) = Picked(known, Q)
    BY <1>0, <1>3, <2>1, PickedAgain
  <2>. QED BY <1>2, <2>2
<1>8. PickedTells(mine, known, Q) /\ PickedTells(facts, known, P)
  <2>. HIDE DEF P, Q
  <2>. QED BY <1>0, <1>1, <1>3, <1>7, PickedRange
<1>9. \A i, j \in DOMAIN known : known[i] = known[j] => i = j
  BY <1>0 DEF IsInjective
<1>10. IsInjective(mine)
  <2>1. \A m, l \in DOMAIN mine : mine[m] = mine[l] => m = l
    BY <1>8, <1>9 DEF PickedTells
  <2>. QED BY <2>1 DEF IsInjective
<1>11. Range(mine) = {f \in Range(known) : IsAbout(f, kind, s) /\ Belongs(field, f)}
  <2>1. Range(mine) = {known[i] : i \in Q}
    BY <1>8 DEF PickedTells
  <2>. QED BY <2>1 DEF Range
<1>12. Range(facts) = {f \in Range(known) : IsAbout(f, kind, s)}
  <2>1. Range(facts) = {known[i] : i \in P}
    BY <1>8 DEF PickedTells
  <2>. QED BY <2>1 DEF Range, PlacesAbout
<1>13. IsInjective([i \in DOMAIN mine |-> mine[i].id])
  <2>1. \A i, j \in DOMAIN known : known[i].id = known[j].id => i = j
    BY <1>0 DEF IsInjective
  <2>2. \A m \in DOMAIN mine : \E i \in Q : mine[m] = known[i]
    BY <1>8 DEF PickedTells
  <2>3. \A m, l \in DOMAIN mine : mine[m].id = mine[l].id => mine[m] = mine[l]
    BY <2>1, <2>2
  <2>. QED BY <1>10, <2>3 DEF IsInjective
<1>. QED BY <1>1, <1>2, <1>7, <1>10, <1>11, <1>12, <1>13 DEF OwnFacts, facts, mine

\* A raw field as its readers build it again.
RawTells(h, known, kind, s, field) ==
    /\ h.field = field /\ h = RawField(field, h.facts) /\ h = RawOf(known, kind, s, field)
    /\ OwnFacts(h.facts, known, kind, s, field)
    /\ h.missing = (h.facts = << >>) /\ h.values = Groups(h.facts)
    /\ Len(h.issues) \in Nat
    /\ "multiple_facts" \in Range(h.issues) <=> field.one /\ Len(h.facts) > 1

LEMMA RawFieldTells ==
    ASSUME NEW known, FactsKnown(known), NEW kind, NEW s, NEW field
    PROVE  RawTells(RawOf(known, kind, s, field), known, kind, s, field)
<1> DEFINE facts == FactsOf(known, kind, s)
           mine == Matching(field, facts)
           raised == Raised(field, mine)
           Seen(m) == Raised(field, m)
           issues == Where(IssueKinds, LAMBDA issue : issue \in raised)
           Made(m) == [field |-> field, facts |-> m, values |-> Groups(m), missing |-> m = << >>,
                       issues |-> Where(IssueKinds, LAMBDA issue : issue \in Seen(m))]
           h == RawOf(known, kind, s, field)
<1>1. OwnFacts(mine, known, kind, s, field) /\ facts \in Seq(KnownRows)
  BY OwnFactsShown
<1>2. Matching(field, mine) = mine
  BY <1>1, MatchingIs
<1>3. \A f : RawField(field, f) = Made(Matching(field, f))
  BY DEF RawField
<1>4. h = Made(mine) /\ RawField(field, mine) = Made(mine)
  <2>. HIDE DEF Made
  <2>1. RawField(field, facts) = Made(Matching(field, facts))
    BY <1>3
  <2>2. RawField(field, mine) = Made(Matching(field, mine))
    BY <1>3
  <2>. QED BY <1>2, <2>1, <2>2 DEF RawOf
<1>5. /\ h.field = field /\ h.facts = mine /\ h.values = Groups(mine)
      /\ h.missing = (mine = << >>) /\ h.issues = issues
  BY <1>4
<1>6. issues = Picked(IssueKinds, {i \in DOMAIN IssueKinds : IssueKinds[i] \in raised})
  BY DEF Where
<1> DEFINE kinds == {"required_missing", "multiple_facts", "multiple_values", "type_mismatch"}
<1>7. IssueKinds \in Seq(kinds) /\ Len(IssueKinds) = 4 /\ IssueKinds[2] = "multiple_facts"
  BY DEF IssueKinds
<1>. HIDE DEF kinds
<1> DEFINE P == {i \in DOMAIN IssueKinds : IssueKinds[i] \in raised}
<1>8. P \in SUBSET (1..Len(IssueKinds))
  BY <1>7
<1>9. 2 \in DOMAIN IssueKinds
  BY <1>7
<1>10. "multiple_facts" \in raised <=> field.one /\ Len(mine) > 1
  <2>1. "multiple_facts" \in Range(IssueKinds)
    BY <1>7, <1>9 DEF Range
  <2>. HIDE DEF mine
  <2>. QED BY <2>1 DEF Raised
<1>11. \A i \in P : IssueKinds[i] \in raised
  OBVIOUS
<1>12. "multiple_facts" \in raised => 2 \in P
  BY <1>7, <1>9
<1>. HIDE DEF P, raised, mine, h
<1>13. PickedTells(issues, IssueKinds, P) /\ issues \in Seq(kinds)
  BY <1>6, <1>7, <1>8, PickedRange DEF P
<1>14. Range(issues) = {IssueKinds[i] : i \in P} /\ Len(issues) \in Nat
  BY <1>13 DEF PickedTells
<1>15. "multiple_facts" \in Range(issues) <=> "multiple_facts" \in raised
  BY <1>7, <1>11, <1>12, <1>14
<1>. HIDE DEF issues
<1>16. h = RawOf(known, kind, s, field)
  BY DEF h
<1>17. h = RawField(field, h.facts)
  BY <1>4, <1>5
<1>. QED BY <1>1, <1>5, <1>10, <1>14, <1>15, <1>16, <1>17 DEF RawTells

-----------------------------------------------------------------------------
(* Fields in the order of their places, and the subjects of a projection. *)

Keys(fields) == [i \in DOMAIN fields |-> fields[i].key]

LEMMA FieldsInPlace ==
    ASSUME NEW fields \in Seq(FieldRows)
    PROVE  LET placed == InPlaceOrder(fields) IN
           /\ placed \in Seq(FieldRows) /\ Len(placed) = Len(fields) /\ Range(placed) = Range(fields)
           /\ FieldsFit(fields) =>
                /\ PlacesRise(placed) /\ IsInjective(Keys(placed)) /\ IsInjective(placed)
                /\ \A f, g \in Range(placed) : f.title /\ g.title => f = g
<1> DEFINE n == Len(fields)
           key == [i \in DOMAIN fields |-> fields[i].place]
           places == Stably(key)
           placed == InPlaceOrder(fields)
<1>0. n \in Nat /\ DOMAIN fields = 1..n /\ \A i \in 1..n : fields[i] \in FieldRows
  OBVIOUS
<1>1. DOMAIN key = 1..n /\ \A i \in 1..n : key[i] = fields[i].place
  OBVIOUS
<1>2. \A i \in 1..n : key[i] \in Nat
  BY <1>0 DEF FieldRows
<1>. HIDE DEF n, key
<1>3. /\ Lists(places, 1..n)
      /\ \A k, l \in 1..n : k < l => KeyBefore(key, places[k], places[l])
  BY <1>0, <1>1, <1>2, StablyIs
<1>4. Cardinality(1..n) = n
  BY <1>0, CountTo
<1>5. /\ DOMAIN places = 1..n /\ \A k \in 1..n : places[k] \in 1..n
      /\ \A i \in 1..n : \E k \in 1..n : places[k] = i
      /\ \A k, l \in 1..n : places[k] = places[l] => k = l
  BY <1>3, <1>4 DEF Lists
<1>6. placed = [k \in DOMAIN places |-> fields[places[k]]]
  BY DEF InPlaceOrder, key
<1>. HIDE DEF places, placed
<1>7. DOMAIN placed = 1..n /\ \A k \in 1..n : placed[k] = fields[places[k]]
  BY <1>5, <1>6
<1>8. placed \in Seq(FieldRows) /\ Len(placed) = n
  <2>1. placed \in [1..n -> FieldRows]
    BY <1>0, <1>5, <1>6
  <2>. QED BY <1>0, <2>1, TableIsSeq
<1>9. Range(placed) = Range(fields)
  <2>1. Range(placed) = {placed[k] : k \in 1..n} /\ Range(fields) = {fields[i] : i \in 1..n}
    BY <1>0, <1>7 DEF Range
  <2>2. \A k \in 1..n : \E i \in 1..n : placed[k] = fields[i]
    BY <1>5, <1>7
  <2>3. \A i \in 1..n : \E k \in 1..n : placed[k] = fields[i]
    BY <1>5, <1>7
  <2>4. \A e \in Range(placed) : e \in Range(fields)
    BY <2>1, <2>2
  <2>5. \A e \in Range(fields) : e \in Range(placed)
    BY <2>1, <2>3
  <2>. QED BY <2>4, <2>5
<1>10. ASSUME FieldsFit(fields)
       PROVE  /\ PlacesRise(placed) /\ IsInjective(Keys(placed)) /\ IsInjective(placed)
              /\ \A f, g \in Range(placed) : f.title /\ g.title => f = g
  <2>1. /\ \A i, j \in 1..n : fields[i].key = fields[j].key => i = j
        /\ \A i, j \in 1..n : key[i] = key[j] => i = j
    BY <1>0, <1>1, <1>10 DEF FieldsFit, IsInjective
  <2>2. IsInjective(Keys(placed)) /\ IsInjective(placed)
    <3>1. \A k, l \in 1..n : placed[k].key = placed[l].key => places[k] = places[l]
      <4>1. \A k \in 1..n : placed[k].key = fields[places[k]].key /\ places[k] \in 1..n
        BY <1>5, <1>7
      <4>. QED BY <2>1, <4>1
    <3>2. \A k, l \in 1..n : placed[k].key = placed[l].key => k = l
      BY <1>5, <3>1
    <3>. QED BY <1>7, <3>2 DEF Keys, IsInjective
  <2>3. PlacesRise(placed)
    <3> SUFFICES ASSUME NEW i \in 1..n, NEW j \in 1..n, i < j
                 PROVE  placed[i].place < placed[j].place
      BY <1>7 DEF PlacesRise
    <3>1. KeyBefore(key, places[i], places[j])
      BY <1>3
    <3>2. i # j /\ places[i] # places[j]
      BY <1>0, <1>5
    <3>3. key[places[i]] # key[places[j]]
      BY <1>5, <2>1, <3>2
    <3>4. key[places[i]] < key[places[j]]
      BY <3>1, <3>3 DEF KeyBefore
    <3>5. \A k \in 1..n : placed[k].place = key[places[k]]
      <4>1. \A k \in 1..n : placed[k].place = fields[places[k]].place
        BY <1>7
      <4>2. \A k \in 1..n : key[places[k]] = fields[places[k]].place
        BY <1>1, <1>5
      <4>. QED BY <4>1, <4>2
    <3>. QED BY <3>4, <3>5
  <2>4. \A f, g \in Range(placed) : f.title /\ g.title => f = g
    <3> DEFINE T == {i \in DOMAIN fields : fields[i].title}
    <3>1. Cardinality(T) <= 1
      BY <1>10 DEF FieldsFit
    <3>2. IsFiniteSet(T)
      <4>1. T \in SUBSET (1..n) /\ IsFiniteSet(1..n)
        BY <1>0, CountTo
      <4>. HIDE DEF T
      <4>. QED BY <4>1, FS_Subset
    <3>3. ASSUME NEW f \in Range(fields), NEW g \in Range(fields), f.title, g.title PROVE f = g
      <4>1. PICK i \in DOMAIN fields : fields[i] = f
        BY DEF Range
      <4>2. PICK j \in DOMAIN fields : fields[j] = g
        BY DEF Range
      <4>3. i \in T /\ j \in T
        BY <3>3, <4>1, <4>2
      <4>4. i = j
        <5>. HIDE DEF T
        <5>1. ASSUME i # j PROVE FALSE
          <6>1. /\ IsFiniteSet(T \ {i}) /\ Cardinality(T \ {i}) = Cardinality(T) - 1
                /\ Cardinality(T) \in Nat \ {0}
            BY <3>2, <4>3, SmallerByOne
          <6>2. j \in T \ {i}
            BY <4>3, <5>1
          <6>3. Cardinality(T \ {i}) \in Nat \ {0}
            BY <6>1, <6>2, SmallerByOne
          <6>. QED BY <3>1, <6>1, <6>3
        <5>. QED BY <5>1
      <4>. QED BY <4>1, <4>2, <4>4
    <3>. QED BY <1>9, <3>3
  <2>. QED BY <2>2, <2>3, <2>4
<1>. QED BY <1>8, <1>9, <1>10 DEF n, placed

SubjectsAsked(kind, known, filter) ==
    IF filter.given THEN filter.keys
    ELSE Sorted({f.subject : f \in Range(Where(known, LAMBDA f : f.kind = kind))}, <)

\* The subjects of a projection, each once.
LEMMA SubjectsAre ==
    ASSUME NEW kind, NEW known \in Seq(KnownRows), NEW filter, filter.keys \in Seq(Nat)
    PROVE  LET subjects == SubjectsAsked(kind, known, filter) IN
           /\ subjects \in Seq(Nat)
           /\ ~filter.given =>
                /\ \A i, j \in DOMAIN subjects : i < j => subjects[i] < subjects[j]
                /\ Range(subjects) = {f.subject : f \in {g \in Range(known) : g.kind = kind}}
<1> DEFINE P == {i \in DOMAIN known : known[i].kind = kind}
           mine == Where(known, LAMBDA f : f.kind = kind)
           set == {f.subject : f \in Range(mine)}
           subjects == SubjectsAsked(kind, known, filter)
<1>0. DOMAIN known = 1..Len(known) /\ Len(known) \in Nat
  OBVIOUS
<1>1. mine = Picked(known, P) /\ P \in SUBSET (1..Len(known))
  BY <1>0 DEF Where
<1>. HIDE DEF P, mine
<1>2. mine \in Seq(KnownRows) /\ PickedTells(mine, known, P)
  BY <1>1, PickedRange
<1>3. Range(mine) = {known[i] : i \in P} /\ DOMAIN mine = 1..Len(mine) /\ Len(mine) \in Nat
  BY <1>2 DEF PickedTells
<1>4. Range(mine) = {g \in Range(known) : g.kind = kind}
  BY <1>3 DEF Range, P
<1>5. set \in SUBSET Nat
  <2>1. \A i \in DOMAIN mine : mine[i].subject \in Nat
    <3>1. \A i \in DOMAIN mine : mine[i] \in KnownRows
      BY <1>2
    <3>2. \A f \in KnownRows : f.subject \in Nat
      BY DEF KnownRows
    <3>. QED BY <3>1, <3>2
  <2>. QED BY <2>1 DEF Range
<1>6. IsFiniteSet(set)
  <2> DEFINE D == 1..Len(mine)
  <2>1. IsFiniteSet(D)
    BY <1>3, CountTo
  <2> DEFINE f == [i \in D |-> mine[i].subject]
  <2>2. \A i \in D : f[i] \in set
    BY <1>3 DEF Range
  <2>3. \A s \in set : \E i \in D : f[i] = s
    BY <1>3 DEF Range
  <2>. HIDE DEF D, f, set
  <2>. QED BY <2>1, <2>2, <2>3, FiniteImage
<1>7. set = {f.subject : f \in {g \in Range(known) : g.kind = kind}}
  BY <1>4
<1>8. ~filter.given => subjects = Sorted(set, <)
  BY DEF SubjectsAsked, mine
<1>9. filter.given => subjects = filter.keys
  BY DEF SubjectsAsked
<1>. HIDE DEF set, subjects
<1>10. /\ Lists(Sorted(set, <), set) /\ Sorted(set, <) \in Seq(set) /\ Increasing(Sorted(set, <))
  BY <1>5, <1>6, NumbersSorted
<1>11. Range(Sorted(set, <)) = set
  <2> DEFINE order == Sorted(set, <)
  <2>1. /\ \A i \in DOMAIN order : order[i] \in set
        /\ \A s \in set : \E i \in DOMAIN order : order[i] = s
    BY <1>10 DEF Lists
  <2>. HIDE DEF order
  <2>2. Range(order) = set
    BY <2>1 DEF Range
  <2>. QED BY <2>2 DEF order
<1>12. Sorted(set, <) \in Seq(Nat)
  <2>1. ASSUME NEW order \in Seq(set) PROVE order \in Seq(Nat)
    <3>1. order \in [1..Len(order) -> set] /\ Len(order) \in Nat
      OBVIOUS
    <3>2. order \in [1..Len(order) -> Nat]
      BY <1>5, <3>1
    <3>. QED BY <3>1, <3>2, TableIsSeq
  <2>. QED BY <1>10, <2>1
<1>13. subjects \in Seq(Nat)
  BY <1>8, <1>9, <1>12
<1>14. ~filter.given => \A i, j \in DOMAIN subjects : i < j => subjects[i] < subjects[j]
  BY <1>8, <1>10 DEF Increasing
<1>15. ~filter.given => Range(subjects) = set
  BY <1>8, <1>11
<1>. QED BY <1>7, <1>13, <1>14, <1>15 DEF subjects

-----------------------------------------------------------------------------
(* The raw projection is what its readers build again. *)

RawsIn(known, kind, s, placed) == [j \in 1..Len(placed) |-> RawOf(known, kind, s, placed[j])]
RawRecordTells(r, known, kind, s, placed) ==
    /\ r.subject = s /\ r.fields = RawsIn(known, kind, s, placed)
    /\ r.missing = MissingKeys(r.fields) /\ r.issues = IssuesOf(r.fields)

RawShape(p, known, kind, subjects, placed) ==
    /\ p.kind = kind /\ DOMAIN p.records = 1..Len(subjects) /\ Len(p.records) = Len(subjects)
    /\ \A i \in 1..Len(subjects) : RawRecordTells(p.records[i], known, kind, subjects[i], placed)
    /\ p.count = Len(p.records) /\ p.fields = Len(p.records) * Len(placed)
    /\ p.issues = SumOver([i \in DOMAIN p.records |-> p.records[i].issues])
    /\ p.missing = SumOver([i \in DOMAIN p.records |-> Len(p.records[i].missing)])

RawRecords(kind, fields, known, filter) ==
    [i \in DOMAIN SubjectsAsked(kind, known, filter) |->
        RawRecord(SubjectsAsked(kind, known, filter)[i], InPlaceOrder(fields),
                  FactsOf(known, kind, SubjectsAsked(kind, known, filter)[i]))]

LEMMA RawProjectionIs ==
    ASSUME NEW kind, NEW fields \in Seq(FieldRows), NEW known \in Seq(KnownRows),
           NEW filter, filter.keys \in Seq(Nat)
    PROVE  RawShape(RawProjection(kind, fields, known, filter), known, kind,
                    SubjectsAsked(kind, known, filter), InPlaceOrder(fields))
<1> DEFINE p == RawProjection(kind, fields, known, filter)
           subjects == SubjectsAsked(kind, known, filter)
           placed == InPlaceOrder(fields)
           records == RawRecords(kind, fields, known, filter)
<1>1. /\ p.kind = kind /\ p.records = records /\ p.count = Len(records)
      /\ p.fields = Len(records) * Len(fields)
      /\ p.issues = SumOver([i \in DOMAIN records |-> records[i].issues])
      /\ p.missing = SumOver([i \in DOMAIN records |-> Len(records[i].missing)])
  BY DEF RawProjection, RawRecords, SubjectsAsked, FactsOf, Where
<1>2. subjects \in Seq(Nat) /\ placed \in Seq(FieldRows) /\ Len(placed) = Len(fields)
  BY SubjectsAre, FieldsInPlace
<1>3. records = [i \in DOMAIN subjects |->
                   RawRecord(subjects[i], placed, FactsOf(known, kind, subjects[i]))]
  BY DEF RawRecords
<1>. HIDE DEF p, subjects, placed, records
<1>4. DOMAIN subjects = 1..Len(subjects) /\ Len(subjects) \in Nat /\ DOMAIN placed = 1..Len(placed)
  BY <1>2
<1>5. DOMAIN records = 1..Len(subjects) /\ Len(records) = Len(subjects)
  BY <1>3, <1>4
<1>6. ASSUME NEW i \in 1..Len(subjects)
      PROVE  RawRecordTells(records[i], known, kind, subjects[i], placed)
  <2> DEFINE s == subjects[i]
             facts == FactsOf(known, kind, s)
             raw == [j \in DOMAIN placed |-> RawField(placed[j], facts)]
             r == records[i]
  <2>1. r = RawRecord(s, placed, facts)
    BY <1>3, <1>4
  <2>2. RawRecord(s, placed, facts) =
          [subject |-> s, fields |-> raw, missing |-> MissingKeys(raw), issues |-> IssuesOf(raw)]
    BY DEF RawRecord
  <2>3. raw = RawsIn(known, kind, s, placed)
    BY <1>4 DEF RawsIn, RawOf
  <2>. HIDE DEF raw, r, s, facts
  <2>4. r.subject = s /\ r.fields = raw /\ r.missing = MissingKeys(raw) /\ r.issues = IssuesOf(raw)
    BY <2>1, <2>2
  <2>5. RawRecordTells(r, known, kind, s, placed)
    BY <2>3, <2>4 DEF RawRecordTells
  <2>. QED BY <2>5 DEF r, s
<1>7. RawShape(p, known, kind, subjects, placed)
  BY <1>1, <1>2, <1>5, <1>6 DEF RawShape
<1>. QED BY <1>7 DEF p, subjects, placed

LEMMA RawIsAuthentic ==
    ASSUME NEW kind, NEW fields \in Seq(FieldRows), NEW known, FactsKnown(known), NEW filter,
           filter.keys \in Seq(Nat), NEW p, NEW subjects, NEW placed,
           placed = InPlaceOrder(fields), subjects = SubjectsAsked(kind, known, filter),
           RawShape(p, known, kind, subjects, placed), FieldsFit(fields), FilterFits(filter)
    PROVE  AuthenticRaw(p, filter) /\ SubjectsFit(p.records, filter)
<1>0. known \in Seq(KnownRows)
  BY DEF FactsKnown
<1>1. /\ subjects \in Seq(Nat)
      /\ ~filter.given => \A i, j \in DOMAIN subjects : i < j => subjects[i] < subjects[j]
  BY <1>0, SubjectsAre
<1>2. /\ placed \in Seq(FieldRows) /\ PlacesRise(placed) /\ IsInjective(Keys(placed))
  BY FieldsInPlace
<1>3. /\ DOMAIN subjects = 1..Len(subjects) /\ Len(subjects) \in Nat
      /\ DOMAIN placed = 1..Len(placed) /\ Len(placed) \in Nat
  BY <1>1, <1>2
<1>4. /\ p.kind = kind /\ DOMAIN p.records = 1..Len(subjects) /\ Len(p.records) = Len(subjects)
      /\ \A i \in 1..Len(subjects) : RawRecordTells(p.records[i], known, kind, subjects[i], placed)
      /\ p.count = Len(p.records) /\ p.fields = Len(p.records) * Len(placed)
      /\ p.issues = SumOver([i \in DOMAIN p.records |-> p.records[i].issues])
      /\ p.missing = SumOver([i \in DOMAIN p.records |-> Len(p.records[i].missing)])
  BY DEF RawShape
<1>5. SubjectsFit(p.records, filter)
  <2> DEFINE told == [i \in DOMAIN p.records |-> p.records[i].subject]
  <2>1. told = subjects
    <3>1. \A i \in 1..Len(subjects) : p.records[i].subject = subjects[i]
      BY <1>4 DEF RawRecordTells
    <3>2. subjects = [i \in 1..Len(subjects) |-> subjects[i]]
      BY <1>1
    <3>. QED BY <1>4, <3>1, <3>2
  <2>2. IsInjective(subjects)
    <3>1. CASE filter.given
      BY <3>1 DEF FilterFits, SubjectsAsked
    <3>2. CASE ~filter.given
      <4>1. \A i, j \in DOMAIN subjects : i < j => subjects[i] # subjects[j]
        <5>1. \A i \in DOMAIN subjects : subjects[i] \in Nat
          BY <1>1
        <5>2. \A i, j \in DOMAIN subjects : i < j => subjects[i] < subjects[j]
          BY <1>1, <3>2
        <5>3. \A a, b \in Nat : a < b => a # b
          OBVIOUS
        <5>. QED BY <5>1, <5>2, <5>3
      <4>2. \A i, j \in DOMAIN subjects : i < j \/ j < i \/ i = j
        BY <1>3
      <4>. QED BY <4>1, <4>2 DEF IsInjective
    <3>. QED BY <3>1, <3>2
  <2>3. filter.given => subjects = filter.keys
    BY DEF SubjectsAsked
  <2>. HIDE DEF told
  <2>4. SubjectsFit(p.records, filter) = (/\ IsInjective(told)
          /\ IF filter.given THEN told = filter.keys
             ELSE \A i, j \in DOMAIN told : i < j => told[i] < told[j])
    BY DEF SubjectsFit, told
  <2>. QED BY <1>1, <2>1, <2>2, <2>3, <2>4
<1>6. ASSUME NEW i \in 1..Len(subjects)
      PROVE  LET r == p.records[i] IN
             /\ PlacesRise([j \in DOMAIN r.fields |-> r.fields[j].field])
             /\ IsInjective([j \in DOMAIN r.fields |-> r.fields[j].field.key])
             /\ \A f \in Range(r.fields) : AuthenticRawField(f, r.subject, p.kind)
             /\ r.missing = MissingKeys(r.fields) /\ r.issues = IssuesOf(r.fields)
             /\ Len(r.fields) = Len(placed)
  <2> DEFINE r == p.records[i]
             s == subjects[i]
  <2>1. RawRecordTells(r, known, kind, s, placed)
    BY <1>4
  <2>. HIDE DEF r, s
  <2>2. /\ r.subject = s /\ r.fields = RawsIn(known, kind, s, placed)
        /\ r.missing = MissingKeys(r.fields) /\ r.issues = IssuesOf(r.fields)
    BY <2>1 DEF RawRecordTells
  <2>3. DOMAIN r.fields = 1..Len(placed) /\ Len(r.fields) = Len(placed)
    BY <1>3, <2>2 DEF RawsIn
  <2>4. \A j \in 1..Len(placed) : /\ r.fields[j] = RawOf(known, kind, s, placed[j])
                                  /\ RawTells(r.fields[j], known, kind, s, placed[j])
    BY <2>2, RawFieldTells DEF RawsIn
  <2>5. \A j \in 1..Len(placed) : r.fields[j].field = placed[j]
    BY <2>4 DEF RawTells
  <2>6. [j \in DOMAIN r.fields |-> r.fields[j].field] = placed
    <3>1. placed = [j \in 1..Len(placed) |-> placed[j]]
      BY <1>2
    <3>. QED BY <2>3, <2>5, <3>1
  <2>7. [j \in DOMAIN r.fields |-> r.fields[j].field.key] = Keys(placed)
    BY <1>3, <2>3, <2>5 DEF Keys
  <2>8. ASSUME NEW j \in 1..Len(placed) PROVE AuthenticRawField(r.fields[j], s, kind)
    <3> DEFINE h == r.fields[j]
    <3>1. RawTells(h, known, kind, s, placed[j])
      BY <2>4
    <3>. HIDE DEF h
    <3>2. h = RawField(h.field, h.facts) /\ OwnFacts(h.facts, known, kind, s, placed[j])
      BY <3>1 DEF RawTells
    <3>3. \A f \in Range(h.facts) : f.kind = kind /\ f.subject = s
      BY <3>2 DEF OwnFacts, IsAbout
    <3>4. IsInjective([k \in DOMAIN h.facts |-> h.facts[k].id])
      BY <3>2 DEF OwnFacts
    <3>. QED BY <3>2, <3>3, <3>4 DEF AuthenticRawField, h
  <2>9. \A f \in Range(r.fields) : AuthenticRawField(f, r.subject, p.kind)
    <3>1. \A f \in Range(r.fields) : \E j \in 1..Len(placed) : f = r.fields[j]
      BY <2>3 DEF Range
    <3>. QED BY <1>4, <2>2, <2>8, <3>1
  <2>. QED BY <1>2, <2>2, <2>3, <2>6, <2>7, <2>9 DEF r
<1>7. p.fields = SumOver([i \in DOMAIN p.records |-> Len(p.records[i].fields)])
  <2> DEFINE A == 1..Len(subjects)
             w == [i \in DOMAIN p.records |-> Len(p.records[i].fields)]
  <2>1. DOMAIN w = A /\ \A i \in A : w[i] = Len(placed)
    BY <1>4, <1>6
  <2>2. IsFiniteSet(A) /\ Cardinality(A) = Len(subjects)
    BY <1>3, CountTo
  <2>. HIDE DEF A, w
  <2>3. Total(w, A) = Cardinality(A) * Len(placed)
    BY ONLY <1>3, <2>1, <2>2, TotalConstant
  <2>4. SumOver(w) = Total(w, A)
    BY <2>1 DEF SumOver
  <2>5. SumOver(w) = Len(subjects) * Len(placed)
    BY <2>2, <2>3, <2>4
  <2>. QED BY <1>4, <2>5 DEF w
<1>8. \A r \in Range(p.records) : \E i \in 1..Len(subjects) : r = p.records[i]
  BY <1>4 DEF Range
<1>9. \A r \in Range(p.records) :
        /\ PlacesRise([i \in DOMAIN r.fields |-> r.fields[i].field])
        /\ IsInjective([i \in DOMAIN r.fields |-> r.fields[i].field.key])
        /\ \A f \in Range(r.fields) : AuthenticRawField(f, r.subject, p.kind)
        /\ r.missing = MissingKeys(r.fields) /\ r.issues = IssuesOf(r.fields)
  BY <1>6, <1>8
<1>. QED BY <1>4, <1>5, <1>7, <1>9 DEF AuthenticRaw

-----------------------------------------------------------------------------
(* A reviewed fact tells what was decided of it. *)

DecidedGiven(decided) ==
    /\ \A e \in Range(decided) :
         /\ AuthenticItem(e) /\ e.assessment # 0 /\ e.resolution.values \in Seq(Nat)
         /\ e.members # << >> /\ e.members \in Seq([value: Nat, links: SUBSET Nat])
    /\ \A d, e \in Range(decided) : d.fact = e.fact => d = e

TellsOf(r, e) ==
    /\ r.state = e.resolution.status /\ r.assessment = e.assessment
    /\ r.basis = e.resolution.basis /\ r.decision = e.decision /\ r.kind = e.kind
    /\ r.values = e.resolution.values /\ r.review = NeedsReview(e.resolution.status)
NothingDecided(r) ==
    /\ r.state = "no_consistency_candidate" /\ r.assessment = 0 /\ r.basis = "none"
    /\ r.decision = NoDecision /\ r.kind = "none" /\ r.values = << >> /\ r.review = FALSE
ReviewTells(r, f, decided) ==
    /\ r = ReviewedFact(f, decided) /\ r.fact = f
    /\ \/ NothingDecided(r) /\ \A e \in Range(decided) : e.fact # f.id
       \/ \E e \in Range(decided) : e.fact = f.id /\ TellsOf(r, e)

LEMMA ReviewedFactTells ==
    ASSUME NEW f, NEW decided
    PROVE  ReviewTells(ReviewedFact(f, decided), f, decided)
<1> DEFINE r == ReviewedFact(f, decided)
<1>1. CASE \E e \in Range(decided) : e.fact = f.id
  <2> DEFINE e == CHOOSE e \in Range(decided) : e.fact = f.id
  <2>1. e \in Range(decided) /\ e.fact = f.id
    BY <1>1
  <2>2. r = [fact |-> f, state |-> e.resolution.status, assessment |-> e.assessment,
             basis |-> e.resolution.basis, decision |-> e.decision, kind |-> e.kind,
             values |-> e.resolution.values, review |-> NeedsReview(e.resolution.status)]
    BY <1>1 DEF ReviewedFact
  <2>. HIDE DEF e, r
  <2>3. r.fact = f /\ TellsOf(r, e)
    BY <2>2 DEF TellsOf
  <2>. QED BY <2>1, <2>3 DEF ReviewTells, r
<1>2. CASE ~\E e \in Range(decided) : e.fact = f.id
  <2>1. r = [fact |-> f, state |-> "no_consistency_candidate", assessment |-> 0,
             basis |-> "none", decision |-> NoDecision, kind |-> "none",
             values |-> << >>, review |-> FALSE]
    BY <1>2 DEF ReviewedFact
  <2>. HIDE DEF r
  <2>2. r.fact = f /\ NothingDecided(r)
    BY <2>1 DEF NothingDecided
  <2>. QED BY <1>2, <2>2 DEF ReviewTells, r
<1>. QED BY <1>1, <1>2

\* What the readers of a single reviewed fact ask of it.
DetailFits(r) ==
    /\ IsInjective(FactValues(r.fact)) /\ IsInjective(r.values)
    /\ Range(r.values) \subseteq Range(FactValues(r.fact)) /\ r.values \in Seq(Nat)
    /\ \E s \in ItemStates : Classifies(r, s)
    /\ r.state # "resolved" => r.values = << >>
    /\ (r.decision # NoDecision) <=> r.state \in {"resolved", "deferred"}
    /\ r.state \in {"no_consistency_candidate", "pending_review", "unreviewed_compatible"}
         => r.kind = "none"
    /\ r.state = "deferred" => r.kind = "defer"
    /\ r.basis = "human_selection" =>
         \/ r.kind = "select_one" /\ Len(r.values) = 1
         \/ r.kind = "keep_multiple" /\ Len(r.values) \in 2..MostKept
    /\ r.basis = "human_confirmed_compatibility" =>
         r.kind = "confirm_compatible" /\ r.values # << >>
    /\ r.review \in BOOLEAN /\ (r.review => r.assessment # 0)

BindsAll(f, decided) == \A e \in Range(decided) : f.id = e.fact => Binds(f, e)

LEMMA ReviewFits ==
    ASSUME NEW decided, DecidedGiven(decided), NEW f, NEW r, ReviewTells(r, f, decided),
           BindsAll(f, decided), IsInjective(FactValues(f))
    PROVE  ReviewedFits(r) /\ DetailFits(r)
<1>1. r.fact = f
  BY DEF ReviewTells
<1>2. CASE NothingDecided(r)
  <2>1. r.values = << >> /\ IsInjective(r.values) /\ Range(r.values) = {} /\ r.values \in Seq(Nat)
    BY <1>2 DEF NothingDecided, IsInjective, Range
  <2>2. Classifies(r, "observation_only")
    BY <1>2 DEF NothingDecided, Classifies
  <2>3. DetailFits(r)
    BY <1>1, <1>2, <2>1, <2>2 DEF NothingDecided, DetailFits, ItemStates
  <2>. QED BY <1>1, <1>2, <2>1, <2>3 DEF NothingDecided, ReviewedFits
<1>3. ASSUME NEW e \in Range(decided), e.fact = f.id, TellsOf(r, e)
      PROVE  ReviewedFits(r) /\ DetailFits(r)
  <2> DEFINE members == [i \in DOMAIN e.members |-> e.members[i].value]
  <2>1. /\ r.state = e.resolution.status /\ r.assessment = e.assessment
        /\ r.basis = e.resolution.basis /\ r.decision = e.decision /\ r.kind = e.kind
        /\ r.values = e.resolution.values /\ r.review = NeedsReview(r.state)
    BY <1>3 DEF TellsOf
  <2>2. Binds(f, e)
    BY <1>3 DEF BindsAll
  <2>3. /\ AuthenticItem(e) /\ e.assessment # 0 /\ e.resolution.values \in Seq(Nat)
        /\ e.members # << >> /\ e.members \in Seq([value: Nat, links: SUBSET Nat])
    BY DEF DecidedGiven
  <2>4. /\ IsInjective(r.values) /\ Range(r.values) \subseteq Range(FactValues(r.fact))
        /\ r.values \in Seq(Nat)
    <3>1. /\ IsInjective(e.resolution.values) /\ Range(e.resolution.values) \subseteq Range(members)
          /\ Range(members) \subseteq Range(FactValues(f))
      BY <2>2 DEF Binds
    <3>. QED BY <1>1, <2>1, <2>3, <3>1
  <2>5. members # << >>
    <3>1. Len(e.members) # 0 /\ DOMAIN members = DOMAIN e.members
      BY <2>3
    <3>2. 1 \in DOMAIN members
      BY <2>3, <3>1
    <3>. QED BY <3>2
  <2>. HIDE DEF members
  <2>6. \/ /\ r.state = "resolved" /\ r.decision # NoDecision
           /\ \/ /\ r.basis = "human_selection" /\ r.kind \in {"select_one", "keep_multiple"}
                 /\ SelectionShape(r.kind, Len(r.values))
              \/ /\ r.basis = "human_confirmed_compatibility"
                 /\ r.kind = "confirm_compatible" /\ r.values = members
        \/ /\ r.state \in {"pending_review", "unreviewed_compatible"} /\ r.basis = "none"
           /\ r.values = << >> /\ r.decision = NoDecision /\ r.kind = "none"
        \/ /\ r.state = "deferred" /\ r.basis = "none" /\ r.values = << >>
           /\ r.decision # NoDecision /\ r.kind = "defer"
    BY <2>1, <2>3 DEF AuthenticItem, members
  <2>7. CASE r.state = "resolved"
    <3>1. ~r.review
      BY <2>1, <2>7 DEF NeedsReview
    <3>2. /\ r.decision # NoDecision
          /\ \/ /\ r.basis = "human_selection" /\ r.kind \in {"select_one", "keep_multiple"}
                /\ SelectionShape(r.kind, Len(r.values))
             \/ /\ r.basis = "human_confirmed_compatibility"
                /\ r.kind = "confirm_compatible" /\ r.values = members
      BY <2>6, <2>7
    <3>3. r.basis = "human_selection" =>
            \/ r.kind = "select_one" /\ Len(r.values) = 1
            \/ r.kind = "keep_multiple" /\ Len(r.values) \in 2..MostKept
      BY <3>2 DEF SelectionShape
    <3>4. r.values # << >>
      <4>1. r.values = << >> => Len(r.values) = 0
        OBVIOUS
      <4>2. 0 # 1 /\ 0 \notin 2..MostKept
        BY DEF MostKept
      <4>. QED BY <2>5, <3>2, <3>3, <4>1, <4>2
    <3>5. Classifies(r, "resolved") /\ "resolved" \in ItemStates
      BY <2>7, <3>1, <3>2 DEF Classifies, ItemStates
    <3>6. r.review \in BOOLEAN
      BY <2>1 DEF NeedsReview
    <3>7. ReviewedFits(r)
      BY <1>1, <2>1, <2>3, <2>4, <2>7, <3>1, <3>2, <3>4 DEF ReviewedFits
    <3>8. DetailFits(r)
      BY <1>1, <2>4, <2>7, <3>1, <3>2, <3>3, <3>4, <3>5, <3>6 DEF DetailFits
    <3>. QED BY <3>7, <3>8
  <2>8. CASE r.state # "resolved"
    <3>1. /\ r.state \in {"pending_review", "unreviewed_compatible", "deferred"}
          /\ r.basis = "none" /\ r.values = << >>
          /\ r.state # "deferred" => r.decision = NoDecision /\ r.kind = "none"
          /\ r.state = "deferred" => r.decision # NoDecision /\ r.kind = "defer"
      BY <2>6, <2>8
    <3>2. r.review /\ r.review \in BOOLEAN
      BY <2>1, <3>1 DEF NeedsReview
    <3>3. Classifies(r, "review_required") /\ "review_required" \in ItemStates
      BY <3>1, <3>2 DEF Classifies, ItemStates
    <3>4. r.assessment # 0
      BY <2>1, <2>3
    <3>5. ReviewedFits(r)
      BY <1>1, <2>8, <3>1, <3>2, <3>4 DEF ReviewedFits
    <3>6. DetailFits(r)
      BY <1>1, <2>4, <2>8, <3>1, <3>2, <3>3, <3>4 DEF DetailFits
    <3>. QED BY <3>5, <3>6
  <2>. QED BY <2>7, <2>8
<1>. QED BY <1>2, <1>3 DEF ReviewTells

-----------------------------------------------------------------------------
(* A field of the view tells what its facts were decided to be. *)

ReviewsOf(facts, decided) == [i \in DOMAIN facts |-> ReviewedFact(facts[i], decided)]
FactsBind(h, decided) == \A f \in Range(h.facts) : BindsAll(f, decided)

\* All that is asked of a single field of the knowledge view.
FieldTells(k, known, kind, s, field, decided) ==
    /\ RawTells(k.raw, known, kind, s, field)
    /\ k.reviewed = ReviewsOf(k.raw.facts, decided) /\ k.values = Shown(k.reviewed)
    /\ AsReviewed(k) = ReviewedField(k.raw, decided) /\ k = KnowledgeField(AsReviewed(k))
    /\ k.meanings = k.raw.values
    /\ k.state \in KnowledgeStates
    /\ k.state = "review_required" <=> \E r \in Range(k.reviewed) : r.review

LEMMA ReviewsTell ==
    ASSUME NEW facts \in Seq(KnownRows), NEW decided
    PROVE  LET reviewed == ReviewsOf(facts, decided) IN
           /\ DOMAIN reviewed = 1..Len(facts) /\ DOMAIN facts = 1..Len(facts) /\ Len(facts) \in Nat
           /\ \A i \in DOMAIN reviewed : ReviewTells(reviewed[i], facts[i], decided)
           /\ facts = [i \in DOMAIN reviewed |-> reviewed[i].fact]
           /\ Range(reviewed) = {ReviewedFact(f, decided) : f \in Range(facts)}
           /\ \A r \in Range(reviewed) : ReviewTells(r, r.fact, decided) /\ r.fact \in Range(facts)
<1> DEFINE reviewed == ReviewsOf(facts, decided)
<1>1. DOMAIN facts = 1..Len(facts) /\ Len(facts) \in Nat
  OBVIOUS
<1>2. DOMAIN reviewed = 1..Len(facts) /\ \A i \in 1..Len(facts) : reviewed[i] = ReviewedFact(facts[i], decided)
  BY <1>1 DEF ReviewsOf
<1>. HIDE DEF reviewed
<1>3. \A i \in 1..Len(facts) : ReviewTells(reviewed[i], facts[i], decided)
  BY <1>2, ReviewedFactTells
<1>4. \A i \in 1..Len(facts) : reviewed[i].fact = facts[i]
  BY <1>3 DEF ReviewTells
<1>5. facts = [i \in DOMAIN reviewed |-> reviewed[i].fact]
  <2>1. facts = [i \in 1..Len(facts) |-> facts[i]]
    OBVIOUS
  <2>. QED BY <1>2, <1>4, <2>1
<1>6. Range(reviewed) = {ReviewedFact(f, decided) : f \in Range(facts)}
  <2>1. \A r \in Range(reviewed) : \E i \in 1..Len(facts) : r = ReviewedFact(facts[i], decided)
    BY <1>2 DEF Range
  <2>2. \A i \in 1..Len(facts) : facts[i] \in Range(facts) /\ ReviewedFact(facts[i], decided) \in Range(reviewed)
    BY <1>1, <1>2 DEF Range
  <2>3. \A f \in Range(facts) : \E i \in 1..Len(facts) : f = facts[i]
    BY <1>1 DEF Range
  <2>. QED BY <2>1, <2>2, <2>3
<1>7. \A r \in Range(reviewed) : ReviewTells(r, r.fact, decided) /\ r.fact \in Range(facts)
  <2>1. \A f \in Range(facts) : ReviewedFact(f, decided).fact = f
    BY ReviewedFactTells DEF ReviewTells
  <2>. QED BY <1>6, <2>1, ReviewedFactTells
<1>. QED BY <1>1, <1>2, <1>3, <1>5, <1>6, <1>7 DEF reviewed

LEMMA SumOfOnes ==
    ASSUME NEW n \in Nat, NEW P
    PROVE  LET S == {i \in 1..n : P[i]} IN Cardinality(S) > 0 <=> \E i \in 1..n : P[i]
<1> DEFINE S == {i \in 1..n : P[i]}
<1>1. S \in SUBSET (1..n)
  OBVIOUS
<1>2. IsFiniteSet(S) /\ Cardinality(S) \in Nat
  <2>. HIDE DEF S
  <2>. QED BY <1>1, CountTo, FS_Subset, FS_CardinalityType
<1>3. Cardinality(S) > 0 <=> S # {}
  <2>. HIDE DEF S
  <2>. QED BY <1>2, FS_EmptySet
<1>4. S # {} <=> \E i \in 1..n : P[i]
  OBVIOUS
<1>. QED BY <1>3, <1>4

LEMMA KnownFieldTells ==
    ASSUME NEW known, FactsKnown(known), NEW decided, DecidedGiven(decided),
           NEW kind, NEW s, NEW field, FactsBind(RawOf(known, kind, s, field), decided)
    PROVE  LET g == ReviewedField(RawOf(known, kind, s, field), decided)
               k == KnowledgeField(g) IN
           /\ FieldTells(k, known, kind, s, field, decided) /\ AsReviewed(k) = g
           /\ AuthenticField(g, s, kind) /\ g.raw = k.raw /\ g.reviewed = k.reviewed
           /\ g.reviews > 0 <=> k.state = "review_required"
<1> DEFINE h == RawOf(known, kind, s, field)
           reviewed == ReviewsOf(h.facts, decided)
           g == ReviewedField(h, decided)
           k == KnowledgeField(g)
<1>1. RawTells(h, known, kind, s, field)
  BY RawFieldTells
<1>a. FactsBind(h, decided)
  OBVIOUS
<1>. HIDE DEF h
<1>2. /\ h.field = field /\ h = RawField(field, h.facts) /\ h.facts \in Seq(KnownRows)
      /\ OwnFacts(h.facts, known, kind, s, field)
      /\ h.missing = (h.facts = << >>) /\ h.values = Groups(h.facts)
  BY <1>1 DEF RawTells, OwnFacts
<1>3. g = [raw |-> h, reviewed |-> reviewed, values |-> Shown(reviewed),
           resolved |-> ResolvedIn(reviewed), reviews |-> ReviewsIn(reviewed)]
  BY DEF ReviewedField, ReviewsOf
<1>4. /\ DOMAIN reviewed = 1..Len(h.facts) /\ DOMAIN h.facts = 1..Len(h.facts) /\ Len(h.facts) \in Nat
      /\ \A i \in DOMAIN reviewed : ReviewTells(reviewed[i], h.facts[i], decided)
      /\ h.facts = [i \in DOMAIN reviewed |-> reviewed[i].fact]
      /\ \A r \in Range(reviewed) : ReviewTells(r, r.fact, decided) /\ r.fact \in Range(h.facts)
  BY <1>2, ReviewsTell
<1>. HIDE DEF reviewed
<1>5. /\ g.raw = h /\ g.reviewed = reviewed /\ g.values = Shown(reviewed)
      /\ g.resolved = ResolvedIn(reviewed) /\ g.reviews = ReviewsIn(reviewed)
  BY <1>3
<1>6. k = [raw |-> h, reviewed |-> reviewed, values |-> Shown(reviewed), state |-> KnowledgeState(g),
           observed |-> SumOver([i \in DOMAIN g.reviewed |-> Len(FactValues(g.reviewed[i].fact))]),
           meanings |-> SumOver([i \in DOMAIN g.reviewed |-> Len(g.reviewed[i].fact.groups)]),
           issues |-> h.issues # << >>]
  BY <1>5 DEF KnowledgeField
<1>7. /\ k.raw = h /\ k.reviewed = reviewed /\ k.values = Shown(reviewed)
      /\ k.state = KnowledgeState(g)
      /\ k.meanings = SumOver([i \in DOMAIN g.reviewed |-> Len(g.reviewed[i].fact.groups)])
  BY <1>6
<1>8. AsReviewed(k) = g
  BY <1>3, <1>7 DEF AsReviewed
<1>9. ReviewsIn(reviewed) > 0 <=> \E r \in Range(reviewed) : r.review
  <2> DEFINE P == [i \in 1..Len(h.facts) |-> reviewed[i].review]
  <2>1. {i \in DOMAIN reviewed : reviewed[i].review} = {i \in 1..Len(h.facts) : P[i]}
    BY <1>4
  <2>2. Cardinality({i \in 1..Len(h.facts) : P[i]}) > 0 <=> \E i \in 1..Len(h.facts) : P[i]
    <3>. HIDE DEF P
    <3>. QED BY <1>4, SumOfOnes
  <2>3. (\E i \in 1..Len(h.facts) : P[i]) <=> \E r \in Range(reviewed) : r.review
    <3>1. \A i \in 1..Len(h.facts) : P[i] = reviewed[i].review /\ i \in DOMAIN reviewed
      BY <1>4
    <3>2. \A r \in Range(reviewed) : \E i \in 1..Len(h.facts) : r = reviewed[i]
      BY <1>4 DEF Range
    <3>3. \A i \in 1..Len(h.facts) : reviewed[i] \in Range(reviewed)
      BY <1>4 DEF Range
    <3>. HIDE DEF P
    <3>. QED BY <3>1, <3>2, <3>3
  <2>. QED BY <2>1, <2>2, <2>3 DEF ReviewsIn
<1>. HIDE DEF g, k
<1>10. k.state \in KnowledgeStates /\ (k.state = "review_required" <=> \E r \in Range(reviewed) : r.review)
  <2>1. h.facts = << >> => ~\E r \in Range(reviewed) : r.review
    <3>1. h.facts = << >> => Len(h.facts) = 0
      OBVIOUS
    <3>2. Len(h.facts) = 0 => Range(reviewed) = {}
      BY <1>4 DEF Range
    <3>. QED BY <3>1, <3>2
  <2>2. KnowledgeState(g) =
          LET states == {r.state : r \in Range(reviewed)} IN
          IF h.missing THEN "missing"
          ELSE IF \E r \in Range(reviewed) : r.review THEN "review_required"
          ELSE IF states = {"resolved"} THEN "resolved"
          ELSE IF states = {"no_consistency_candidate"} THEN "observation_only"
          ELSE "mixed_reviewed_observation"
    BY <1>5 DEF KnowledgeState
  <2> DEFINE one == {r.state : r \in Range(reviewed)} = {"resolved"}
             none == {r.state : r \in Range(reviewed)} = {"no_consistency_candidate"}
             review == \E r \in Range(reviewed) : r.review
  <2>3. k.state = IF h.missing THEN "missing" ELSE IF review THEN "review_required"
                  ELSE IF one THEN "resolved" ELSE IF none THEN "observation_only"
                  ELSE "mixed_reviewed_observation"
    BY <1>7, <2>2
  <2>. HIDE DEF one, none, review
  <2>4. h.missing => ~review
    BY <1>2, <2>1 DEF review
  <2>5. k.state \in KnowledgeStates /\ (k.state = "review_required" <=> review)
    BY <2>3, <2>4 DEF KnowledgeStates
  <2>. QED BY <2>5 DEF review
<1>11. k.meanings = h.values
  <2>1. [i \in DOMAIN g.reviewed |-> Len(g.reviewed[i].fact.groups)] =
          [i \in DOMAIN h.facts |-> Len(h.facts[i].groups)]
    <3>1. \A i \in DOMAIN reviewed : reviewed[i].fact = h.facts[i]
      BY <1>4 DEF ReviewTells
    <3>. QED BY <1>4, <1>5, <3>1
  <2>. QED BY <1>2, <1>7, <2>1 DEF Groups
<1>12. k = KnowledgeField(AsReviewed(k))
  BY <1>8 DEF k
<1>13. AsReviewed(k) = ReviewedField(h, decided)
  BY <1>8 DEF g
<1>14. FieldTells(k, known, kind, s, field, decided)
  BY <1>1, <1>7, <1>10, <1>11, <1>12, <1>13 DEF FieldTells, reviewed
<1>15. AuthenticField(g, s, kind)
  <2>1. AuthenticRawField(h, s, kind)
    <3>1. \A f \in Range(h.facts) : f.kind = kind /\ f.subject = s
      BY <1>2 DEF OwnFacts, IsAbout
    <3>2. IsInjective([i \in DOMAIN h.facts |-> h.facts[i].id])
      BY <1>2 DEF OwnFacts
    <3>. QED BY <1>2, <3>1, <3>2 DEF AuthenticRawField
  <2>2. \A r \in Range(reviewed) : ReviewedFits(r)
    <3>1. \A f \in Range(h.facts) : f \in Range(known) /\ IsInjective(FactValues(f))
      BY <1>2 DEF OwnFacts, FactsKnown
    <3>2. \A f \in Range(h.facts) : BindsAll(f, decided)
      BY <1>a DEF FactsBind
    <3>. QED BY <1>4, <3>1, <3>2, ReviewFits
  <2>. QED BY <1>4, <1>5, <2>1, <2>2 DEF AuthenticField
<1>16. g.reviews > 0 <=> k.state = "review_required"
  BY <1>5, <1>9, <1>10
<1>. QED BY <1>5, <1>7, <1>8, <1>14, <1>15, <1>16 DEF h, g, k

-----------------------------------------------------------------------------
(* The reviewed projection is what its readers count again. *)

ReviewedOf(known, kind, s, field, decided) == ReviewedField(RawOf(known, kind, s, field), decided)
ReviewedRecordTells(r, known, kind, s, placed, decided) ==
    /\ r.subject = s /\ DOMAIN r.fields = 1..Len(placed)
    /\ \A j \in 1..Len(placed) : r.fields[j] = ReviewedOf(known, kind, s, placed[j], decided)
    /\ r.missing = MissingKeys(RawsIn(known, kind, s, placed))
    /\ r.issues = IssuesOf(RawsIn(known, kind, s, placed))

CountedAgain(q) ==
    /\ q.count = Len(q.records)
    /\ q.facts = Cardinality({r \in EachReviewed(q.records) : TRUE})
    /\ q.resolved = Cardinality({r \in EachReviewed(q.records) : r.state = "resolved"})
    /\ q.reviews = Cardinality({r \in EachReviewed(q.records) : r.review})
    /\ q.free = Cardinality({r \in EachReviewed(q.records) : r.state = "no_consistency_candidate"})
    /\ q.fieldReviews = Unsettled(q.records)

ReviewedShape(q, known, kind, subjects, placed, decided) ==
    /\ q.kind = kind /\ DOMAIN q.records = 1..Len(subjects) /\ Len(q.records) = Len(subjects)
    /\ \A i \in 1..Len(subjects) :
         ReviewedRecordTells(q.records[i], known, kind, subjects[i], placed, decided)
    /\ CountedAgain(q)

ReviewedRecords(p, decided) ==
    [i \in DOMAIN p.records |->
        [subject |-> p.records[i].subject, missing |-> p.records[i].missing,
         issues |-> p.records[i].issues,
         fields |-> [j \in DOMAIN p.records[i].fields |->
                       ReviewedField(p.records[i].fields[j], decided)]]]

LEMMA ReviewedProjectionIs ==
    ASSUME NEW known, NEW kind, NEW subjects, Len(subjects) \in Nat, NEW placed, Len(placed) \in Nat,
           NEW decided, NEW p, RawShape(p, known, kind, subjects, placed)
    PROVE  ReviewedShape(ReviewedProjection(p, decided), known, kind, subjects, placed, decided)
<1> DEFINE q == ReviewedProjection(p, decided)
           records == ReviewedRecords(p, decided)
<1>1. /\ q.kind = p.kind /\ q.records = records /\ CountedAgain(q)
  <2>1. q = [kind |-> p.kind, records |-> records, count |-> Len(records),
             facts |-> Cardinality({r \in EachReviewed(records) : TRUE}),
             resolved |-> Cardinality({r \in EachReviewed(records) : r.state = "resolved"}),
             reviews |-> Cardinality({r \in EachReviewed(records) : r.review}),
             free |-> Cardinality({r \in EachReviewed(records) : r.state = "no_consistency_candidate"}),
             fieldReviews |-> Unsettled(records)]
    BY DEF ReviewedProjection, ReviewedRecords, Summary
  <2>. HIDE DEF q, records
  <2>. QED BY <2>1 DEF CountedAgain
<1>2. /\ p.kind = kind /\ DOMAIN p.records = 1..Len(subjects)
      /\ \A i \in 1..Len(subjects) : RawRecordTells(p.records[i], known, kind, subjects[i], placed)
  BY DEF RawShape
<1>3. DOMAIN records = 1..Len(subjects) /\ \A i \in 1..Len(subjects) :
        records[i] = [subject |-> p.records[i].subject, missing |-> p.records[i].missing,
                      issues |-> p.records[i].issues,
                      fields |-> [j \in DOMAIN p.records[i].fields |->
                                    ReviewedField(p.records[i].fields[j], decided)]]
  BY <1>2 DEF ReviewedRecords
<1>. HIDE DEF q, records
<1>4. Len(records) = Len(subjects)
  <2>1. records = [i \in 1..Len(subjects) |-> records[i]]
    BY <1>3 DEF records, ReviewedRecords
  <2>. QED BY <1>3, <2>1
<1>5. ASSUME NEW i \in 1..Len(subjects)
      PROVE  ReviewedRecordTells(records[i], known, kind, subjects[i], placed, decided)
  <2> DEFINE r == p.records[i]
             s == subjects[i]
             t == records[i]
  <2>1. /\ r.subject = s /\ r.fields = RawsIn(known, kind, s, placed)
        /\ r.missing = MissingKeys(r.fields) /\ r.issues = IssuesOf(r.fields)
    BY <1>2 DEF RawRecordTells
  <2>2. DOMAIN r.fields = 1..Len(placed) /\ \A j \in 1..Len(placed) :
          r.fields[j] = RawOf(known, kind, s, placed[j])
    BY <2>1 DEF RawsIn
  <2>3. /\ t.subject = r.subject /\ t.missing = r.missing /\ t.issues = r.issues
        /\ t.fields = [j \in DOMAIN r.fields |-> ReviewedField(r.fields[j], decided)]
    BY <1>3
  <2>. HIDE DEF r, s, t
  <2>4. DOMAIN t.fields = 1..Len(placed) /\ \A j \in 1..Len(placed) :
          t.fields[j] = ReviewedOf(known, kind, s, placed[j], decided)
    BY <2>2, <2>3 DEF ReviewedOf
  <2>5. ReviewedRecordTells(t, known, kind, s, placed, decided)
    BY <2>1, <2>3, <2>4 DEF ReviewedRecordTells
  <2>. QED BY <2>5 DEF t, s
<1>6. ReviewedShape(q, known, kind, subjects, placed, decided)
  BY <1>1, <1>2, <1>3, <1>4, <1>5 DEF ReviewedShape
<1>. QED BY <1>6 DEF q

AllBind(known, kind, subjects, placed, decided) ==
    \A i \in 1..Len(subjects), j \in 1..Len(placed) :
        FactsBind(RawOf(known, kind, subjects[i], placed[j]), decided)

LEMMA BindsOfProjection ==
    ASSUME NEW known, NEW kind, NEW subjects, NEW placed, NEW decided, NEW p,
           RawShape(p, known, kind, subjects, placed), ReviewBinds(p, decided)
    PROVE  AllBind(known, kind, subjects, placed, decided)
<1> SUFFICES ASSUME NEW i \in 1..Len(subjects), NEW j \in 1..Len(placed),
                    NEW f \in Range(RawOf(known, kind, subjects[i], placed[j]).facts),
                    NEW e \in Range(decided), f.id = e.fact
             PROVE  Binds(f, e)
  BY DEF AllBind, FactsBind, BindsAll
<1>1. DOMAIN p.records = 1..Len(subjects) /\ RawRecordTells(p.records[i], known, kind, subjects[i], placed)
  BY DEF RawShape
<1>2. p.records[i] \in Range(p.records)
  BY <1>1 DEF Range
<1>3. p.records[i].fields = RawsIn(known, kind, subjects[i], placed)
  BY <1>1 DEF RawRecordTells
<1>4. RawOf(known, kind, subjects[i], placed[j]) \in Range(p.records[i].fields)
  BY <1>3 DEF RawsIn, Range
<1>5. f \in UNION {Range(x.facts) : x \in Range(p.records[i].fields)}
  BY <1>4
<1>. QED BY <1>2, <1>5 DEF ReviewBinds

\* The facts that are shown, and what was decided of them.
Appears(f, kind, subjects, placed) ==
    \E i \in 1..Len(subjects), j \in 1..Len(placed) : IsAbout(f, kind, subjects[i]) /\ Belongs(placed[j], f)
ReviewedWell(set, known, kind, subjects, placed, decided) ==
    /\ set = {ReviewedFact(f, decided) : f \in {g \in Range(known) : Appears(g, kind, subjects, placed)}}
    /\ \A r \in set : /\ ReviewTells(r, r.fact, decided) /\ r.fact \in Range(known)
                      /\ Appears(r.fact, kind, subjects, placed)
                      /\ ReviewedFits(r) /\ DetailFits(r) /\ BindsAll(r.fact, decided)
    /\ \A r, t \in set : r.fact.id = t.fact.id => r = t

FieldReviews(g, known, kind, s, field, decided) ==
    /\ g.raw = RawOf(known, kind, s, field) /\ g.reviewed = ReviewsOf(g.raw.facts, decided)
    /\ g.raw.facts \in Seq(KnownRows)
    /\ Range(g.raw.facts) = {f \in Range(known) : IsAbout(f, kind, s) /\ Belongs(field, f)}
    /\ Range(g.reviewed) = {ReviewedFact(f, decided) : f \in Range(g.raw.facts)}

LEMMA ReviewsOfField ==
    ASSUME NEW known, FactsKnown(known), NEW kind, NEW s, NEW field, NEW decided
    PROVE  FieldReviews(ReviewedOf(known, kind, s, field, decided), known, kind, s, field, decided)
<1> DEFINE h == RawOf(known, kind, s, field)
           g == ReviewedField(h, decided)
<1>1. OwnFacts(h.facts, known, kind, s, field)
  BY RawFieldTells DEF RawTells
<1>2. /\ h.facts \in Seq(KnownRows)
      /\ Range(h.facts) = {f \in Range(known) : IsAbout(f, kind, s) /\ Belongs(field, f)}
  BY <1>1 DEF OwnFacts
<1>3. g.raw = h /\ g.reviewed = ReviewsOf(h.facts, decided)
  BY DEF ReviewedField, ReviewsOf
<1>4. Range(ReviewsOf(h.facts, decided)) = {ReviewedFact(f, decided) : f \in Range(h.facts)}
  BY <1>2, ReviewsTell
<1>. QED BY <1>2, <1>3, <1>4 DEF ReviewedOf, FieldReviews

\* What is reviewed in a projection is reviewed in one of its fields.
LEMMA EachReviewedIs ==
    ASSUME NEW known, NEW kind, NEW subjects, NEW placed, NEW decided, NEW q,
           ReviewedShape(q, known, kind, subjects, placed, decided)
    PROVE  \A r : r \in EachReviewed(q.records) <=>
             \E i \in 1..Len(subjects), j \in 1..Len(placed) :
                 r \in Range(ReviewedOf(known, kind, subjects[i], placed[j], decided).reviewed)
<1> DEFINE G(i, j) == ReviewedOf(known, kind, subjects[i], placed[j], decided)
           set == EachReviewed(q.records)
<1>1. /\ DOMAIN q.records = 1..Len(subjects)
      /\ \A i \in 1..Len(subjects) : DOMAIN q.records[i].fields = 1..Len(placed)
           /\ \A j \in 1..Len(placed) : q.records[i].fields[j] = G(i, j)
  BY DEF ReviewedShape, ReviewedRecordTells
<1>. HIDE DEF G
<1>3. \A r : r \in set <=> \E i \in 1..Len(subjects), j \in 1..Len(placed) : r \in Range(G(i, j).reviewed)
  <2>1. \A t \in Range(q.records) : \E i \in 1..Len(subjects) : t = q.records[i]
    BY <1>1 DEF Range
  <2>2. \A i \in 1..Len(subjects) : q.records[i] \in Range(q.records)
    BY <1>1 DEF Range
  <2>3. \A i \in 1..Len(subjects) : \A g \in Range(q.records[i].fields) : \E j \in 1..Len(placed) : g = G(i, j)
    BY <1>1 DEF Range
  <2>4. \A i \in 1..Len(subjects), j \in 1..Len(placed) : G(i, j) \in Range(q.records[i].fields)
    BY <1>1 DEF Range
  <2>5. \A r : r \in set <=> \E t \in Range(q.records) : \E g \in Range(t.fields) : r \in Range(g.reviewed)
    BY DEF EachReviewed
  <2>. HIDE DEF set
  <2>6. ASSUME NEW r \in set
        PROVE  \E i \in 1..Len(subjects), j \in 1..Len(placed) : r \in Range(G(i, j).reviewed)
    <3>1. PICK t \in Range(q.records) : \E g \in Range(t.fields) : r \in Range(g.reviewed)
      BY <2>5
    <3>2. PICK g \in Range(t.fields) : r \in Range(g.reviewed)
      BY <3>1
    <3>3. PICK i \in 1..Len(subjects) : t = q.records[i]
      BY <2>1, <3>1
    <3>4. PICK j \in 1..Len(placed) : g = G(i, j)
      BY <2>3, <3>2, <3>3
    <3>. QED BY <3>2, <3>4
  <2>7. ASSUME NEW i \in 1..Len(subjects), NEW j \in 1..Len(placed), NEW r \in Range(G(i, j).reviewed)
        PROVE  r \in set
    <3>1. q.records[i] \in Range(q.records) /\ G(i, j) \in Range(q.records[i].fields)
      BY <2>2, <2>4
    <3>. QED BY <2>5, <3>1
  <2>. QED BY <2>6, <2>7
<1>. QED BY <1>3 DEF G

LEMMA EachIsReviewed ==
    ASSUME NEW known, FactsKnown(known), NEW kind, NEW subjects, NEW placed,
           NEW decided, DecidedGiven(decided), AllBind(known, kind, subjects, placed, decided),
           NEW q, ReviewedShape(q, known, kind, subjects, placed, decided)
    PROVE  ReviewedWell(EachReviewed(q.records), known, kind, subjects, placed, decided)
<1> DEFINE G(i, j) == ReviewedOf(known, kind, subjects[i], placed[j], decided)
           set == EachReviewed(q.records)
           shown == {g \in Range(known) : Appears(g, kind, subjects, placed)}
<1>2. \A i \in 1..Len(subjects), j \in 1..Len(placed) :
        /\ Range(G(i, j).reviewed) = {ReviewedFact(f, decided) : f \in Range(G(i, j).raw.facts)}
        /\ G(i, j).raw = RawOf(known, kind, subjects[i], placed[j])
        /\ Range(G(i, j).raw.facts) =
             {f \in Range(known) : IsAbout(f, kind, subjects[i]) /\ Belongs(placed[j], f)}
  <2> SUFFICES ASSUME NEW i \in 1..Len(subjects), NEW j \in 1..Len(placed)
               PROVE  /\ Range(G(i, j).reviewed) = {ReviewedFact(f, decided) : f \in Range(G(i, j).raw.facts)}
                      /\ G(i, j).raw = RawOf(known, kind, subjects[i], placed[j])
                      /\ Range(G(i, j).raw.facts) =
                           {f \in Range(known) : IsAbout(f, kind, subjects[i]) /\ Belongs(placed[j], f)}
    OBVIOUS
  <2> DEFINE s == subjects[i]
             field == placed[j]
             g == ReviewedOf(known, kind, s, field, decided)
  <2>1. FieldReviews(g, known, kind, s, field, decided)
    BY ReviewsOfField
  <2>2. g = G(i, j)
    OBVIOUS
  <2>. HIDE DEF g, G
  <2>. QED BY <2>1, <2>2 DEF FieldReviews
<1>. HIDE DEF G
<1>3. \A r : r \in set <=> \E i \in 1..Len(subjects), j \in 1..Len(placed) : r \in Range(G(i, j).reviewed)
  <2>. HIDE DEF set
  <2>1. \A r : r \in EachReviewed(q.records) <=>
          \E i \in 1..Len(subjects), j \in 1..Len(placed) :
              r \in Range(ReviewedOf(known, kind, subjects[i], placed[j], decided).reviewed)
    BY EachReviewedIs
  <2>. QED BY <2>1 DEF G, set
<1>4. ASSUME NEW i \in 1..Len(subjects), NEW j \in 1..Len(placed), NEW f \in Range(known),
             IsAbout(f, kind, subjects[i]), Belongs(placed[j], f)
      PROVE  BindsAll(f, decided)
  <2>1. f \in Range(RawOf(known, kind, subjects[i], placed[j]).facts)
    BY <1>2, <1>4
  <2>. QED BY <2>1 DEF AllBind, FactsBind
<1>5. set = {ReviewedFact(f, decided) : f \in shown}
  <2>1. ASSUME NEW r \in set PROVE \E f \in shown : r = ReviewedFact(f, decided)
    <3>1. PICK i \in 1..Len(subjects), j \in 1..Len(placed) : r \in Range(G(i, j).reviewed)
      BY <1>3
    <3>2. PICK f \in Range(known) : IsAbout(f, kind, subjects[i]) /\ Belongs(placed[j], f) /\ r = ReviewedFact(f, decided)
      <4>1. PICK f \in Range(G(i, j).raw.facts) : r = ReviewedFact(f, decided)
        BY <1>2, <3>1
      <4>. QED BY <1>2, <4>1
    <3>. QED BY <3>2 DEF Appears
  <2>2. ASSUME NEW f \in shown PROVE ReviewedFact(f, decided) \in set
    <3>1. PICK i \in 1..Len(subjects), j \in 1..Len(placed) : IsAbout(f, kind, subjects[i]) /\ Belongs(placed[j], f)
      BY DEF Appears
    <3>2. ReviewedFact(f, decided) \in Range(G(i, j).reviewed)
      <4>1. f \in Range(G(i, j).raw.facts)
        BY <1>2, <3>1
      <4>. QED BY <1>2, <4>1
    <3>. QED BY <1>3, <3>2
  <2>. HIDE DEF set, shown
  <2>. QED BY <2>1, <2>2
<1>6. ASSUME NEW r \in set
      PROVE  /\ ReviewTells(r, r.fact, decided) /\ r.fact \in Range(known)
             /\ Appears(r.fact, kind, subjects, placed) /\ r = ReviewedFact(r.fact, decided)
             /\ ReviewedFits(r) /\ DetailFits(r) /\ BindsAll(r.fact, decided)
  <2>1. PICK f \in shown : r = ReviewedFact(f, decided)
    BY <1>5
  <2>2. f \in Range(known) /\ Appears(f, kind, subjects, placed)
    BY <2>1
  <2>3. ReviewTells(r, f, decided) /\ r.fact = f
    BY <2>1, ReviewedFactTells DEF ReviewTells
  <2>4. BindsAll(f, decided)
    BY <1>4, <2>2 DEF Appears
  <2>5. IsInjective(FactValues(f))
    BY <2>2 DEF FactsKnown
  <2>6. ReviewedFits(r) /\ DetailFits(r)
    BY <2>3, <2>4, <2>5, ReviewFits
  <2>. QED BY <2>1, <2>2, <2>3, <2>4, <2>6
<1>7. \A f, g \in Range(known) : f.id = g.id => f = g
  <2>1. \A i, j \in DOMAIN known : known[i].id = known[j].id => i = j
    BY DEF FactsKnown, IsInjective
  <2>. QED BY <2>1 DEF Range
<1>8. \A r, t \in set : r.fact.id = t.fact.id => r = t
  BY <1>6, <1>7
<1>. QED BY <1>5, <1>6, <1>8 DEF ReviewedWell

LEMMA ReviewedIsAuthentic ==
    ASSUME NEW kind, NEW fields \in Seq(FieldRows), NEW known, FactsKnown(known), NEW filter,
           filter.keys \in Seq(Nat), NEW p, NEW q, NEW subjects, NEW placed, NEW decided,
           DecidedGiven(decided), AllBind(known, kind, subjects, placed, decided),
           placed = InPlaceOrder(fields), subjects = SubjectsAsked(kind, known, filter),
           RawShape(p, known, kind, subjects, placed), FieldsFit(fields), FilterFits(filter),
           ReviewedShape(q, known, kind, subjects, placed, decided)
    PROVE  AuthenticReviewed(q, filter)
<1>1. /\ placed \in Seq(FieldRows) /\ PlacesRise(placed) /\ IsInjective(Keys(placed))
  BY FieldsInPlace
<1>2. /\ q.kind = kind /\ DOMAIN q.records = 1..Len(subjects) /\ CountedAgain(q)
      /\ \A i \in 1..Len(subjects) :
           ReviewedRecordTells(q.records[i], known, kind, subjects[i], placed, decided)
  BY DEF ReviewedShape
<1>3. SubjectsFit(q.records, filter)
  <2>1. SubjectsFit(p.records, filter)
    BY RawIsAuthentic
  <2>2. [i \in DOMAIN q.records |-> q.records[i].subject] = [i \in DOMAIN p.records |-> p.records[i].subject]
    <3>1. \A i \in 1..Len(subjects) : q.records[i].subject = subjects[i]
      BY <1>2 DEF ReviewedRecordTells
    <3>2. DOMAIN p.records = 1..Len(subjects) /\ \A i \in 1..Len(subjects) : p.records[i].subject = subjects[i]
      BY DEF RawShape, RawRecordTells
    <3>. QED BY <1>2, <3>1, <3>2
  <2> DEFINE told == [i \in DOMAIN p.records |-> p.records[i].subject]
             again == [i \in DOMAIN q.records |-> q.records[i].subject]
             Fits(t) == /\ IsInjective(t)
                        /\ IF filter.given THEN t = filter.keys
                           ELSE \A i, j \in DOMAIN t : i < j => t[i] < t[j]
  <2>3. SubjectsFit(p.records, filter) = Fits(told) /\ SubjectsFit(q.records, filter) = Fits(again)
    BY DEF SubjectsFit
  <2>4. told = again
    BY <2>2
  <2>. HIDE DEF told, again, Fits
  <2>. QED BY <2>1, <2>3, <2>4
<1>4. OneReviewEach(q.records)
  <2>1. ReviewedWell(EachReviewed(q.records), known, kind, subjects, placed, decided)
    BY EachIsReviewed
  <2>. QED BY <2>1 DEF ReviewedWell, OneReviewEach, OneToOne
<1>5. ASSUME NEW r \in Range(q.records)
      PROVE  LET raw == [i \in DOMAIN r.fields |-> r.fields[i].raw] IN
             /\ PlacesRise([i \in DOMAIN raw |-> raw[i].field])
             /\ IsInjective([i \in DOMAIN raw |-> raw[i].field.key])
             /\ \A f \in Range(r.fields) : AuthenticField(f, r.subject, q.kind)
             /\ r.missing = MissingKeys(raw) /\ r.issues = IssuesOf(raw)
  <2>1. PICK i \in 1..Len(subjects) : r = q.records[i]
    BY <1>2 DEF Range
  <2> DEFINE s == subjects[i]
             raw == [j \in DOMAIN r.fields |-> r.fields[j].raw]
  <2>2. ReviewedRecordTells(r, known, kind, s, placed, decided)
    BY <1>2, <2>1
  <2>3. \A j \in 1..Len(placed) : FactsBind(RawOf(known, kind, s, placed[j]), decided)
    BY DEF AllBind
  <2>. HIDE DEF s
  <2>4. /\ r.subject = s /\ DOMAIN r.fields = 1..Len(placed)
        /\ \A j \in 1..Len(placed) : r.fields[j] = ReviewedOf(known, kind, s, placed[j], decided)
        /\ r.missing = MissingKeys(RawsIn(known, kind, s, placed))
        /\ r.issues = IssuesOf(RawsIn(known, kind, s, placed))
    BY <2>2 DEF ReviewedRecordTells
  <2>5. \A j \in 1..Len(placed) : /\ r.fields[j].raw = RawOf(known, kind, s, placed[j])
                                  /\ r.fields[j].raw.field = placed[j]
    <3>1. \A j \in 1..Len(placed) : ReviewedOf(known, kind, s, placed[j], decided).raw = RawOf(known, kind, s, placed[j])
      BY ReviewsOfField DEF FieldReviews
    <3>2. \A j \in 1..Len(placed) : RawOf(known, kind, s, placed[j]).field = placed[j]
      BY RawFieldTells DEF RawTells
    <3>. QED BY <2>4, <3>1, <3>2
  <2>6. raw = RawsIn(known, kind, s, placed)
    BY <2>4, <2>5 DEF RawsIn
  <2>7. DOMAIN raw = 1..Len(placed) /\ \A j \in 1..Len(placed) : raw[j].field = placed[j]
    BY <2>4, <2>5
  <2>. HIDE DEF raw
  <2>8. [j \in DOMAIN raw |-> raw[j].field] = placed
    <3>1. placed = [j \in 1..Len(placed) |-> placed[j]]
      BY <1>1
    <3>. QED BY <2>7, <3>1
  <2>9. [j \in DOMAIN raw |-> raw[j].field.key] = Keys(placed)
    <3>1. DOMAIN placed = 1..Len(placed)
      BY <1>1
    <3>. QED BY <2>7, <3>1 DEF Keys
  <2>10. \A j \in 1..Len(placed) : AuthenticField(r.fields[j], s, kind)
    <3>1. \A j \in 1..Len(placed) : AuthenticField(ReviewedOf(known, kind, s, placed[j], decided), s, kind)
      BY <2>3, KnownFieldTells DEF ReviewedOf
    <3>. QED BY <2>4, <3>1
  <2>11. \A f \in Range(r.fields) : AuthenticField(f, r.subject, q.kind)
    <3>1. \A f \in Range(r.fields) : \E j \in 1..Len(placed) : f = r.fields[j]
      BY <2>4 DEF Range
    <3>. QED BY <1>2, <2>4, <2>10, <3>1
  <2>. QED BY <1>1, <2>4, <2>6, <2>8, <2>9, <2>11 DEF raw
<1>6. /\ q.count = Len(q.records)
      /\ q.facts = Summary(q.records, LAMBDA r : TRUE)
      /\ q.resolved = Summary(q.records, LAMBDA r : r.state = "resolved")
      /\ q.reviews = Summary(q.records, LAMBDA r : r.review)
      /\ q.free = Summary(q.records, LAMBDA r : r.state = "no_consistency_candidate")
      /\ q.fieldReviews = Unsettled(q.records)
  BY <1>2 DEF CountedAgain, Summary
<1>. QED BY <1>3, <1>4, <1>5, <1>6 DEF AuthenticReviewed, Summary

-----------------------------------------------------------------------------
(* The knowledge view. *)

KnownOf(known, kind, s, field, decided) ==
    KnowledgeField(ReviewedOf(known, kind, s, field, decided))
KnownIn(known, kind, s, placed, decided) ==
    [j \in 1..Len(placed) |-> KnownOf(known, kind, s, placed[j], decided)]

ViewRecordTells(v, known, kind, s, placed, decided) ==
    LET fields == KnownIn(known, kind, s, placed, decided) IN
    /\ v.subject = s /\ v.title = TitleOf(fields) /\ v.sections = Sections(fields)
    /\ v.issues = IssuesOf(RawsIn(known, kind, s, placed))
    /\ v.review <=> \E j \in 1..Len(placed) :
                      ReviewedOf(known, kind, s, placed[j], decided).reviews > 0
ViewShape(view, known, kind, subjects, placed, decided) ==
    /\ view.kind = kind /\ DOMAIN view.records = 1..Len(subjects)
    /\ view.records = [i \in 1..Len(subjects) |-> view.records[i]]
    /\ \A i \in 1..Len(subjects) :
         ViewRecordTells(view.records[i], known, kind, subjects[i], placed, decided)
    /\ view.counts = ViewCounts(view.records)

LEMMA ViewIs ==
    ASSUME NEW known, NEW kind, NEW subjects, NEW placed, NEW decided, NEW q,
           ReviewedShape(q, known, kind, subjects, placed, decided)
    PROVE  ViewShape(View(q), known, kind, subjects, placed, decided)
<1> DEFINE records == [i \in DOMAIN q.records |-> KnowledgeRecord(q.records[i])]
           view == View(q)
<1>1. view = [kind |-> q.kind, records |-> records, counts |-> ViewCounts(records)]
  BY DEF View
<1>2. /\ q.kind = kind /\ DOMAIN q.records = 1..Len(subjects)
      /\ \A i \in 1..Len(subjects) :
           ReviewedRecordTells(q.records[i], known, kind, subjects[i], placed, decided)
  BY DEF ReviewedShape
<1>3. /\ DOMAIN records = 1..Len(subjects) /\ records = [i \in 1..Len(subjects) |-> records[i]]
      /\ \A i \in 1..Len(subjects) : records[i] = KnowledgeRecord(q.records[i])
  BY <1>2
<1>. HIDE DEF records, view
<1>4. view.kind = kind /\ view.records = records /\ view.counts = ViewCounts(records)
  BY <1>1, <1>2
<1>5. ASSUME NEW i \in 1..Len(subjects)
      PROVE  ViewRecordTells(records[i], known, kind, subjects[i], placed, decided)
  <2> DEFINE r == q.records[i]
             s == subjects[i]
             fields == KnownIn(known, kind, s, placed, decided)
             made == [j \in DOMAIN r.fields |-> KnowledgeField(r.fields[j])]
  <2>1. ReviewedRecordTells(r, known, kind, s, placed, decided)
    BY <1>2
  <2>2. records[i] = [subject |-> r.subject, title |-> TitleOf(made), issues |-> r.issues,
                      review |-> \E f \in Range(r.fields) : f.reviews > 0,
                      sections |-> Sections(made)]
    BY <1>3 DEF KnowledgeRecord
  <2>. HIDE DEF r, s
  <2>3. /\ r.subject = s /\ DOMAIN r.fields = 1..Len(placed)
        /\ \A j \in 1..Len(placed) : r.fields[j] = ReviewedOf(known, kind, s, placed[j], decided)
        /\ r.issues = IssuesOf(RawsIn(known, kind, s, placed))
    BY <2>1 DEF ReviewedRecordTells
  <2>4. made = fields
    BY <2>3 DEF KnownIn, KnownOf
  <2>5. (\E f \in Range(r.fields) : f.reviews > 0) <=>
          \E j \in 1..Len(placed) : ReviewedOf(known, kind, s, placed[j], decided).reviews > 0
    <3>1. \A f \in Range(r.fields) : \E j \in 1..Len(placed) : f = ReviewedOf(known, kind, s, placed[j], decided)
      BY <2>3 DEF Range
    <3>2. \A j \in 1..Len(placed) : ReviewedOf(known, kind, s, placed[j], decided) \in Range(r.fields)
      BY <2>3 DEF Range
    <3>. QED BY <3>1, <3>2
  <2> DEFINE review == \E f \in Range(r.fields) : f.reviews > 0
  <2>. HIDE DEF made, fields, review
  <2>6. /\ records[i].subject = r.subject /\ records[i].title = TitleOf(made)
        /\ records[i].issues = r.issues /\ records[i].sections = Sections(made)
        /\ records[i].review = review
    BY <2>2 DEF review
  <2>7. ViewRecordTells(records[i], known, kind, s, placed, decided)
    BY <2>3, <2>4, <2>5, <2>6 DEF ViewRecordTells, fields, review
  <2>. QED BY <2>7 DEF s
<1>. QED BY <1>3, <1>4, <1>5 DEF ViewShape, view

\* What a record of the view shows are the fields of its subject.
RecordShows(v, known, kind, s, placed, decided) ==
    LET fields == KnownIn(known, kind, s, placed, decided)
        flat == FieldsIn(v) IN
    /\ fields \in Seq(Range(fields)) /\ Len(fields) = Len(placed)
    /\ \A j \in 1..Len(placed) : fields[j] = KnownOf(known, kind, s, placed[j], decided)
    /\ flat \in Seq(Range(fields)) /\ flat = Sectioned(fields) /\ Range(flat) = Range(fields)
    /\ \A k \in Range(fields) : \E j \in 1..Len(placed) : k = KnownOf(known, kind, s, placed[j], decided)
    /\ \A j \in 1..Len(placed) : KnownOf(known, kind, s, placed[j], decided) \in Range(fields)

LEMMA RecordTells ==
    ASSUME NEW v, NEW known, NEW kind, NEW s, NEW placed, Len(placed) \in Nat, NEW decided,
           ViewRecordTells(v, known, kind, s, placed, decided)
    PROVE  RecordShows(v, known, kind, s, placed, decided)
<1> DEFINE fields == KnownIn(known, kind, s, placed, decided)
           flat == FieldsIn(v)
           n == Len(placed)
<1>1. v.sections = Sections(fields)
  BY DEF ViewRecordTells
<1>2. fields = [j \in 1..n |-> KnownOf(known, kind, s, placed[j], decided)]
  BY DEF KnownIn
<1>. HIDE DEF fields
<1>3. DOMAIN fields = 1..n /\ \A j \in 1..n : fields[j] = KnownOf(known, kind, s, placed[j], decided)
  BY <1>2
<1>4. fields \in Seq(Range(fields)) /\ Len(fields) = n
  <2> DEFINE R == Range(fields)
  <2>1. \A j \in 1..n : fields[j] \in R
    BY <1>3 DEF Range
  <2>2. fields \in [1..n -> R]
    <3>. HIDE DEF R
    <3>1. fields = [j \in 1..n |-> fields[j]]
      BY <1>2
    <3>. QED BY <2>1, <3>1
  <2>. HIDE DEF R, n
  <2>3. n \in Nat
    BY DEF n
  <2>4. fields \in Seq(R) /\ Len(fields) = n
    BY <2>2, <2>3, TableIsSeq
  <2>. QED BY <2>4 DEF R
<1>5. flat = Sectioned(fields)
  BY <1>1 DEF FieldsIn, Sectioned, PartsOf
<1>6. flat \in Seq(Range(fields)) /\ Range(flat) = Range(fields)
  BY <1>4, <1>5, SectionedHas
<1>7. \A k \in Range(fields) : \E j \in 1..n : k = KnownOf(known, kind, s, placed[j], decided)
  BY <1>3 DEF Range
<1>8. \A j \in 1..n : KnownOf(known, kind, s, placed[j], decided) \in Range(fields)
  BY <1>3 DEF Range
<1>. QED BY <1>3, <1>4, <1>5, <1>6, <1>7, <1>8 DEF RecordShows, fields

\* What a reader of a record asks, for fields that fit.
RecordIsAuthentic(r, kind) ==
    LET fields == FieldsIn(r) IN
    /\ Len(Titles(fields)) <= 1 /\ r.title = TitleOf(fields)
    /\ r.sections = Sections(fields)
    /\ \A f \in Range(fields) :
         /\ AuthenticField(AsReviewed(f), r.subject, kind)
         /\ f = KnowledgeField(AsReviewed(f)) /\ f.meanings = f.raw.values
    /\ r.review <=> \E f \in Range(fields) : f.state = "review_required"
    /\ r.issues = IssuesOf([i \in DOMAIN fields |-> fields[i].raw])

LEMMA FieldOfView ==
    ASSUME NEW known, FactsKnown(known), NEW decided, DecidedGiven(decided), NEW kind, NEW s,
           NEW field, FactsBind(RawOf(known, kind, s, field), decided)
    PROVE  LET k == KnownOf(known, kind, s, field, decided)
               g == ReviewedOf(known, kind, s, field, decided) IN
           /\ FieldTells(k, known, kind, s, field, decided) /\ AsReviewed(k) = g
           /\ AuthenticField(g, s, kind) /\ k.raw = RawOf(known, kind, s, field)
           /\ k.reviewed = g.reviewed /\ k.raw.field = field
           /\ g.reviews > 0 <=> k.state = "review_required"
<1>1. LET g == ReviewedField(RawOf(known, kind, s, field), decided)
          k == KnowledgeField(g) IN
      /\ FieldTells(k, known, kind, s, field, decided) /\ AsReviewed(k) = g
      /\ AuthenticField(g, s, kind) /\ g.raw = k.raw /\ g.reviewed = k.reviewed
      /\ g.reviews > 0 <=> k.state = "review_required"
  BY KnownFieldTells
<1> DEFINE k == KnownOf(known, kind, s, field, decided)
           g == ReviewedOf(known, kind, s, field, decided)
<1>2. /\ FieldTells(k, known, kind, s, field, decided) /\ AsReviewed(k) = g
      /\ AuthenticField(g, s, kind) /\ g.raw = k.raw /\ g.reviewed = k.reviewed
      /\ g.reviews > 0 <=> k.state = "review_required"
  BY <1>1 DEF KnownOf, ReviewedOf
<1>. HIDE DEF k, g
<1>3. g.raw = RawOf(known, kind, s, field)
  BY ReviewsOfField DEF FieldReviews, g
<1>4. k.raw.field = field
  BY <1>2 DEF FieldTells, RawTells
<1>. QED BY <1>2, <1>3, <1>4 DEF k, g

LEMMA RecordAuthentic ==
    ASSUME NEW known, FactsKnown(known), NEW decided, DecidedGiven(decided), NEW kind, NEW s,
           NEW fields \in Seq(FieldRows), NEW placed, placed = InPlaceOrder(fields), FieldsFit(fields),
           \A j \in 1..Len(placed) : FactsBind(RawOf(known, kind, s, placed[j]), decided),
           NEW v, ViewRecordTells(v, known, kind, s, placed, decided)
    PROVE  RecordIsAuthentic(v, kind)
<1> DEFINE list == KnownIn(known, kind, s, placed, decided)
           flat == FieldsIn(v)
           n == Len(placed)
           K(j) == KnownOf(known, kind, s, placed[j], decided)
<1>1. /\ placed \in Seq(FieldRows) /\ IsInjective(Keys(placed)) /\ IsInjective(placed)
      /\ \A f, g \in Range(placed) : f.title /\ g.title => f = g
  BY FieldsInPlace
<1>2. n \in Nat /\ DOMAIN placed = 1..n
  BY <1>1
<1>3. RecordShows(v, known, kind, s, placed, decided)
  BY <1>2, RecordTells
<1>4. /\ v.subject = s /\ v.title = TitleOf(list) /\ v.sections = Sections(list)
      /\ v.issues = IssuesOf(RawsIn(known, kind, s, placed))
      /\ v.review <=> \E j \in 1..n : ReviewedOf(known, kind, s, placed[j], decided).reviews > 0
  BY DEF ViewRecordTells
<1>5. ASSUME NEW j \in 1..n
      PROVE  /\ FieldTells(K(j), known, kind, s, placed[j], decided)
             /\ AsReviewed(K(j)) = ReviewedOf(known, kind, s, placed[j], decided)
             /\ AuthenticField(AsReviewed(K(j)), s, kind)
             /\ K(j).raw = RawOf(known, kind, s, placed[j]) /\ K(j).raw.field = placed[j]
             /\ (ReviewedOf(known, kind, s, placed[j], decided).reviews > 0
                   <=> K(j).state = "review_required")
  BY FieldOfView
<1>. HIDE DEF K
<1>6. /\ list \in Seq(Range(list)) /\ Len(list) = n /\ DOMAIN list = 1..n
      /\ \A j \in 1..n : list[j] = K(j) /\ K(j) \in Range(list)
      /\ flat \in Seq(Range(list)) /\ flat = Sectioned(list) /\ Range(flat) = Range(list)
      /\ \A k \in Range(list) : \E j \in 1..n : k = K(j)
  <2>1. /\ list \in Seq(Range(list)) /\ Len(list) = n
        /\ \A j \in 1..n : list[j] = K(j) /\ K(j) \in Range(list)
        /\ flat \in Seq(Range(list)) /\ flat = Sectioned(list) /\ Range(flat) = Range(list)
        /\ \A k \in Range(list) : \E j \in 1..n : k = K(j)
    BY <1>3 DEF RecordShows, K
  <2>. HIDE DEF list, flat, n
  <2>2. DOMAIN list = 1..n
    BY <2>1
  <2>. QED BY <2>1, <2>2
<1>. HIDE DEF list, flat
<1>7. \A j \in 1..n : list[j].raw.field = placed[j]
  BY <1>5, <1>6
<1>8. IsInjective(list)
  <2>1. \A i, j \in 1..n : placed[i] = placed[j] => i = j
    BY <1>1, <1>2 DEF IsInjective
  <2>2. \A i, j \in 1..n : list[i] = list[j] => placed[i] = placed[j]
    BY <1>7
  <2>. QED BY <1>6, <2>1, <2>2 DEF IsInjective
<1>9. IsInjective(flat) /\ Len(flat) = n
  BY <1>6, <1>8, SectionedHas
<1>10. OneTitle(Range(list))
  <2>1. \A f \in Range(list) : \E j \in 1..n : f = list[j]
    BY <1>6 DEF Range
  <2>2. \A i, j \in 1..n : list[i].raw.field.title /\ list[j].raw.field.title => list[i] = list[j]
    <3>1. \A j \in 1..n : placed[j] \in Range(placed)
      BY <1>2 DEF Range
    <3>2. \A i, j \in 1..n : placed[i].title /\ placed[j].title => i = j
      BY <1>1, <1>2, <3>1 DEF IsInjective
    <3>. QED BY <1>7, <3>2
  <2>. QED BY <2>1, <2>2 DEF OneTitle
<1>11. Len(Titles(flat)) <= 1 /\ TitleOf(flat) = TitleOf(list)
  BY <1>6, <1>9, <1>10, TitlesAgree
<1>12. Sections(flat) = Sections(list)
  BY <1>6, SectionsAgain
<1>13. \A f \in Range(flat) :
         /\ AuthenticField(AsReviewed(f), v.subject, kind)
         /\ f = KnowledgeField(AsReviewed(f)) /\ f.meanings = f.raw.values
  BY <1>4, <1>5, <1>6 DEF FieldTells
<1>14. v.review <=> \E f \in Range(flat) : f.state = "review_required"
  <2>1. v.review <=> \E j \in 1..n : K(j).state = "review_required"
    BY <1>4, <1>5
  <2>. QED BY <1>6, <2>1
<1>15. v.issues = IssuesOf([i \in DOMAIN flat |-> flat[i].raw])
  <2>1. RawsIn(known, kind, s, placed) = RawsOf(list)
    BY <1>5, <1>6 DEF RawsIn, RawsOf
  <2>2. \A f \in Range(list) : Len(f.raw.issues) \in Nat
    BY <1>5, <1>6 DEF FieldTells, RawTells
  <2>3. IssuesOf(RawsOf(flat)) = IssuesOf(RawsOf(list))
    BY <1>6, <1>8, <1>9, <2>2, IssuesAgree
  <2>. QED BY <1>4, <2>1, <2>3 DEF RawsOf
<1>. QED BY <1>4, <1>11, <1>12, <1>13, <1>14, <1>15 DEF RecordIsAuthentic, flat

-----------------------------------------------------------------------------
(* The whole view is what its readers build again, and a version of the project. *)

FieldsSeen(view) == UNION {Range(FieldsIn(r)) : r \in Range(view.records)}
ReviewsSeen(view) == UNION {Range(f.reviewed) : f \in FieldsSeen(view)}

LEMMA FieldsSeenAre ==
    ASSUME NEW known, NEW kind, NEW subjects, NEW placed, Len(placed) \in Nat, NEW decided, NEW view,
           ViewShape(view, known, kind, subjects, placed, decided)
    PROVE  /\ \A f \in FieldsSeen(view) : \E i \in 1..Len(subjects), j \in 1..Len(placed) :
                f = KnownOf(known, kind, subjects[i], placed[j], decided)
           /\ \A i \in 1..Len(subjects), j \in 1..Len(placed) :
                KnownOf(known, kind, subjects[i], placed[j], decided) \in FieldsSeen(view)
<1> DEFINE K(i, j) == KnownOf(known, kind, subjects[i], placed[j], decided)
<1>1. DOMAIN view.records = 1..Len(subjects)
  BY DEF ViewShape
<1>2. ASSUME NEW i \in 1..Len(subjects)
      PROVE  /\ \A f \in Range(FieldsIn(view.records[i])) : \E j \in 1..Len(placed) : f = K(i, j)
             /\ \A j \in 1..Len(placed) : K(i, j) \in Range(FieldsIn(view.records[i]))
  <2> DEFINE v == view.records[i]
             s == subjects[i]
             fields == KnownIn(known, kind, s, placed, decided)
  <2>1. ViewRecordTells(v, known, kind, s, placed, decided)
    BY DEF ViewShape
  <2>. HIDE DEF v, s
  <2>2. RecordShows(v, known, kind, s, placed, decided)
    BY <2>1, RecordTells
  <2>3. /\ Range(FieldsIn(v)) = Range(fields)
        /\ \A k \in Range(fields) : \E j \in 1..Len(placed) : k = KnownOf(known, kind, s, placed[j], decided)
        /\ \A j \in 1..Len(placed) : KnownOf(known, kind, s, placed[j], decided) \in Range(fields)
    BY <2>2 DEF RecordShows
  <2>. QED BY <2>3 DEF v, s
<1>. HIDE DEF K
<1>3. /\ \A r \in Range(view.records) : \E i \in 1..Len(subjects) : r = view.records[i]
      /\ \A i \in 1..Len(subjects) : view.records[i] \in Range(view.records)
  BY <1>1 DEF Range
<1>4. ASSUME NEW f \in FieldsSeen(view)
      PROVE  \E i \in 1..Len(subjects), j \in 1..Len(placed) : f = K(i, j)
  <2>1. PICK r \in Range(view.records) : f \in Range(FieldsIn(r))
    BY DEF FieldsSeen
  <2>2. PICK i \in 1..Len(subjects) : r = view.records[i]
    BY <1>3, <2>1
  <2>3. f \in Range(FieldsIn(view.records[i]))
    BY <2>1, <2>2
  <2>. QED BY <1>2, <2>2, <2>3
<1>5. ASSUME NEW i \in 1..Len(subjects), NEW j \in 1..Len(placed) PROVE K(i, j) \in FieldsSeen(view)
  BY <1>2, <1>3 DEF FieldsSeen
<1>. QED BY <1>4, <1>5 DEF K

LEMMA SameReviewsSeen ==
    ASSUME NEW known, FactsKnown(known), NEW kind, NEW subjects, NEW placed, Len(placed) \in Nat,
           NEW decided, DecidedGiven(decided), AllBind(known, kind, subjects, placed, decided),
           NEW q, ReviewedShape(q, known, kind, subjects, placed, decided),
           NEW view, ViewShape(view, known, kind, subjects, placed, decided)
    PROVE  ReviewsSeen(view) = EachReviewed(q.records)
<1> DEFINE K(i, j) == KnownOf(known, kind, subjects[i], placed[j], decided)
           G(i, j) == ReviewedOf(known, kind, subjects[i], placed[j], decided)
<1>1. /\ \A f \in FieldsSeen(view) : \E i \in 1..Len(subjects), j \in 1..Len(placed) : f = K(i, j)
      /\ \A i \in 1..Len(subjects), j \in 1..Len(placed) : K(i, j) \in FieldsSeen(view)
  BY FieldsSeenAre
<1>2. \A r : r \in EachReviewed(q.records) <=>
        \E i \in 1..Len(subjects), j \in 1..Len(placed) : r \in Range(G(i, j).reviewed)
  BY EachReviewedIs
<1>3. \A i \in 1..Len(subjects), j \in 1..Len(placed) : K(i, j).reviewed = G(i, j).reviewed
  BY FieldOfView DEF AllBind
<1>. HIDE DEF K, G
<1>4. \A r : r \in ReviewsSeen(view) <=> \E f \in FieldsSeen(view) : r \in Range(f.reviewed)
  BY DEF ReviewsSeen
<1>5. \A r \in ReviewsSeen(view) : r \in EachReviewed(q.records)
  BY <1>1, <1>2, <1>3, <1>4
<1>6. \A r \in EachReviewed(q.records) : r \in ReviewsSeen(view)
  BY <1>1, <1>2, <1>3, <1>4
<1>. QED BY <1>5, <1>6

LEMMA ViewAuthentic ==
    ASSUME NEW kind, NEW fields \in Seq(FieldRows), NEW known, FactsKnown(known), NEW filter,
           filter.keys \in Seq(Nat), NEW p, NEW q, NEW view, NEW subjects, NEW placed, NEW decided,
           DecidedGiven(decided), AllBind(known, kind, subjects, placed, decided),
           placed = InPlaceOrder(fields), subjects = SubjectsAsked(kind, known, filter),
           RawShape(p, known, kind, subjects, placed), FieldsFit(fields), FilterFits(filter),
           ReviewedShape(q, known, kind, subjects, placed, decided),
           ViewShape(view, known, kind, subjects, placed, decided)
    PROVE  AuthenticView(view, filter)
<1>1. Len(placed) \in Nat
  BY FieldsInPlace
<1>2. /\ view.kind = kind /\ DOMAIN view.records = 1..Len(subjects)
      /\ \A i \in 1..Len(subjects) :
           ViewRecordTells(view.records[i], known, kind, subjects[i], placed, decided)
      /\ view.counts = ViewCounts(view.records)
  BY DEF ViewShape
<1>3. SubjectsFit(view.records, filter)
  <2>1. SubjectsFit(p.records, filter)
    BY RawIsAuthentic
  <2> DEFINE told == [i \in DOMAIN p.records |-> p.records[i].subject]
             again == [i \in DOMAIN view.records |-> view.records[i].subject]
             Fits(t) == /\ IsInjective(t)
                        /\ IF filter.given THEN t = filter.keys
                           ELSE \A i, j \in DOMAIN t : i < j => t[i] < t[j]
  <2>3. SubjectsFit(p.records, filter) = Fits(told) /\ SubjectsFit(view.records, filter) = Fits(again)
    BY DEF SubjectsFit
  <2>4. told = again
    <3>1. \A i \in 1..Len(subjects) : view.records[i].subject = subjects[i]
      BY <1>2 DEF ViewRecordTells
    <3>2. DOMAIN p.records = 1..Len(subjects) /\ \A i \in 1..Len(subjects) : p.records[i].subject = subjects[i]
      BY DEF RawShape, RawRecordTells
    <3>. QED BY <1>2, <3>1, <3>2
  <2>. HIDE DEF told, again, Fits
  <2>. QED BY <2>1, <2>3, <2>4
<1> DEFINE seen == UNION {UNION {Range(f.reviewed) : f \in Range(FieldsIn(r))} : r \in Range(view.records)}
<1>4. OneToOne(seen, LAMBDA r : r.fact.id)
  <2>1. ReviewedWell(EachReviewed(q.records), known, kind, subjects, placed, decided)
    BY EachIsReviewed
  <2>2. ReviewsSeen(view) = EachReviewed(q.records)
    BY <1>1, SameReviewsSeen
  <2>3. seen \subseteq ReviewsSeen(view)
    BY DEF FieldsSeen, ReviewsSeen
  <2>. HIDE DEF seen
  <2>4. \A r, t \in EachReviewed(q.records) : r.fact.id = t.fact.id => r = t
    BY <2>1 DEF ReviewedWell
  <2>5. \A r, t \in seen : r.fact.id = t.fact.id => r = t
    BY <2>2, <2>3, <2>4
  <2>. QED BY <2>5 DEF OneToOne
<1>5. ASSUME NEW r \in Range(view.records) PROVE RecordIsAuthentic(r, view.kind)
  <2>1. PICK i \in 1..Len(subjects) : r = view.records[i]
    BY <1>2 DEF Range
  <2> DEFINE s == subjects[i]
  <2>2. ViewRecordTells(r, known, kind, s, placed, decided)
    BY <1>2, <2>1
  <2>3. \A j \in 1..Len(placed) : FactsBind(RawOf(known, kind, s, placed[j]), decided)
    BY DEF AllBind
  <2>. HIDE DEF s
  <2>4. RecordIsAuthentic(r, kind)
    BY <2>2, <2>3, RecordAuthentic
  <2>. QED BY <1>2, <2>4
<1>. HIDE DEF seen
<1>6. /\ SubjectsFit(view.records, filter)
      /\ OneToOne(seen, LAMBDA r : r.fact.id)
      /\ \A r \in Range(view.records) : RecordIsAuthentic(r, view.kind)
      /\ view.counts = ViewCounts(view.records)
  BY <1>2, <1>3, <1>4, <1>5
<1>. QED BY <1>6 DEF AuthenticView, RecordIsAuthentic, seen

LEMMA VersionAuthentic ==
    ASSUME NEW kind, NEW known, FactsKnown(known), NEW view, NEW subjects, NEW placed, NEW decided,
           DecidedGiven(decided), AllBind(known, kind, subjects, placed, decided),
           Len(placed) \in Nat, Len(subjects) \in Nat,
           ViewShape(view, known, kind, subjects, placed, decided), AuthenticView(view, Everything)
    PROVE  AuthenticVersion(Kept(view, "manual", 0))
<1> DEFINE parts == [i \in DOMAIN view.records |-> FieldsIn(view.records[i])]
           flat == FlattenSeq(parts)
           F == FieldsSeen(view)
<1>1. DOMAIN view.records = 1..Len(subjects) /\ view.counts = ViewCounts(view.records)
  BY DEF ViewShape
<1>2. \A i \in 1..Len(subjects) : FieldsIn(view.records[i]) \in Seq(F)
  <2> SUFFICES ASSUME NEW i \in 1..Len(subjects) PROVE FieldsIn(view.records[i]) \in Seq(F)
    OBVIOUS
  <2> DEFINE v == view.records[i]
             s == subjects[i]
             list == KnownIn(known, kind, s, placed, decided)
             R == Range(list)
  <2>1. ViewRecordTells(v, known, kind, s, placed, decided)
    BY DEF ViewShape
  <2>2. v \in Range(view.records)
    BY <1>1 DEF Range
  <2>. HIDE DEF v, s
  <2>3. RecordShows(v, known, kind, s, placed, decided)
    BY <2>1, RecordTells
  <2>4. FieldsIn(v) \in Seq(R) /\ Range(FieldsIn(v)) = R
    BY <2>3 DEF RecordShows
  <2>5. R \subseteq F
    BY <2>2, <2>4 DEF FieldsSeen
  <2>. HIDE DEF F, R
  <2>6. FieldsIn(v) \in Seq(F)
    <3>1. ASSUME NEW w \in Seq(R) PROVE w \in Seq(F)
      <4>1. \A k \in 1..Len(w) : w[k] \in F
        BY <2>5
      <4>2. Len(w) \in Nat /\ w = [k \in 1..Len(w) |-> w[k]]
        OBVIOUS
      <4>3. w \in [1..Len(w) -> F]
        BY <4>1, <4>2
      <4>. QED BY <4>2, <4>3, TableIsSeq
    <3>. QED BY <2>4, <3>1
  <2>. QED BY <2>6 DEF v
<1>3. \A f \in F : f.state \in KnowledgeStates
  <2>1. \A f \in F : \E i \in 1..Len(subjects), j \in 1..Len(placed) :
                f = KnownOf(known, kind, subjects[i], placed[j], decided)
    BY FieldsSeenAre
  <2>2. \A i \in 1..Len(subjects), j \in 1..Len(placed) :
          KnownOf(known, kind, subjects[i], placed[j], decided).state \in KnowledgeStates
    <3> SUFFICES ASSUME NEW i \in 1..Len(subjects), NEW j \in 1..Len(placed)
                 PROVE  KnownOf(known, kind, subjects[i], placed[j], decided).state \in KnowledgeStates
      OBVIOUS
    <3> DEFINE k == KnownOf(known, kind, subjects[i], placed[j], decided)
    <3>1. FieldTells(k, known, kind, subjects[i], placed[j], decided)
      BY FieldOfView DEF AllBind
    <3>. HIDE DEF k
    <3>. QED BY <3>1 DEF FieldTells, k
  <2>. HIDE DEF F
  <2>. QED BY <2>1, <2>2
<1>. HIDE DEF F
<1>4. parts \in Seq(Seq(F))
  <2>1. parts \in [1..Len(subjects) -> Seq(F)]
    BY <1>1, <1>2
  <2>. HIDE DEF parts
  <2>. QED BY <2>1, TableIsSeq
<1>. HIDE DEF parts
<1>5. flat \in Seq(F)
  BY <1>4, FlattenRange
<1> DEFINE n == Len(flat)
           count == [s \in KnowledgeStates |-> Cardinality({i \in DOMAIN flat : flat[i].state = s})]
           counts == ViewCounts(view.records)
<1>6. counts.fields = n /\ counts.states = count
  BY DEF ViewCounts, parts
<1>7. SumOver(count) = n
  <2>1. n \in Nat /\ DOMAIN flat = 1..n /\ \A i \in 1..n : flat[i] \in F
    BY <1>5
  <2>. HIDE DEF flat
  <2> DEFINE state == [i \in 1..n |-> flat[i].state]
             w == count
  <2>2. \A i \in 1..n : state[i] \in KnowledgeStates
    BY <1>3, <2>1
  <2>3. \A s \in KnowledgeStates : w[s] = HowMany(state, n, s)
    <3> SUFFICES ASSUME NEW s \in KnowledgeStates
                 PROVE  w[s] = Cardinality({i \in 1..n : state[i] = s})
      BY DEF HowMany
    <3>1. {i \in DOMAIN flat : flat[i].state = s} = {i \in 1..n : state[i] = s}
      BY <2>1
    <3>. QED BY <3>1
  <2>4. IsFiniteSet(KnowledgeStates)
    <3> DEFINE two == {"missing", "review_required"}
               three == {"resolved", "observation_only", "mixed_reviewed_observation"}
    <3>1. IsFiniteSet(two) /\ IsFiniteSet(three)
      <4>1. IsFiniteSet({"missing"}) /\ IsFiniteSet({"resolved"})
        BY FS_Singleton
      <4>2. IsFiniteSet({"missing"} \cup {"review_required"})
        BY <4>1, FS_AddElement
      <4>3. IsFiniteSet({"resolved"} \cup {"observation_only"})
        BY <4>1, FS_AddElement
      <4>4. IsFiniteSet({"resolved"} \cup {"observation_only"} \cup {"mixed_reviewed_observation"})
        BY <4>3, FS_AddElement
      <4>5. /\ two = {"missing"} \cup {"review_required"}
            /\ three = {"resolved"} \cup {"observation_only"} \cup {"mixed_reviewed_observation"}
        OBVIOUS
      <4>. QED BY <4>2, <4>4, <4>5
    <3>2. KnowledgeStates = two \cup three
      BY DEF KnowledgeStates
    <3>. HIDE DEF two, three
    <3>. QED BY <3>1, <3>2, FS_Union
  <2>5. DOMAIN w = KnowledgeStates
    OBVIOUS
  <2>. HIDE DEF w, state, n
  <2>6. Total(w, KnowledgeStates) = n
    BY <2>1, <2>2, <2>3, <2>4, CountsMakeTheWhole
  <2>7. SumOver(w) = n
    BY <2>5, <2>6 DEF SumOver
  <2>. QED BY <2>7 DEF w
<1>8. LET version == Kept(view, "manual", 0) IN
      /\ version.view = view /\ version.counts = view.counts /\ version.kind = "manual"
      /\ version.copied = 0
  BY DEF Kept
<1>. HIDE DEF counts, count, n
<1>. QED BY <1>1, <1>6, <1>7, <1>8 DEF AuthenticVersion, NoVersion, counts

-----------------------------------------------------------------------------
(* What is not decided is not shown as known, and scopes are apart. *)

LEMMA ReviewOf ==
    ASSUME NEW decided, DecidedGiven(decided), NEW f, NEW e \in Range(decided), e.fact = f.id
    PROVE  TellsOf(ReviewedFact(f, decided), e)
<1> DEFINE r == ReviewedFact(f, decided)
<1>1. ReviewTells(r, f, decided)
  BY ReviewedFactTells
<1>. HIDE DEF r
<1>2. PICK d \in Range(decided) : d.fact = f.id /\ TellsOf(r, d)
  BY <1>1 DEF ReviewTells
<1>3. d = e
  BY <1>2 DEF DecidedGiven
<1>. QED BY <1>2, <1>3 DEF r

LEMMA UndecidedField ==
    ASSUME NEW known, FactsKnown(known), NEW decided, DecidedGiven(decided), NEW kind, NEW s,
           NEW field, FactsBind(RawOf(known, kind, s, field), decided),
           NEW g \in Range(RawOf(known, kind, s, field).facts), NEW e \in Range(decided),
           e.fact = g.id, e.resolution.status # "resolved"
    PROVE  LET k == KnownOf(known, kind, s, field, decided) IN
           k.state = "review_required" /\ Range(k.values) \cap Range(FactValues(g)) = {}
<1> DEFINE k == KnownOf(known, kind, s, field, decided)
           h == RawOf(known, kind, s, field)
           late == ReviewedFact(g, decided)
<1>1. FieldTells(k, known, kind, s, field, decided) /\ k.raw = h
  BY FieldOfView
<1>2. OwnFacts(h.facts, known, kind, s, field)
  BY RawFieldTells DEF RawTells
<1>3. h.facts \in Seq(KnownRows) /\ Range(h.facts) \subseteq Range(known)
  BY <1>2 DEF OwnFacts
<1>. HIDE DEF k
<1>4. /\ k.reviewed = ReviewsOf(h.facts, decided) /\ k.values = Shown(k.reviewed)
      /\ k.state = "review_required" <=> \E r \in Range(k.reviewed) : r.review
  BY <1>1 DEF FieldTells
<1>5. /\ DOMAIN k.reviewed = 1..Len(h.facts) /\ Len(h.facts) \in Nat /\ DOMAIN h.facts = 1..Len(h.facts)
      /\ \A i \in DOMAIN k.reviewed : ReviewTells(k.reviewed[i], h.facts[i], decided)
      /\ Range(k.reviewed) = {ReviewedFact(f, decided) : f \in Range(h.facts)}
  BY <1>3, <1>4, ReviewsTell
<1>a. FactsBind(h, decided) /\ g \in Range(h.facts)
  OBVIOUS
<1>. HIDE DEF h
<1>6. late \in Range(k.reviewed) /\ TellsOf(late, e)
  BY <1>5, <1>a, ReviewOf
<1>. HIDE DEF late
<1>7. late.review /\ late.state # "resolved"
  <2>1. late.state = e.resolution.status /\ late.review = NeedsReview(e.resolution.status)
    BY <1>6 DEF TellsOf
  <2>2. AuthenticItem(e)
    BY DEF DecidedGiven
  <2>3. e.resolution.status \in {"pending_review", "unreviewed_compatible", "deferred"}
    BY <2>2 DEF AuthenticItem
  <2>. QED BY <2>1, <2>3 DEF NeedsReview
<1>8. k.state = "review_required"
  BY <1>4, <1>6, <1>7
<1> DEFINE seqs == [i \in DOMAIN k.reviewed |->
                      IF k.reviewed[i].state = "resolved" THEN k.reviewed[i].values ELSE << >>]
           n == Len(h.facts)
<1>9. \A i \in 1..n : /\ h.facts[i] \in Range(h.facts) /\ h.facts[i] \in Range(known)
                      /\ BindsAll(h.facts[i], decided) /\ IsInjective(FactValues(h.facts[i]))
  <2>1. \A i \in 1..n : h.facts[i] \in Range(h.facts)
    BY <1>5 DEF Range
  <2>. QED BY <1>3, <1>a, <2>1 DEF FactsBind, FactsKnown
<1>10. \A i \in 1..n : /\ k.reviewed[i].values \in Seq(Nat) /\ k.reviewed[i].fact = h.facts[i]
                       /\ Range(k.reviewed[i].values) \subseteq Range(FactValues(h.facts[i]))
  <2> SUFFICES ASSUME NEW i \in 1..n
               PROVE  /\ k.reviewed[i].values \in Seq(Nat) /\ k.reviewed[i].fact = h.facts[i]
                      /\ Range(k.reviewed[i].values) \subseteq Range(FactValues(h.facts[i]))
    OBVIOUS
  <2> DEFINE r == k.reviewed[i]
             f == h.facts[i]
  <2>1. ReviewTells(r, f, decided) /\ BindsAll(f, decided) /\ IsInjective(FactValues(f))
    BY <1>5, <1>9
  <2>. HIDE DEF r, f
  <2>2. DetailFits(r) /\ r.fact = f
    BY <2>1, ReviewFits DEF ReviewTells
  <2>. QED BY <2>2 DEF DetailFits, r, f
<1>11. seqs \in Seq(Seq(Nat)) /\ Len(seqs) = n /\ Range(k.values) = RangesTo(seqs, n)
  <2>1. seqs \in [1..n -> Seq(Nat)]
    <3>1. << >> \in Seq(Nat)
      OBVIOUS
    <3>. QED BY <1>5, <1>10, <3>1
  <2>2. k.values = FlattenSeq(seqs)
    BY <1>4 DEF Shown
  <2>. HIDE DEF seqs, n
  <2>3. n \in Nat
    BY <1>5 DEF n
  <2>4. seqs \in Seq(Seq(Nat)) /\ Len(seqs) = n
    BY <2>1, <2>3, TableIsSeq
  <2>5. Range(FlattenSeq(seqs)) = RangesTo(seqs, Len(seqs))
    BY <2>4, FlattenRange
  <2>. QED BY <2>2, <2>4, <2>5
<1>12. ASSUME NEW x \in Range(k.values), x \in Range(FactValues(g)) PROVE FALSE
  <2>1. PICK i \in 1..n : x \in Range(seqs[i])
    BY <1>11 DEF RangesTo
  <2>2. seqs[i] = IF k.reviewed[i].state = "resolved" THEN k.reviewed[i].values ELSE << >>
    BY <1>5, <2>1
  <2>3. Range(<< >>) = {}
    BY DEF Range
  <2>4. k.reviewed[i].state = "resolved" /\ x \in Range(k.reviewed[i].values)
    BY <2>1, <2>2, <2>3
  <2>5. x \in Range(FactValues(h.facts[i])) /\ h.facts[i] \in Range(known)
    BY <1>9, <1>10, <2>1, <2>4
  <2>6. g \in Range(known)
    BY <1>3, <1>a
  <2>7. h.facts[i] = g
    BY <1>12, <2>5, <2>6 DEF FactsKnown
  <2>8. k.reviewed[i] = ReviewedFact(g, decided)
    BY <1>5, <2>1, <2>7 DEF ReviewTells
  <2>. QED BY <1>7, <2>4, <2>8 DEF late
<1>. QED BY <1>8, <1>12 DEF k

LEMMA ScopesApart ==
    ASSUME NEW known, FactsKnown(known), NEW kind, NEW s, NEW field, NEW t, NEW other,
           field.one, other.one, field.scope # other.scope
    PROVE  Range(RawOf(known, kind, s, field).facts) \cap Range(RawOf(known, kind, t, other).facts) = {}
<1>1. /\ OwnFacts(RawOf(known, kind, s, field).facts, known, kind, s, field)
      /\ OwnFacts(RawOf(known, kind, t, other).facts, known, kind, t, other)
  BY RawFieldTells DEF RawTells
<1>2. /\ \A f \in Range(RawOf(known, kind, s, field).facts) : Belongs(field, f)
      /\ \A f \in Range(RawOf(known, kind, t, other).facts) : Belongs(other, f)
  BY <1>1 DEF OwnFacts
<1>3. \A f : ~(Belongs(field, f) /\ Belongs(other, f))
  BY DEF Belongs
<1>. QED BY <1>2, <1>3

CorruptIsTold(p, fields, known) ==
    \A r \in Range(p.records) :
        LET facts == Where(known, LAMBDA f : f.kind = p.kind /\ f.subject = r.subject) IN
        LiveRecord(fields, facts, TRUE).corrupt <=>
            \E f \in Range(r.fields) : "multiple_facts" \in Range(f.issues)

LEMMA CorruptTold ==
    ASSUME NEW kind, NEW fields \in Seq(FieldRows), NEW known, FactsKnown(known), NEW subjects,
           NEW placed, placed = InPlaceOrder(fields), NEW p, RawShape(p, known, kind, subjects, placed)
    PROVE  CorruptIsTold(p, fields, known)
<1>1. placed \in Seq(FieldRows) /\ Len(placed) \in Nat /\ DOMAIN placed = 1..Len(placed)
  BY FieldsInPlace
<1>2. p.kind = kind /\ DOMAIN p.records = 1..Len(subjects)
  BY DEF RawShape
<1> SUFFICES ASSUME NEW r \in Range(p.records)
             PROVE  LET facts == Where(known, LAMBDA f : f.kind = p.kind /\ f.subject = r.subject) IN
                    LiveRecord(fields, facts, TRUE).corrupt <=>
                        \E f \in Range(r.fields) : "multiple_facts" \in Range(f.issues)
  BY DEF CorruptIsTold
<1>3. PICK i \in 1..Len(subjects) : r = p.records[i]
  BY <1>2 DEF Range
<1> DEFINE s == subjects[i]
           facts == Where(known, LAMBDA f : f.kind = p.kind /\ f.subject = r.subject)
           mine == FactsOf(known, kind, s)
           shown == Where(placed, LAMBDA f : TRUE \/ ~f.hidden)
<1>4. RawRecordTells(r, known, kind, s, placed)
  BY <1>3 DEF RawShape
<1>5. r.subject = s /\ r.fields = RawsIn(known, kind, s, placed)
  BY <1>4 DEF RawRecordTells
<1>6. facts = mine
  <2>1. facts = Picked(known, {n \in DOMAIN known : known[n].kind = p.kind /\ known[n].subject = r.subject})
    BY DEF Where
  <2>2. {n \in DOMAIN known : known[n].kind = p.kind /\ known[n].subject = r.subject} = PlacesAbout(known, kind, s)
    BY <1>2, <1>5 DEF PlacesAbout, IsAbout
  <2>3. mine = Picked(known, PlacesAbout(known, kind, s))
    BY FactsOfIs DEF FactsKnown
  <2>. QED BY <2>1, <2>2, <2>3
<1>7. shown = placed
  <2>1. shown = Picked(placed, {n \in DOMAIN placed : TRUE \/ ~placed[n].hidden})
    BY DEF Where
  <2>2. {n \in DOMAIN placed : TRUE \/ ~placed[n].hidden} = 1..Len(placed)
    BY <1>1
  <2>. QED BY <1>1, <2>1, <2>2, PickedAll
<1>8. LiveRecord(fields, facts, TRUE).corrupt =
        (\E j \in DOMAIN shown : shown[j].one /\ Len(Matching(shown[j], facts)) > 1)
  BY DEF LiveRecord
<1>. HIDE DEF facts, shown, mine
<1>9. LiveRecord(fields, facts, TRUE).corrupt <=>
        \E j \in 1..Len(placed) : placed[j].one /\ Len(Matching(placed[j], mine)) > 1
  BY <1>1, <1>6, <1>7, <1>8
<1>10. \A j \in 1..Len(placed) :
         placed[j].one /\ Len(Matching(placed[j], mine)) > 1 <=>
           "multiple_facts" \in Range(RawOf(known, kind, s, placed[j]).issues)
  <2> SUFFICES ASSUME NEW j \in 1..Len(placed)
               PROVE  placed[j].one /\ Len(Matching(placed[j], mine)) > 1 <=>
                        "multiple_facts" \in Range(RawOf(known, kind, s, placed[j]).issues)
    OBVIOUS
  <2> DEFINE field == placed[j]
             h == RawOf(known, kind, s, field)
  <2>1. RawTells(h, known, kind, s, field)
    BY RawFieldTells
  <2>2. h.facts = Matching(field, mine)
    BY DEF RawOf, RawField, mine
  <2>. HIDE DEF h, field
  <2>3. "multiple_facts" \in Range(h.issues) <=> field.one /\ Len(h.facts) > 1
    BY <2>1 DEF RawTells
  <2>. QED BY <2>2, <2>3 DEF h, field
<1>11. (\E f \in Range(r.fields) : "multiple_facts" \in Range(f.issues)) <=>
         \E j \in 1..Len(placed) : "multiple_facts" \in Range(RawOf(known, kind, s, placed[j]).issues)
  <2>1. /\ \A f \in Range(r.fields) : \E j \in 1..Len(placed) : f = RawOf(known, kind, s, placed[j])
        /\ \A j \in 1..Len(placed) : RawOf(known, kind, s, placed[j]) \in Range(r.fields)
    BY <1>5 DEF RawsIn, Range
  <2>. QED BY <2>1
<1>12. LiveRecord(fields, facts, TRUE).corrupt <=>
         \E f \in Range(r.fields) : "multiple_facts" \in Range(f.issues)
  BY <1>9, <1>10, <1>11
<1>. QED BY <1>12 DEF facts

-----------------------------------------------------------------------------
(* The entries of a projection: every reviewed fact with the fields that show it. *)

EntryRows(set) == [reviewed : set, field : Nat]
EntriesOf(g) ==
    [n \in DOMAIN g.reviewed |-> [reviewed |-> g.reviewed[n], field |-> g.raw.field.key]]
EntriesOfRecord(r) == FlattenSeq([j \in DOMAIN r.fields |-> EntriesOf(r.fields[j])])

\* A field that shows a reviewed fact, and its place.
ShowsAt(i, j, r, known, kind, subjects, placed, decided) ==
    r \in Range(ReviewedOf(known, kind, subjects[i], placed[j], decided).reviewed)

EntriesTell(entries, set, known, kind, subjects, placed, decided) ==
    /\ entries \in Seq(EntryRows(set))
    /\ \A e \in Range(entries) : \E i \in 1..Len(subjects), j \in 1..Len(placed) :
         ShowsAt(i, j, e.reviewed, known, kind, subjects, placed, decided) /\ e.field = placed[j].key
    /\ \A i \in 1..Len(subjects), j \in 1..Len(placed) : \A r \in set :
         ShowsAt(i, j, r, known, kind, subjects, placed, decided) =>
            \E e \in Range(entries) : e.reviewed = r /\ e.field = placed[j].key

LEMMA RangeOfTable ==
    ASSUME NEW n \in Nat, NEW seq, DOMAIN seq = 1..n
    PROVE  /\ \A x \in Range(seq) : \E i \in 1..n : x = seq[i]
           /\ \A i \in 1..n : seq[i] \in Range(seq)
BY DEF Range

LEMMA EntriesAre ==
    ASSUME NEW known, FactsKnown(known), NEW kind, NEW subjects \in Seq(Nat),
           NEW placed \in Seq(FieldRows), NEW decided,
           NEW q, ReviewedShape(q, known, kind, subjects, placed, decided)
    PROVE  EntriesTell(Entries(q), EachReviewed(q.records), known, kind, subjects, placed, decided)
<1> DEFINE set == EachReviewed(q.records)
           E == EntryRows(set)
           G(i, j) == ReviewedOf(known, kind, subjects[i], placed[j], decided)
           N == Len(subjects)
           M == Len(placed)
           parts == [i \in DOMAIN q.records |-> EntriesOfRecord(q.records[i])]
<1>1. N \in Nat /\ M \in Nat /\ DOMAIN placed = 1..M /\ \A j \in 1..M : placed[j].key \in Nat
  <2>1. M \in Nat /\ DOMAIN placed = 1..M /\ \A j \in 1..M : placed[j] \in FieldRows
    OBVIOUS
  <2>2. \A field \in FieldRows : field.key \in Nat
    BY DEF FieldRows
  <2>3. N \in Nat
    OBVIOUS
  <2>. QED BY <2>1, <2>2, <2>3
<1>2. /\ DOMAIN q.records = 1..N
      /\ \A i \in 1..N : DOMAIN q.records[i].fields = 1..M
           /\ \A j \in 1..M : q.records[i].fields[j] = G(i, j)
  BY DEF ReviewedShape, ReviewedRecordTells
<1>3. \A i \in 1..N, j \in 1..M : FieldReviews(G(i, j), known, kind, subjects[i], placed[j], decided)
  BY ReviewsOfField
<1>5. \A r : r \in set <=> \E i \in 1..N, j \in 1..M : r \in Range(G(i, j).reviewed)
  BY EachReviewedIs
<1>6. Entries(q) = FlattenSeq(parts)
  BY DEF Entries, EntriesOfRecord, EntriesOf
<1>7. \A i \in 1..N, j \in 1..M : \A r :
        ShowsAt(i, j, r, known, kind, subjects, placed, decided) <=> r \in Range(G(i, j).reviewed)
  BY DEF ShowsAt
<1>8. \A i \in 1..N, j \in 1..M : G(i, j).raw.field = placed[j]
  <2>1. \A i \in 1..N, j \in 1..M : RawOf(known, kind, subjects[i], placed[j]).field = placed[j]
    BY RawFieldTells DEF RawTells
  <2>. HIDE DEF G
  <2>. QED BY <1>3, <2>1 DEF FieldReviews
<1>. HIDE DEF set, G, N, M
<1>9. ASSUME NEW i \in 1..N, NEW j \in 1..M
      PROVE  LET w == EntriesOf(G(i, j)) IN
             /\ w \in Seq(E)
             /\ \A e \in Range(w) : e.reviewed \in Range(G(i, j).reviewed) /\ e.field = placed[j].key
             /\ \A r \in Range(G(i, j).reviewed) : \E e \in Range(w) : e.reviewed = r /\ e.field = placed[j].key
  <2> DEFINE g == G(i, j)
             field == placed[j]
             w == EntriesOf(g)
             n == Len(g.raw.facts)
  <2>1. FieldReviews(g, known, kind, subjects[i], field, decided)
    BY <1>3
  <2>2. g.raw.field = field /\ field.key \in Nat /\ \A r \in Range(g.reviewed) : r \in set
    BY <1>1, <1>5, <1>8
  <2>. HIDE DEF g, field
  <2>3. g.raw.facts \in Seq(KnownRows) /\ g.reviewed = ReviewsOf(g.raw.facts, decided)
    BY <2>1 DEF FieldReviews
  <2>4. DOMAIN g.reviewed = 1..n /\ n \in Nat
    BY <2>3, ReviewsTell
  <2>5. w = [k \in 1..n |-> [reviewed |-> g.reviewed[k], field |-> field.key]]
    BY <2>2, <2>4 DEF EntriesOf
  <2>. HIDE DEF w, n, E
  <2>6. /\ \A r \in Range(g.reviewed) : \E k \in 1..n : r = g.reviewed[k]
        /\ \A k \in 1..n : g.reviewed[k] \in Range(g.reviewed)
    BY <2>4, RangeOfTable
  <2>7. DOMAIN w = 1..n /\ \A k \in 1..n : w[k] = [reviewed |-> g.reviewed[k], field |-> field.key]
    BY <2>5
  <2>8. /\ \A e \in Range(w) : \E k \in 1..n : e = w[k]
        /\ \A k \in 1..n : w[k] \in Range(w)
    BY <2>4, <2>7, RangeOfTable
  <2>9. \A k \in 1..n : w[k].reviewed = g.reviewed[k] /\ w[k].field = field.key /\ w[k] \in E
    BY <2>2, <2>6, <2>7 DEF E, EntryRows
  <2>10. w \in Seq(E)
    <3>1. w \in [1..n -> E]
      BY <2>5, <2>7, <2>9
    <3>. QED BY <2>4, <3>1, TableIsSeq
  <2>11. \A e \in Range(w) : e.reviewed \in Range(g.reviewed) /\ e.field = field.key
    BY <2>6, <2>8, <2>9
  <2>12. \A r \in Range(g.reviewed) : \E e \in Range(w) : e.reviewed = r /\ e.field = field.key
    BY <2>6, <2>8, <2>9
  <2>. QED BY <2>10, <2>11, <2>12 DEF g, field, w
<1>10. ASSUME NEW i \in 1..N
       PROVE  LET w == EntriesOfRecord(q.records[i]) IN
              /\ w \in Seq(E)
              /\ \A e : e \in Range(w) <=> \E j \in 1..M : e \in Range(EntriesOf(G(i, j)))
  <2> DEFINE r == q.records[i]
             w == EntriesOfRecord(r)
             pieces == [j \in DOMAIN r.fields |-> EntriesOf(r.fields[j])]
  <2>1. DOMAIN pieces = 1..M /\ \A j \in 1..M : pieces[j] = EntriesOf(G(i, j))
    BY <1>2
  <2>2. pieces \in [1..M -> Seq(E)]
    <3>1. pieces = [j \in 1..M |-> pieces[j]]
      BY <1>2
    <3>2. \A j \in 1..M : pieces[j] \in Seq(E)
      BY <1>9, <2>1
    <3>. HIDE DEF pieces, E
    <3>. QED BY <3>1, <3>2
  <2>3. w = FlattenSeq(pieces)
    BY DEF EntriesOfRecord
  <2>. HIDE DEF pieces, w, E
  <2>4. pieces \in Seq(Seq(E)) /\ Len(pieces) = M
    BY <1>1, <2>2, TableIsSeq
  <2>5. Range(w) = RangesTo(pieces, M) /\ w \in Seq(E)
    BY <2>3, <2>4, FlattenRange
  <2>6. \A e : e \in Range(w) <=> \E j \in 1..M : e \in Range(pieces[j])
    BY <2>5 DEF RangesTo
  <2>. QED BY <2>1, <2>5, <2>6 DEF w
<1>11. /\ DOMAIN parts = 1..N /\ parts \in [1..N -> Seq(E)]
       /\ \A i \in 1..N : parts[i] = EntriesOfRecord(q.records[i])
  <2>1. DOMAIN parts = 1..N /\ \A i \in 1..N : parts[i] = EntriesOfRecord(q.records[i])
    BY <1>2
  <2>2. parts = [i \in 1..N |-> parts[i]]
    BY <1>2
  <2>3. \A i \in 1..N : parts[i] \in Seq(E)
    BY <1>10, <2>1
  <2>. HIDE DEF parts, E
  <2>. QED BY <2>1, <2>2, <2>3
<1>. HIDE DEF parts, E
<1>12. parts \in Seq(Seq(E)) /\ Len(parts) = N
  BY <1>1, <1>11, TableIsSeq
<1>13. Range(Entries(q)) = RangesTo(parts, N) /\ Entries(q) \in Seq(E)
  BY <1>6, <1>12, FlattenRange
<1>14. \A e : e \in Range(Entries(q)) <=> \E i \in 1..N, j \in 1..M : e \in Range(EntriesOf(G(i, j)))
  <2>1. \A e : e \in Range(Entries(q)) <=> \E i \in 1..N : e \in Range(parts[i])
    BY <1>13 DEF RangesTo
  <2>2. \A i \in 1..N : \A e : e \in Range(parts[i]) <=> \E j \in 1..M : e \in Range(EntriesOf(G(i, j)))
    BY <1>10, <1>11
  <2>. QED BY <2>1, <2>2
<1>15. ASSUME NEW e \in Range(Entries(q))
       PROVE  \E i \in 1..N, j \in 1..M :
                ShowsAt(i, j, e.reviewed, known, kind, subjects, placed, decided) /\ e.field = placed[j].key
  <2>1. PICK i \in 1..N, j \in 1..M : e \in Range(EntriesOf(G(i, j)))
    BY <1>14
  <2>2. e.reviewed \in Range(G(i, j).reviewed) /\ e.field = placed[j].key
    <3> DEFINE w == EntriesOf(G(i, j))
    <3>1. \A x \in Range(w) : x.reviewed \in Range(G(i, j).reviewed) /\ x.field = placed[j].key
      BY <1>9
    <3>. QED BY <2>1, <3>1
  <2>. QED BY <1>7, <2>2
<1>16. ASSUME NEW i \in 1..N, NEW j \in 1..M, NEW r \in set,
              ShowsAt(i, j, r, known, kind, subjects, placed, decided)
       PROVE  \E e \in Range(Entries(q)) : e.reviewed = r /\ e.field = placed[j].key
  <2>1. r \in Range(G(i, j).reviewed)
    BY <1>7, <1>16
  <2> DEFINE w == EntriesOf(G(i, j))
  <2>2. \A x \in Range(G(i, j).reviewed) : \E e \in Range(w) : e.reviewed = x /\ e.field = placed[j].key
    BY <1>9
  <2>3. \A e \in Range(w) : e \in Range(Entries(q))
    BY <1>14
  <2>. HIDE DEF w
  <2>. QED BY <2>1, <2>2, <2>3
<1>. QED BY <1>13, <1>15, <1>16 DEF EntriesTell, set, E, N, M

-----------------------------------------------------------------------------
(* One item for each reviewed fact, with the fields that show it. *)

LEMMA IndexedIs ==
    ASSUME NEW known, FactsKnown(known), NEW kind, NEW subjects \in Seq(Nat),
           NEW placed \in Seq(FieldRows), NEW decided,
           NEW q, ReviewedShape(q, known, kind, subjects, placed, decided)
    PROVE  Indexed(q) = EachReviewed(q.records) /\ IsFiniteSet(Indexed(q))
<1> DEFINE set == EachReviewed(q.records)
           entries == Entries(q)
           n == Len(entries)
           I == Indexed(q)
<1>1. EntriesTell(entries, set, known, kind, subjects, placed, decided)
  BY EntriesAre
<1>2. \A r : r \in set <=> \E i \in 1..Len(subjects), j \in 1..Len(placed) :
        ShowsAt(i, j, r, known, kind, subjects, placed, decided)
  BY EachReviewedIs DEF ShowsAt
<1>3. I = {e.reviewed : e \in Range(entries)}
  BY DEF Indexed
<1>. HIDE DEF set, entries, I
<1>4. entries \in Seq(EntryRows(set))
  BY <1>1 DEF EntriesTell
<1>5. \A e \in Range(entries) : e.reviewed \in set
  <2>1. \A e \in Range(entries) : \E i \in 1..Len(subjects), j \in 1..Len(placed) :
          ShowsAt(i, j, e.reviewed, known, kind, subjects, placed, decided)
    BY <1>1 DEF EntriesTell
  <2>. QED BY <1>2, <2>1
<1>6. \A r \in set : \E e \in Range(entries) : e.reviewed = r
  <2>1. \A i \in 1..Len(subjects), j \in 1..Len(placed) : \A r \in set :
          ShowsAt(i, j, r, known, kind, subjects, placed, decided) => \E e \in Range(entries) : e.reviewed = r
    BY <1>1 DEF EntriesTell
  <2>. QED BY <1>2, <2>1
<1>7. I = set
  <2>1. \A r \in I : r \in set
    BY <1>3, <1>5
  <2>2. \A r \in set : r \in I
    BY <1>3, <1>6
  <2>. QED BY <2>1, <2>2
<1>8. IsFiniteSet(I)
  <2>1. IsFiniteSet(Range(entries))
    BY <1>4, RangeIsFinite
  <2> DEFINE f == [e \in Range(entries) |-> e.reviewed]
             S == Range(entries)
  <2>2. /\ \A e \in S : f[e] \in I
        /\ \A r \in I : \E e \in S : f[e] = r
    BY <1>3
  <2>. HIDE DEF f
  <2>3. IsFiniteSet(S)
    BY <2>1
  <2>. HIDE DEF S
  <2>. QED BY <2>2, <2>3, FiniteImage
<1>. QED BY <1>7, <1>8 DEF set, I

\* The fields of an item.
MatchedTells(keys, r, known, kind, subjects, placed, decided) ==
    /\ keys \in Seq(Nat) /\ IsInjective(keys) /\ keys # << >>
    /\ \A k \in Range(keys) : \E i \in 1..Len(subjects), j \in 1..Len(placed) :
         ShowsAt(i, j, r, known, kind, subjects, placed, decided) /\ k = placed[j].key
    /\ \A i \in 1..Len(subjects), j \in 1..Len(placed) :
         ShowsAt(i, j, r, known, kind, subjects, placed, decided) => placed[j].key \in Range(keys)

LEMMA MatchedFieldsAre ==
    ASSUME NEW known, FactsKnown(known), NEW kind, NEW subjects \in Seq(Nat),
           NEW placed \in Seq(FieldRows), NEW decided,
           NEW q, ReviewedShape(q, known, kind, subjects, placed, decided), NEW r \in Indexed(q)
    PROVE  MatchedTells(MatchedFields(q, r), r, known, kind, subjects, placed, decided)
<1> DEFINE set == EachReviewed(q.records)
           E == EntryRows(set)
           entries == Entries(q)
           P == {n \in DOMAIN entries : entries[n].reviewed = r}
           mine == Where(entries, LAMBDA e : e.reviewed = r)
           list == [i \in DOMAIN mine |-> mine[i].field]
           keys == EachOnce(list)
<1>1. EntriesTell(entries, set, known, kind, subjects, placed, decided) /\ r \in set
  BY EntriesAre, IndexedIs
<1>2. \E i \in 1..Len(subjects), j \in 1..Len(placed) :
        ShowsAt(i, j, r, known, kind, subjects, placed, decided)
  BY <1>1, EachReviewedIs DEF ShowsAt
<1>3. mine = Picked(entries, P)
  BY DEF Where
<1>4. MatchedFields(q, r) = keys
  BY DEF MatchedFields
<1>. HIDE DEF set, entries, mine
<1>5. entries \in Seq(E) /\ P \in SUBSET (1..Len(entries))
  <2>1. entries \in Seq(E)
    BY <1>1 DEF EntriesTell
  <2>. HIDE DEF E
  <2>. QED BY <2>1
<1>6. PickedTells(mine, entries, P) /\ mine \in Seq(E)
  <2>. HIDE DEF E, P
  <2>. QED BY <1>3, <1>5, PickedRange
<1>7. DOMAIN mine = 1..Len(mine) /\ Len(mine) \in Nat /\ Range(mine) = {entries[i] : i \in P}
  BY <1>6 DEF PickedTells
<1>8. \A e : e \in Range(mine) <=> e \in Range(entries) /\ e.reviewed = r
  BY <1>7 DEF Range
<1>9. \A i \in 1..Len(mine) : mine[i].field \in Nat
  <2>1. \A e \in E : e.field \in Nat
    BY DEF EntryRows
  <2>2. \A i \in 1..Len(mine) : mine[i] \in E
    <3>. HIDE DEF E
    <3>. QED BY <1>6
  <2>. QED BY <2>1, <2>2
<1>10. list \in [1..Len(mine) -> Nat] /\ DOMAIN list = 1..Len(mine) /\ \A i \in 1..Len(mine) : list[i] = mine[i].field
  BY <1>7, <1>9
<1>. HIDE DEF list, E, P
<1>11. list \in Seq(Nat)
  BY <1>7, <1>10, TableIsSeq
<1>12. keys \in Seq(Nat) /\ IsInjective(keys) /\ Range(keys) = Range(list)
  BY <1>11, EachIsNoted
<1>. HIDE DEF keys
<1>13. \A k : k \in Range(list) <=> \E e \in Range(mine) : e.field = k
  <2>1. /\ \A k \in Range(list) : \E i \in 1..Len(mine) : k = list[i]
        /\ \A i \in 1..Len(mine) : list[i] \in Range(list)
    BY <1>7, <1>10, RangeOfTable
  <2>2. /\ \A e \in Range(mine) : \E i \in 1..Len(mine) : e = mine[i]
        /\ \A i \in 1..Len(mine) : mine[i] \in Range(mine)
    BY <1>7, RangeOfTable
  <2>3. \A i \in 1..Len(mine) : list[i] = mine[i].field
    BY <1>10
  <2>4. \A k \in Range(list) : \E e \in Range(mine) : e.field = k
    BY <2>1, <2>2, <2>3
  <2>5. \A e \in Range(mine) : e.field \in Range(list)
    <3>1. \A i \in 1..Len(mine) : mine[i].field \in Range(list)
      BY <2>1, <2>3
    <3>. QED BY <2>2, <3>1
  <2>. QED BY <2>4, <2>5
<1>14. ASSUME NEW k \in Range(keys)
       PROVE  \E i \in 1..Len(subjects), j \in 1..Len(placed) :
                ShowsAt(i, j, r, known, kind, subjects, placed, decided) /\ k = placed[j].key
  <2>1. PICK e \in Range(mine) : e.field = k
    BY <1>12, <1>13
  <2>2. e \in Range(entries) /\ e.reviewed = r
    BY <1>8, <2>1
  <2>. QED BY <1>1, <2>1, <2>2 DEF EntriesTell
<1>15. ASSUME NEW i \in 1..Len(subjects), NEW j \in 1..Len(placed),
              ShowsAt(i, j, r, known, kind, subjects, placed, decided)
       PROVE  placed[j].key \in Range(keys)
  <2>1. PICK e \in Range(entries) : e.reviewed = r /\ e.field = placed[j].key
    BY <1>1, <1>15 DEF EntriesTell
  <2>2. e \in Range(mine)
    BY <1>8, <2>1
  <2>. QED BY <1>12, <1>13, <2>1, <2>2
<1>16. keys # << >>
  <2>1. PICK k : k \in Range(keys)
    BY <1>2, <1>15
  <2>2. Range(<< >>) = {}
    BY DEF Range
  <2>. QED BY <2>1, <2>2
<1>. QED BY <1>4, <1>12, <1>14, <1>15, <1>16 DEF MatchedTells

\* What an item tells of its fact.
ItemShows(item, r, keys) ==
    /\ item.fact = r.fact.id /\ item.subject = r.fact.subject
    /\ item.predicate = r.fact.predicate /\ item.scope = r.fact.scope
    /\ item.fields = keys /\ item.state = r.state /\ item.basis = r.basis /\ item.review = r.review

LEMMA ItemIs ==
    ASSUME NEW q, NEW r
    PROVE  ItemShows(ItemOf(q, r), r, MatchedFields(q, r))
<1> DEFINE item == ItemOf(q, r)
           keys == MatchedFields(q, r)
<1>1. item = [fact |-> r.fact.id, subject |-> r.fact.subject, predicate |-> r.fact.predicate,
              scope |-> r.fact.scope, fields |-> keys, state |-> r.state,
              basis |-> r.basis, review |-> r.review, meanings |-> Len(r.fact.groups),
              values |-> Len(FactValues(r.fact))]
  BY DEF ItemOf
<1>. HIDE DEF item, keys
<1>. QED BY <1>1 DEF ItemShows, item, keys

-----------------------------------------------------------------------------
(* The order of the items. *)

ItemsFit(set) ==
    /\ \A a \in set : a.subject \in Nat /\ a.predicate \in Nat /\ a.scope \in Nat /\ a.fact \in Nat
    /\ \A a, b \in set : a.fact = b.fact => a = b

Rank(item) == IF item.review THEN 0 ELSE 1
\* One after the other.
Before5(a1, a2, a3, a4, a5, b1, b2, b3, b4, b5) ==
    \/ a1 < b1
    \/ a1 = b1 /\ a2 < b2
    \/ a1 = b1 /\ a2 = b2 /\ a3 < b3
    \/ a1 = b1 /\ a2 = b2 /\ a3 = b3 /\ a4 < b4
    \/ a1 = b1 /\ a2 = b2 /\ a3 = b3 /\ a4 = b4 /\ a5 < b5
Precedes(a, b) ==
    Before5(Rank(a), a.subject, a.predicate, a.scope, a.fact,
            Rank(b), b.subject, b.predicate, b.scope, b.fact)

LEMMA AheadIs ==
    ASSUME NEW a, NEW b
    PROVE  Ahead(a, b) <=> Precedes(a, b)
<1> DEFINE p == Place(a)
           q == Place(b)
           At(i) == p[i] < q[i] /\ \A j \in 1..(i - 1) : p[j] = q[j]
<1>1. /\ p[1] = Rank(a) /\ p[2] = a.subject /\ p[3] = a.predicate /\ p[4] = a.scope /\ p[5] = a.fact
      /\ q[1] = Rank(b) /\ q[2] = b.subject /\ q[3] = b.predicate /\ q[4] = b.scope /\ q[5] = b.fact
  BY DEF Place, Rank
<1>2. Ahead(a, b) <=> \E i \in 1..5 : At(i)
  BY DEF Ahead
<1>. HIDE DEF p, q
<1>3. At(1) <=> p[1] < q[1]
  <2>1. 1..(1 - 1) = {}
    OBVIOUS
  <2>. QED BY <2>1
<1>4. At(2) <=> p[1] = q[1] /\ p[2] < q[2]
  <2>1. 1..(2 - 1) = {1}
    OBVIOUS
  <2>. QED BY <2>1
<1>5. At(3) <=> p[1] = q[1] /\ p[2] = q[2] /\ p[3] < q[3]
  <2>1. 1..(3 - 1) = {1, 2}
    OBVIOUS
  <2>. QED BY <2>1
<1>6. At(4) <=> p[1] = q[1] /\ p[2] = q[2] /\ p[3] = q[3] /\ p[4] < q[4]
  <2>1. 1..(4 - 1) = {1, 2, 3}
    OBVIOUS
  <2>. QED BY <2>1
<1>7. At(5) <=> p[1] = q[1] /\ p[2] = q[2] /\ p[3] = q[3] /\ p[4] = q[4] /\ p[5] < q[5]
  <2>1. 1..(5 - 1) = {1, 2, 3, 4}
    OBVIOUS
  <2>. QED BY <2>1
<1>. HIDE DEF At
<1>8. (\E i \in 1..5 : At(i)) <=> At(1) \/ At(2) \/ At(3) \/ At(4) \/ At(5)
  <2>1. 1..5 = {1, 2, 3, 4, 5}
    OBVIOUS
  <2>. QED BY <2>1
<1>9. Ahead(a, b) <=>
        \/ p[1] < q[1]
        \/ p[1] = q[1] /\ p[2] < q[2]
        \/ p[1] = q[1] /\ p[2] = q[2] /\ p[3] < q[3]
        \/ p[1] = q[1] /\ p[2] = q[2] /\ p[3] = q[3] /\ p[4] < q[4]
        \/ p[1] = q[1] /\ p[2] = q[2] /\ p[3] = q[3] /\ p[4] = q[4] /\ p[5] < q[5]
  BY <1>2, <1>3, <1>4, <1>5, <1>6, <1>7, <1>8
<1>. QED BY <1>1, <1>9 DEF Precedes, Before5

LEMMA AheadOrders ==
    ASSUME NEW S, ItemsFit(S), NEW R, \A a, b : <<a, b>> \in R <=> a \in S /\ b \in S /\ Ahead(a, b)
    PROVE  StrictOrder(R, S)
<1>1. \A a, b \in S : <<a, b>> \in R <=> Precedes(a, b)
  BY AheadIs
<1>2. \A a \in S : /\ Rank(a) \in Nat /\ a.subject \in Nat /\ a.predicate \in Nat /\ a.scope \in Nat
                   /\ a.fact \in Nat
  BY DEF ItemsFit, Rank
<1>3. \A a1, a2, a3, a4, a5 \in Nat : ~Before5(a1, a2, a3, a4, a5, a1, a2, a3, a4, a5)
  BY DEF Before5
<1>4. \A a1, a2, a3, a4, a5, b1, b2, b3, b4, b5 \in Nat :
        \/ a5 = b5
        \/ Before5(a1, a2, a3, a4, a5, b1, b2, b3, b4, b5)
        \/ Before5(b1, b2, b3, b4, b5, a1, a2, a3, a4, a5)
  BY DEF Before5
<1>6. \A a \in S : ~Precedes(a, a)
  BY <1>2, <1>3 DEF Precedes
<1>7. \A a, b \in S : a = b \/ Precedes(a, b) \/ Precedes(b, a)
  <2>1. \A a, b \in S : a.fact = b.fact \/ Precedes(a, b) \/ Precedes(b, a)
    BY <1>2, <1>4 DEF Precedes
  <2>. QED BY <2>1 DEF ItemsFit
<1>8. \A a, b, c \in S : Precedes(a, b) /\ Precedes(b, c) => Precedes(a, c)
  <2> SUFFICES ASSUME NEW a \in S, NEW b \in S, NEW c \in S, Precedes(a, b), Precedes(b, c)
               PROVE  Precedes(a, c)
    OBVIOUS
  <2>1. /\ Rank(a) \in Nat /\ a.subject \in Nat /\ a.predicate \in Nat /\ a.scope \in Nat /\ a.fact \in Nat
        /\ Rank(b) \in Nat /\ b.subject \in Nat /\ b.predicate \in Nat /\ b.scope \in Nat /\ b.fact \in Nat
        /\ Rank(c) \in Nat /\ c.subject \in Nat /\ c.predicate \in Nat /\ c.scope \in Nat /\ c.fact \in Nat
    BY <1>2
  <2>. QED BY <2>1 DEF Precedes, Before5
<1>9. \A a \in S : <<a, a>> \notin R
  BY <1>1, <1>6
<1>10. \A a, b \in S : a = b \/ <<a, b>> \in R \/ <<b, a>> \in R
  BY <1>1, <1>7
<1>11. \A a, b, c \in S : <<a, b>> \in R /\ <<b, c>> \in R => <<a, c>> \in R
  BY <1>1, <1>8
<1>. QED BY <1>9, <1>10, <1>11 DEF StrictOrder

InReviewOrder(seq) == \A i, j \in DOMAIN seq : i < j => Ahead(seq[i], seq[j])

LEMMA ItemsSorted ==
    ASSUME NEW S, IsFiniteSet(S), ItemsFit(S)
    PROVE  LET order == Sorted(S, Ahead) IN
           Lists(order, S) /\ order \in Seq(S) /\ InReviewOrder(order)
<1> DEFINE R == {p \in S \X S : Ahead(p[1], p[2])}
           rank == [x \in S |-> Cardinality({y \in S : Ahead(y, x)})]
           seq == Ranked(S, rank)
<1>1. \A a, b : <<a, b>> \in R <=> a \in S /\ b \in S /\ Ahead(a, b)
  OBVIOUS
<1>2. \A x \in S : rank[x] = Cardinality(Below(S, R, x))
  <2>1. \A x \in S : {y \in S : Ahead(y, x)} = Below(S, R, x)
    <3>. HIDE DEF R
    <3>. QED BY <1>1 DEF Below
  <2>. HIDE DEF R
  <2>. QED BY <2>1
<1>3. Sorted(S, Ahead) = seq
  BY DEF Sorted
<1>. HIDE DEF rank, R
<1>4. StrictOrder(R, S)
  BY <1>1, AheadOrders
<1>5. Lists(seq, S) /\ seq \in Seq(S)
  BY <1>2, <1>4, RankedInOrder
<1>6. \A i, j \in DOMAIN seq : i < j => <<seq[i], seq[j]>> \in R
  BY <1>2, <1>4, RanksGrow
<1>. HIDE DEF seq
<1>7. InReviewOrder(seq)
  BY <1>1, <1>6 DEF InReviewOrder
<1>. QED BY <1>3, <1>5, <1>7

-----------------------------------------------------------------------------
(* What is listed. *)

ItemSet(q) == {ItemOf(q, r) : r \in Indexed(q)}
AskedOf(q, state) == {i \in ItemSet(q) : state = "all" \/ Classifies(i, state)}

\* An item is what is told of one reviewed fact.
IsItemOf(item, r, q) ==
    /\ item = ItemOf(q, r) /\ ItemShows(item, r, MatchedFields(q, r)) /\ DetailFits(r)
    /\ IsInjective(item.fields) /\ item.fields # << >>
    /\ \E s \in ItemStates : Classifies(item, s)
ItemSetFits(q) ==
    /\ IsFiniteSet(ItemSet(q)) /\ Cardinality(ItemSet(q)) <= Cardinality(Indexed(q))
    /\ ItemsFit(ItemSet(q)) /\ Cardinality(Indexed(q)) \in Nat /\ Cardinality(ItemSet(q)) \in Nat
    /\ \A item \in ItemSet(q) : \E r \in Indexed(q) : IsItemOf(item, r, q)
    /\ \A r \in Indexed(q) : IsItemOf(ItemOf(q, r), r, q)

LEMMA ItemSetIs ==
    ASSUME NEW known, FactsKnown(known), NEW kind, NEW subjects \in Seq(Nat),
           NEW placed \in Seq(FieldRows), NEW decided, DecidedGiven(decided),
           AllBind(known, kind, subjects, placed, decided),
           NEW q, ReviewedShape(q, known, kind, subjects, placed, decided)
    PROVE  ItemSetFits(q)
<1> DEFINE I == Indexed(q)
           items == ItemSet(q)
<1>1. I = EachReviewed(q.records) /\ IsFiniteSet(I)
  BY IndexedIs
<1>2. ReviewedWell(I, known, kind, subjects, placed, decided)
  BY <1>1, EachIsReviewed
<1>3. ASSUME NEW r \in I PROVE IsItemOf(ItemOf(q, r), r, q)
  <2> DEFINE item == ItemOf(q, r)
             keys == MatchedFields(q, r)
  <2>1. ItemShows(item, r, keys)
    BY ItemIs
  <2>2. MatchedTells(keys, r, known, kind, subjects, placed, decided)
    BY MatchedFieldsAre
  <2>3. DetailFits(r)
    BY <1>2 DEF ReviewedWell
  <2>. HIDE DEF item, keys
  <2>4. item.fields = keys /\ item.state = r.state /\ item.basis = r.basis /\ item.review = r.review
    BY <2>1 DEF ItemShows
  <2>5. PICK s \in ItemStates : Classifies(r, s)
    BY <2>3 DEF DetailFits
  <2>6. Classifies(item, s)
    BY <2>4, <2>5 DEF Classifies
  <2>. QED BY <2>1, <2>2, <2>3, <2>4, <2>6 DEF IsItemOf, MatchedTells, item, keys
<1>4. \A r \in I : r.fact \in KnownRows
  <2>1. \A r \in I : r.fact \in Range(known)
    BY <1>2 DEF ReviewedWell
  <2>2. \A f \in Range(known) : f \in KnownRows
    <3>1. known \in Seq(KnownRows)
      BY DEF FactsKnown
    <3>2. Range(known) \in SUBSET KnownRows
      BY <3>1, RangeIsFinite
    <3>. QED BY <3>2
  <2>. QED BY <2>1, <2>2
<1>5. /\ \A r \in I : ItemOf(q, r) \in items
      /\ \A item \in items : \E r \in I : item = ItemOf(q, r)
  BY DEF ItemSet
<1>. HIDE DEF I, items
<1>6. \A item \in items : \E r \in I : IsItemOf(item, r, q)
  BY <1>3, <1>5
<1>7. IsFiniteSet(items) /\ Cardinality(items) <= Cardinality(I)
  <2> DEFINE f == [r \in I |-> ItemOf(q, r)]
  <2>1. /\ \A r \in I : f[r] \in items
        /\ \A item \in items : \E r \in I : f[r] = item
    BY <1>5
  <2>. HIDE DEF f
  <2>. QED BY <1>1, <2>1, FiniteImage
<1>8. Cardinality(I) \in Nat /\ Cardinality(items) \in Nat
  BY <1>1, <1>7, FS_CardinalityType
<1>9. ItemsFit(items)
  <2>1. \A f \in KnownRows : f.subject \in Nat /\ f.predicate \in Nat /\ f.scope \in Nat /\ f.id \in Nat
    BY DEF KnownRows
  <2>2. \A item \in items : /\ item.subject \in Nat /\ item.predicate \in Nat /\ item.scope \in Nat
                            /\ item.fact \in Nat
    <3> SUFFICES ASSUME NEW item \in items
                 PROVE  /\ item.subject \in Nat /\ item.predicate \in Nat /\ item.scope \in Nat
                        /\ item.fact \in Nat
      OBVIOUS
    <3>1. PICK r \in I : IsItemOf(item, r, q)
      BY <1>6
    <3>2. /\ item.fact = r.fact.id /\ item.subject = r.fact.subject
          /\ item.predicate = r.fact.predicate /\ item.scope = r.fact.scope
      BY <3>1 DEF IsItemOf, ItemShows
    <3>3. r.fact \in KnownRows
      BY <1>4, <3>1
    <3>. QED BY <2>1, <3>2, <3>3
  <2>3. ASSUME NEW a \in items, NEW b \in items, a.fact = b.fact PROVE a = b
    <3>1. PICK r \in I : IsItemOf(a, r, q)
      BY <1>6
    <3>2. PICK t \in I : IsItemOf(b, t, q)
      BY <1>6
    <3>3. r.fact.id = t.fact.id
      BY <2>3, <3>1, <3>2 DEF IsItemOf, ItemShows
    <3>4. \A x, y \in I : x.fact.id = y.fact.id => x = y
      BY <1>2 DEF ReviewedWell
    <3>5. r = t
      BY <3>1, <3>2, <3>3, <3>4
    <3>. QED BY <3>1, <3>2, <3>5 DEF IsItemOf
  <2>. QED BY <2>2, <2>3 DEF ItemsFit
<1>. QED BY <1>3, <1>6, <1>7, <1>8, <1>9 DEF ItemSetFits, I, items

\* A list is the first of what was asked, in order.
ListTells(list, asked, limit) ==
    /\ DOMAIN list = 1..Len(list) /\ Len(list) \in Nat /\ Range(list) \subseteq asked
    /\ \A i, j \in DOMAIN list : list[i] = list[j] => i = j
    /\ InReviewOrder(list)
    /\ Cardinality(asked) <= limit => Range(list) = asked

LEMMA ListedTells ==
    ASSUME NEW q, ItemSetFits(q), NEW state, NEW limit \in Nat
    PROVE  ListTells(Listed(q, state, limit), AskedOf(q, state), limit)
<1> DEFINE asked == AskedOf(q, state)
           order == Sorted(asked, Ahead)
           n == IF limit < Len(order) THEN limit ELSE Len(order)
           list == SubSeq(order, 1, n)
<1>1. Listed(q, state, limit) = list
  BY DEF Listed, AskedOf, ItemSet
<1>2. asked \in SUBSET ItemSet(q)
  BY DEF AskedOf
<1>. HIDE DEF asked
<1>3. IsFiniteSet(asked) /\ Cardinality(asked) \in Nat
  <2>1. IsFiniteSet(ItemSet(q))
    BY DEF ItemSetFits
  <2>2. IsFiniteSet(asked)
    BY <1>2, <2>1, FS_Subset
  <2>. QED BY <2>2, FS_CardinalityType
<1>4. ItemsFit(asked)
  BY <1>2 DEF ItemSetFits, ItemsFit
<1>5. Lists(order, asked) /\ order \in Seq(asked) /\ InReviewOrder(order)
  BY <1>3, <1>4, ItemsSorted
<1>. HIDE DEF order
<1>6. /\ DOMAIN order = 1..Cardinality(asked) /\ Len(order) = Cardinality(asked)
      /\ \A i \in DOMAIN order : order[i] \in asked
      /\ \A x \in asked : \E i \in DOMAIN order : order[i] = x
      /\ \A i, j \in DOMAIN order : order[i] = order[j] => i = j
  <2>1. DOMAIN order = 1..Len(order) /\ Len(order) \in Nat
    BY <1>5
  <2>2. DOMAIN order = 1..Cardinality(asked)
    BY <1>5 DEF Lists
  <2>3. \A a, b \in Nat : 1..a = 1..b => a = b
    <3> SUFFICES ASSUME NEW a \in Nat, NEW b \in Nat, 1..a = 1..b PROVE a = b
      OBVIOUS
    <3>1. Cardinality(1..a) = a /\ Cardinality(1..b) = b
      BY CountTo
    <3>. QED BY <3>1
  <2>4. Len(order) = Cardinality(asked)
    BY <1>3, <2>1, <2>2, <2>3
  <2>. QED BY <1>5, <2>2, <2>4 DEF Lists
<1>7. n \in 0..Len(order) /\ n \in Nat /\ (Cardinality(asked) <= limit => n = Len(order))
  BY <1>3, <1>6
<1>. HIDE DEF n
<1>8. /\ DOMAIN list = 1..n /\ Len(list) = n
      /\ \A i \in 1..n : list[i] = order[i] /\ i \in DOMAIN order
  <2>1. \A i \in 1..n : order[i] \in asked /\ i \in DOMAIN order
    BY <1>3, <1>6, <1>7
  <2>2. list \in Seq(asked) /\ Len(list) = n /\ \A i \in 1..n : list[i] = order[i]
    BY <1>5, <1>7
  <2>3. DOMAIN list = 1..n
    <3>. HIDE DEF list
    <3>. QED BY <2>2
  <2>. QED BY <2>1, <2>2, <2>3
<1>. HIDE DEF list
<1>9. Range(list) \subseteq asked
  BY <1>6, <1>8 DEF Range
<1>10. \A i, j \in DOMAIN list : list[i] = list[j] => i = j
  BY <1>6, <1>8
<1>11. InReviewOrder(list)
  BY <1>5, <1>8 DEF InReviewOrder
<1>12. ASSUME Cardinality(asked) <= limit PROVE Range(list) = asked
  <2>1. DOMAIN order = 1..n
    BY <1>6, <1>7, <1>12
  <2>2. \A x \in asked : \E i \in 1..n : list[i] = x
    BY <1>6, <1>8, <2>1
  <2>3. \A x \in asked : x \in Range(list)
    BY <1>8, <2>2 DEF Range
  <2>. QED BY <1>9, <2>3
<1>13. ListTells(list, asked, limit)
  BY <1>7, <1>8, <1>9, <1>10, <1>11, <1>12 DEF ListTells
<1>. QED BY <1>1, <1>13 DEF asked

-----------------------------------------------------------------------------
(* Lists and details are accepted, and what is open is what can be decided. *)

LEMMA ListAuthentic ==
    ASSUME NEW q, ItemSetFits(q), NEW state \in ItemStates \cup {"all"}, NEW limit \in 1..MostListed
    PROVE  AuthenticList(Listed(q, state, limit), state, limit)
<1> DEFINE list == Listed(q, state, limit)
           asked == AskedOf(q, state)
<1>1. ListTells(list, asked, limit)
  <2>1. limit \in Nat
    BY DEF MostListed
  <2>. QED BY <2>1, ListedTells
<1>. HIDE DEF list
<1>2. \A item \in asked : item \in ItemSet(q) /\ (state # "all" => Classifies(item, state))
  BY DEF AskedOf
<1>3. \A i \in DOMAIN list : list[i] \in asked
  BY <1>1 DEF ListTells, Range
<1>4. IsInjective([i \in DOMAIN list |-> list[i].fact])
  <2>1. \A i, j \in DOMAIN list : list[i].fact = list[j].fact => list[i] = list[j]
    <3>1. \A a, b \in ItemSet(q) : a.fact = b.fact => a = b
      BY DEF ItemSetFits, ItemsFit
    <3>. QED BY <1>2, <1>3, <3>1
  <2>2. \A i, j \in DOMAIN list : list[i].fact = list[j].fact => i = j
    BY <1>1, <2>1 DEF ListTells
  <2>. QED BY <2>2 DEF IsInjective
<1>5. \A item \in Range(list) :
         /\ \E s \in ItemStates : Classifies(item, s) /\ state \in {s, "all"}
         /\ item.fields # << >> /\ IsInjective(item.fields)
  <2> SUFFICES ASSUME NEW item \in asked
               PROVE  /\ \E s \in ItemStates : Classifies(item, s) /\ state \in {s, "all"}
                      /\ item.fields # << >> /\ IsInjective(item.fields)
    BY <1>1 DEF ListTells
  <2>1. PICK r \in Indexed(q) : IsItemOf(item, r, q)
    BY <1>2 DEF ItemSetFits
  <2>2. /\ IsInjective(item.fields) /\ item.fields # << >>
        /\ \E s \in ItemStates : Classifies(item, s)
    BY <2>1 DEF IsItemOf
  <2>3. CASE state = "all"
    BY <2>2, <2>3
  <2>4. CASE state # "all"
    BY <1>2, <2>2, <2>4
  <2>. QED BY <2>3, <2>4
<1>6. \A i, j \in DOMAIN list : i < j => Ahead(list[i], list[j])
  BY <1>1 DEF ListTells, InReviewOrder
<1>. QED BY <1>4, <1>5, <1>6 DEF AuthenticList, list

LEMMA DetailShown ==
    ASSUME NEW q, ItemSetFits(q), NEW item \in ItemSet(q)
    PROVE  \E d \in Detail(q, item.fact) :
             AuthenticDetail(d) /\ d.fields = item.fields /\ d.reviewed.state = item.state
<1>1. PICK r \in Indexed(q) : IsItemOf(item, r, q)
  BY DEF ItemSetFits
<1> DEFINE keys == MatchedFields(q, r)
           d == [reviewed |-> r, fields |-> keys, meanings |-> Len(r.fact.groups),
                 values |-> Len(FactValues(r.fact))]
<1>2. /\ item.fact = r.fact.id /\ item.fields = keys /\ item.state = r.state
      /\ IsInjective(item.fields) /\ item.fields # << >> /\ DetailFits(r)
  BY <1>1 DEF IsItemOf, ItemShows
<1>3. d \in Detail(q, item.fact)
  BY <1>2 DEF Detail
<1>. HIDE DEF keys
<1>4. /\ d.reviewed = r /\ d.fields = keys /\ d.meanings = Len(r.fact.groups)
      /\ d.values = Len(FactValues(r.fact))
  OBVIOUS
<1>. HIDE DEF d
<1>5. AuthenticDetail(d)
  <2>1. d.fields # << >> /\ IsInjective(d.fields)
    BY <1>2, <1>4
  <2>. QED BY <1>2, <1>4, <2>1 DEF AuthenticDetail, DetailFits
<1>. QED BY <1>2, <1>3, <1>4, <1>5

\* What needs a review is in the list of what needs one.
LEMMA OpenIs ==
    ASSUME NEW q, ItemSetFits(q)
    PROVE  \A item : item \in AskedOf(q, "review_required") <=>
                       \E r \in Indexed(q) : r.review /\ IsItemOf(item, r, q)
<1>1. ASSUME NEW item \in AskedOf(q, "review_required")
      PROVE  \E r \in Indexed(q) : r.review /\ IsItemOf(item, r, q)
  <2>1. item \in ItemSet(q) /\ Classifies(item, "review_required")
    BY DEF AskedOf
  <2>2. PICK r \in Indexed(q) : IsItemOf(item, r, q)
    BY <2>1 DEF ItemSetFits
  <2>3. r.review
    BY <2>1, <2>2 DEF IsItemOf, ItemShows, Classifies
  <2>. QED BY <2>2, <2>3
<1>2. ASSUME NEW item, NEW r \in Indexed(q), r.review, IsItemOf(item, r, q)
      PROVE  item \in AskedOf(q, "review_required")
  <2>1. item \in ItemSet(q)
    BY <1>2 DEF IsItemOf, ItemSet
  <2>2. PICK s \in ItemStates : Classifies(item, s)
    BY <1>2 DEF IsItemOf
  <2>3. item.review
    BY <1>2 DEF IsItemOf, ItemShows
  <2>4. Classifies(item, "review_required")
    BY <2>2, <2>3 DEF Classifies
  <2>. QED BY <2>1, <2>4 DEF AskedOf
<1>. QED BY <1>1, <1>2

OpenDecided(open, q, known, decided) ==
    {i.fact : i \in open} =
      {f.id : f \in {x \in Range(known) : \E e \in Range(decided) : MayDecide(q, x.id, e.assessment)}}

LEMMA OpenCanBeDecided ==
    ASSUME NEW known, FactsKnown(known), NEW kind, NEW subjects, NEW placed, NEW decided,
           NEW q, ItemSetFits(q), ReviewedWell(Indexed(q), known, kind, subjects, placed, decided),
           NEW open, open = AskedOf(q, "review_required")
    PROVE  OpenDecided(open, q, known, decided)
<1> DEFINE left == {i.fact : i \in open}
           may == {x \in Range(known) : \E e \in Range(decided) : MayDecide(q, x.id, e.assessment)}
           right == {f.id : f \in may}
<1>1. ASSUME NEW i \in open PROVE i.fact \in right
  <2>1. PICK r \in Indexed(q) : r.review /\ IsItemOf(i, r, q)
    BY OpenIs
  <2>2. i.fact = r.fact.id /\ DetailFits(r)
    BY <2>1 DEF IsItemOf, ItemShows
  <2>3. r.fact \in Range(known) /\ ReviewTells(r, r.fact, decided)
    BY <2>1 DEF ReviewedWell
  <2>4. r.assessment # 0
    BY <2>1, <2>2 DEF DetailFits
  <2>5. PICK e \in Range(decided) : TellsOf(r, e)
    BY <2>3, <2>4 DEF ReviewTells, NothingDecided
  <2>6. r.assessment = e.assessment
    BY <2>5 DEF TellsOf
  <2>7. MayDecide(q, r.fact.id, e.assessment)
    BY <2>1, <2>4, <2>6 DEF MayDecide
  <2>8. r.fact \in may
    BY <2>3, <2>5, <2>7
  <2>. QED BY <2>2, <2>8
<1>2. ASSUME NEW x \in may PROVE x.id \in left
  <2>1. PICK e \in Range(decided) : MayDecide(q, x.id, e.assessment)
    OBVIOUS
  <2>2. PICK r \in Indexed(q) : r.fact.id = x.id /\ r.review
    BY <2>1 DEF MayDecide
  <2> DEFINE item == ItemOf(q, r)
  <2>3. IsItemOf(item, r, q)
    BY <2>2 DEF ItemSetFits
  <2>. HIDE DEF item
  <2>4. item \in open /\ item.fact = x.id
    <3>1. item \in AskedOf(q, "review_required")
      BY <2>2, <2>3, OpenIs
    <3>. QED BY <2>2, <2>3, <3>1 DEF IsItemOf, ItemShows
  <2>. QED BY <2>4
<1>. HIDE DEF may
<1>3. left = right
  <2>1. \A n \in left : n \in right
    BY <1>1
  <2>2. \A n \in right : n \in left
    BY <1>2
  <2>. HIDE DEF left, right
  <2>. QED BY <2>1, <2>2
<1>. QED BY <1>3 DEF OpenDecided, may

\* The field of a subject is open exactly where an open item names it.
OpenShown(open, view) ==
    \A subject \in {r.subject : r \in Range(view.records)} :
        \A f \in Range(FieldsIn(Where(view.records, LAMBDA r : r.subject = subject)[1])) :
            f.state = "review_required" <=>
                \E i \in open : i.subject = subject /\ Contains(i.fields, f.raw.field.key)

LEMMA ContainsIs ==
    ASSUME NEW keys \in Seq(Nat), NEW k
    PROVE  Contains(keys, k) <=> k \in Range(keys)
BY DEF Contains, Range

LEMMA OpenAreShown ==
    ASSUME NEW known, FactsKnown(known), NEW kind, NEW fields \in Seq(FieldRows), FieldsFit(fields),
           NEW subjects \in Seq(Nat), IsInjective(subjects), NEW placed, placed = InPlaceOrder(fields),
           NEW decided, DecidedGiven(decided), AllBind(known, kind, subjects, placed, decided),
           NEW q, ReviewedShape(q, known, kind, subjects, placed, decided), ItemSetFits(q),
           NEW view, ViewShape(view, known, kind, subjects, placed, decided),
           NEW open, open = AskedOf(q, "review_required")
    PROVE  OpenShown(open, view)
<1> DEFINE K(i, j) == KnownOf(known, kind, subjects[i], placed[j], decided)
           N == Len(subjects)
           M == Len(placed)
           Sees(i, j, r) == ShowsAt(i, j, r, known, kind, subjects, placed, decided)
           R == Range(view.records)
           At(subject) == {n \in DOMAIN view.records : view.records[n].subject = subject}
<1>0. \A r : r \in EachReviewed(q.records) <=> \E i \in 1..N, j \in 1..M : Sees(i, j, r)
  <2>1. \A r : r \in EachReviewed(q.records) <=>
          \E i \in 1..Len(subjects), j \in 1..Len(placed) :
              r \in Range(ReviewedOf(known, kind, subjects[i], placed[j], decided).reviewed)
    <3>1. ReviewedShape(q, known, kind, subjects, placed, decided)
      OBVIOUS
    <3>. QED BY ONLY <3>1, EachReviewedIs
  <2>. HIDE DEF N, M
  <2>2. \A i, j, r : Sees(i, j, r) <=>
          r \in Range(ReviewedOf(known, kind, subjects[i], placed[j], decided).reviewed)
    BY DEF ShowsAt
  <2>. HIDE DEF Sees
  <2>. QED BY <2>1, <2>2 DEF N, M
<1>1. placed \in Seq(FieldRows) /\ IsInjective(Keys(placed)) /\ M \in Nat /\ DOMAIN placed = 1..M
  BY FieldsInPlace
<1>2. /\ DOMAIN view.records = 1..N /\ view.records = [i \in 1..N |-> view.records[i]]
      /\ \A i \in 1..N : ViewRecordTells(view.records[i], known, kind, subjects[i], placed, decided)
  BY DEF ViewShape
<1>3. N \in Nat /\ DOMAIN subjects = 1..N
  OBVIOUS
<1>4. \A i \in 1..N : view.records[i].subject = subjects[i]
  BY <1>2 DEF ViewRecordTells
<1>5. ASSUME NEW i \in 1..N, NEW j \in 1..M
      PROVE  /\ K(i, j).state = "review_required" <=> \E r \in Range(K(i, j).reviewed) : r.review
             /\ \A r : r \in Range(K(i, j).reviewed) <=> Sees(i, j, r)
             /\ K(i, j).raw.field = placed[j]
             /\ \A r : Sees(i, j, r) => r.fact.subject = subjects[i]
  <2> DEFINE s == subjects[i]
             field == placed[j]
             k == KnownOf(known, kind, s, field, decided)
             g == ReviewedOf(known, kind, s, field, decided)
  <2>1. /\ FieldTells(k, known, kind, s, field, decided) /\ k.raw = RawOf(known, kind, s, field)
        /\ k.reviewed = g.reviewed /\ k.raw.field = field
    BY FieldOfView DEF AllBind
  <2>2. \A r : Sees(i, j, r) <=> r \in Range(g.reviewed)
    BY DEF ShowsAt
  <2>3. FieldReviews(g, known, kind, s, field, decided)
    BY ReviewsOfField
  <2>. HIDE DEF k, g, s, field, Sees
  <2>4. \A r \in Range(g.reviewed) : r.fact.subject = s
    <3>1. \A r \in Range(g.reviewed) : \E f \in Range(g.raw.facts) : r = ReviewedFact(f, decided)
      BY <2>3 DEF FieldReviews
    <3>2. \A f : ReviewedFact(f, decided).fact = f
      BY ReviewedFactTells DEF ReviewTells
    <3>3. \A f \in Range(g.raw.facts) : f.subject = s
      BY <2>3 DEF FieldReviews, IsAbout
    <3>. QED BY <3>1, <3>2, <3>3
  <2>5. k.state = "review_required" <=> \E r \in Range(k.reviewed) : r.review
    BY <2>1 DEF FieldTells
  <2>. QED BY <2>1, <2>2, <2>4, <2>5 DEF k, s, field
<1>6. ASSUME NEW i \in 1..N
      PROVE  Picked(view.records, At(subjects[i]))[1] = view.records[i]
  <2> DEFINE P == At(subjects[i])
  <2>2. P = {i}
    <3>1. \A n \in 1..N : subjects[n] = subjects[i] => n = i
      BY <1>3 DEF IsInjective
    <3>. QED BY <1>2, <1>4, <3>1
  <2>3. view.records \in Seq(R) /\ Len(view.records) = N
    <3>1. \A n \in 1..N : view.records[n] \in R
      BY <1>2 DEF Range
    <3>. HIDE DEF R
    <3>2. view.records \in [1..N -> R]
      BY <1>2, <3>1
    <3>. QED BY <1>3, <3>2, TableIsSeq
  <2>. HIDE DEF P, R
  <2>4. P \in SUBSET (1..Len(view.records)) /\ i \in P /\ \A n \in P : i <= n
    BY <1>3, <2>2, <2>3
  <2>5. Picked(view.records, P)[1] = view.records[i]
    BY <2>3, <2>4, FirstPicked
  <2>. QED BY <2>5 DEF P
<1>7. ASSUME NEW i \in 1..N, NEW f \in Range(FieldsIn(view.records[i]))
      PROVE  \E j \in 1..M : f = K(i, j)
  <2> DEFINE v == view.records[i]
             s == subjects[i]
  <2>1. ViewRecordTells(v, known, kind, s, placed, decided)
    BY <1>2
  <2>. HIDE DEF v, s
  <2>2. RecordShows(v, known, kind, s, placed, decided)
    BY <1>1, <2>1, RecordTells
  <2>3. \A x \in Range(FieldsIn(v)) : \E j \in 1..M : x = KnownOf(known, kind, s, placed[j], decided)
    BY <2>2 DEF RecordShows
  <2>. QED BY <2>3 DEF v, s
<1>. HIDE DEF Sees, K, N, M, R, At
<1>8. \A j, l \in 1..M : placed[j].key = placed[l].key => j = l
  BY <1>1 DEF Keys, IsInjective
<1>9. ASSUME NEW r \in Indexed(q)
      PROVE  LET item == ItemOf(q, r) IN
             /\ item.subject = r.fact.subject
             /\ \A k : Contains(item.fields, k) <=> k \in Range(item.fields)
             /\ \A k \in Range(item.fields) : \E i \in 1..N, j \in 1..M : Sees(i, j, r) /\ k = placed[j].key
             /\ \A i \in 1..N, j \in 1..M : Sees(i, j, r) => placed[j].key \in Range(item.fields)
  <2> DEFINE item == ItemOf(q, r)
             keys == MatchedFields(q, r)
  <2>1. MatchedTells(keys, r, known, kind, subjects, placed, decided)
    BY <1>1, MatchedFieldsAre
  <2>2. ItemShows(item, r, keys)
    BY ItemIs
  <2>. HIDE DEF item, keys
  <2>3. item.subject = r.fact.subject /\ item.fields = keys
    BY <2>2 DEF ItemShows
  <2>4. \A k : Contains(keys, k) <=> k \in Range(keys)
    BY <2>1, ContainsIs DEF MatchedTells
  <2>. QED BY <2>1, <2>3, <2>4 DEF MatchedTells, Sees, item, N, M
<1>10. \A item : item \in open <=> \E r \in Indexed(q) : r.review /\ IsItemOf(item, r, q)
  BY OpenIs
<1>11. \A i \in 1..N, j \in 1..M : \A r : Sees(i, j, r) => r \in Indexed(q)
  <2>1. Indexed(q) = EachReviewed(q.records)
    BY <1>1, IndexedIs
  <2>. QED BY <1>0, <2>1
<1>12. ASSUME NEW i \in 1..N, NEW j \in 1..M
       PROVE  K(i, j).state = "review_required" <=>
                \E item \in open : item.subject = subjects[i] /\ Contains(item.fields, K(i, j).raw.field.key)
  <2>1. ASSUME K(i, j).state = "review_required"
        PROVE  \E item \in open : item.subject = subjects[i] /\ Contains(item.fields, K(i, j).raw.field.key)
    <3>1. PICK r : Sees(i, j, r) /\ r.review
      BY <1>5, <2>1
    <3>2. r \in Indexed(q) /\ r.fact.subject = subjects[i]
      BY <1>5, <1>11, <3>1
    <3>3. IsItemOf(ItemOf(q, r), r, q)
      BY <3>2 DEF ItemSetFits
    <3>4. ItemOf(q, r) \in open
      BY <1>10, <3>1, <3>2, <3>3
    <3>5. ItemOf(q, r).subject = subjects[i]
      BY <1>9, <3>2
    <3>6. Contains(ItemOf(q, r).fields, placed[j].key)
      BY <1>9, <3>1, <3>2
    <3>. QED BY <1>5, <3>4, <3>5, <3>6
  <2>2. ASSUME NEW item \in open, item.subject = subjects[i], Contains(item.fields, K(i, j).raw.field.key)
        PROVE  K(i, j).state = "review_required"
    <3>1. PICK r \in Indexed(q) : r.review /\ IsItemOf(item, r, q)
      BY <1>10
    <3>2. item = ItemOf(q, r) /\ Contains(item.fields, placed[j].key)
      BY <1>5, <2>2, <3>1 DEF IsItemOf
    <3>3. r.fact.subject = subjects[i] /\ placed[j].key \in Range(item.fields)
      BY <1>9, <2>2, <3>2
    <3>4. PICK h \in 1..N, l \in 1..M : Sees(h, l, r) /\ placed[j].key = placed[l].key
      BY <1>9, <3>2, <3>3
    <3>5. l = j
      BY <1>8, <3>4
    <3>6. subjects[h] = subjects[i]
      BY <1>5, <3>3, <3>4
    <3>7. h = i
      BY <1>3, <3>6 DEF IsInjective
    <3>. QED BY <1>5, <3>1, <3>4, <3>5, <3>7
  <2>. QED BY <2>1, <2>2
<1>13. SUFFICES ASSUME NEW subject \in {r.subject : r \in Range(view.records)},
                       NEW f \in Range(FieldsIn(Where(view.records, LAMBDA r : r.subject = subject)[1]))
                PROVE  f.state = "review_required" <=>
                         \E i \in open : i.subject = subject /\ Contains(i.fields, f.raw.field.key)
  BY DEF OpenShown
<1>14. PICK i \in 1..N : subject = subjects[i]
  <2>1. PICK r \in Range(view.records) : subject = r.subject
    BY <1>13
  <2>2. PICK i \in 1..N : r = view.records[i]
    BY <1>2, <2>1 DEF Range
  <2>. QED BY <1>4, <2>1, <2>2
<1>15. f \in Range(FieldsIn(view.records[i]))
  <2>1. Where(view.records, LAMBDA r : r.subject = subject) = Picked(view.records, At(subject))
    BY DEF Where, At
  <2>2. Where(view.records, LAMBDA r : r.subject = subject)[1] = view.records[i]
    BY <1>6, <1>14, <2>1
  <2>. QED BY <1>13, <2>2
<1>16. PICK j \in 1..M : f = K(i, j)
  BY <1>7, <1>15
<1>. QED BY <1>12, <1>14, <1>16
================================================================================
