------------------------------ MODULE RowSequences ------------------------------
(* Rows as the code sorts and filters them, defined by their places.           *)
EXTENDS Naturals, Sequences, FiniteSets, SequencesExt

\* What is sorted, each at its rank; no two share one, since every sort key ends with an id.
Ranked(set, rank) == [i \in 1..Cardinality(set) |-> CHOOSE x \in set : rank[x] = i - 1]
Sorted(set, Before(_, _)) ==
    Ranked(set, [x \in set |-> Cardinality({y \in set : Before(y, x)})])

\* What stands at some places of a sequence, in its order.
Picked(seq, places) ==
    LET order == Sorted(places, <) IN [n \in DOMAIN order |-> seq[order[n]]]

Where(seq, Test(_)) == Picked(seq, {i \in DOMAIN seq : Test(seq[i])})

\* The places of a sequence by a number each has, equal ones as they stand.
Stably(key) ==
    Sorted(DOMAIN key, LAMBDA i, j : key[i] < key[j] \/ (key[i] = key[j] /\ i < j))

\* What a loop collects that leaves out what it has.
Noted(seen, x) == IF Contains(seen, x) THEN seen ELSE Append(seen, x)
EachOnce(seq) == FoldLeft(Noted, << >>, seq)

\* The sum of the numbers that belong to the members of a set, or of all a function has.
Total(w, S) == FoldFunctionOnSet(+, 0, w, S)
SumOver(w) == Total(w, DOMAIN w)
=================================================================================
