------------------------- MODULE MCConsistencyReview --------------------------
(* Small instances of ConsistencyReview for TLC. *)
EXTENDS ConsistencyReview, TLC

Symmetry == Permutations(Users) \cup Permutations(Assessments)
            \cup Permutations(Submissions)
==============================================================================
