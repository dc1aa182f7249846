------------------------ MODULE MCRevisionLifecycle --------------------------
(* Small instances of RevisionLifecycle for TLC. *)
EXTENDS RevisionLifecycle, TLC

\* Operators are interchangeable, and so are workers.
Symmetry == Permutations(Requests) \cup Permutations(Workers)

==============================================================================
