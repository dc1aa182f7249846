-------------------------- MODULE MCProjectVersions ---------------------------
(* Small instances of ProjectVersions for TLC. *)
EXTENDS ProjectVersions, TLC

Symmetry == Permutations(Users) \cup Permutations(Assessments)
            \cup Permutations(VersionIds)
==============================================================================
