---------------------------- MODULE MCJobStorage ----------------------------
(* JobStorage for TLC: jobs, workers and readers are interchangeable.      *)
EXTENDS JobStorage, TLC

Symmetry == Permutations(Jobs) \cup Permutations(Workers)
                \cup Permutations(Readers)

=============================================================================
