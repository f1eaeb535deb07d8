----------------------------- MODULE MCEngine -----------------------------
(* Engine for TLC: the symmetry of the safety runs.                        *)
EXTENDS Engine, TLC

Symmetry ==
  Permutations(Callers) \cup Permutations(Loaders)
    \cup Permutations(Reapers) \cup Permutations(Models)

=============================================================================
