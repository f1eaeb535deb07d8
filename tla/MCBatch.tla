------------------------------- MODULE MCBatch -------------------------------
(* Batch for TLC: every run has the same workflow id, so that their keys are *)
(* the same too.  Workers are interchangeable.                               *)
EXTENDS Batch, TLC

OneId == [r \in Runs |-> "id"]
PerLine == [r \in Runs |-> [i \in Lines |-> i]]
Symmetry == Permutations(Workers)

=============================================================================
