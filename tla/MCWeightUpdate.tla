--------------------------- MODULE MCWeightUpdate ---------------------------
(* Instances of WeightUpdate for TLC.                                      *)
EXTENDS WeightUpdate, TLC

\* Workers and data planes are interchangeable (safety properties only).
Symmetry == Permutations(Worker) \cup Permutations(DP)
=============================================================================
