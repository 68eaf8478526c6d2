--------------------------- MODULE MCCoordinator ---------------------------
(* Small instances of Coordinator: c1 streams, c3 submits.                 *)
EXTENDS Coordinator, TLC

CONSTANTS c1, c3, i1, i3, s1, s2

\* Every call has an id of its own.
DistinctIds == [c \in Call |-> IF c = c1 THEN i1 ELSE i3]

\* The second call reuses the id of the first.
OneId == [c \in Call |-> i1]

\* The order in which the first terminal is named is immaterial.
StageSymmetry == Permutations(Terminals)

=============================================================================
