\* Two replicas with two slots each; five connections compete for four slots.
CONSTANTS
    Session = {s1, s2, s3, s4, s5}
    replica_count = 2
    max_sessions = 4
SPECIFICATION ManagerSpec
SYMMETRY SessionSymmetry
INVARIANTS
    ManagerTypeOK
    ReplicaWithinCapacity
PROPERTIES
    RefusedOnlyWhenFull
CHECK_DEADLOCK FALSE
