CONSTANTS
    c1 = c1
    c3 = c3
    i1 = i1
    i3 = i3
    None = None
    s1 = s1
    s2 = s2
    Call = {c1, c3}
    Streams = {c1}
    Id = {i1, i3}
    IdOf <- DistinctIds
    NumReplicas = 2
    Capacity = 1
    Terminals = {s1, s2}
    ResolverRejects = FALSE
    BroadcastMayFail = TRUE
SPECIFICATION Spec
SYMMETRY StageSymmetry
INVARIANTS
    InflightExact
    NoCallerStranded
