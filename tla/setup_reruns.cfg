SPECIFICATION Spec
CONSTANTS
    None = None
    s1 = s1
    s2 = s2
    d1 = d1
    d2 = d2
    g1 = g1
    g2 = g2
    v1 = v1
    v2 = v2
    Setups = {s1, s2}
    Binaries = {d1, d2}
    Roots = {d1, d2}
    Registrations = {g1, g2}
    Versions = {v1, v2}
    Requests <- MCRequests
    Kinds = {"doctor", "status"}
SYMMETRY Symmetry
INVARIANTS
    CheckupIsRight
PROPERTIES
    SuccessMeansInstalled
    NothingIsOverwritten
    MatchingStateIsLeft
