\* Two bridges, one project whose registration changes while requests run.
SPECIFICATION Spec
CONSTANTS
    Bridges = {b1, b2}
    Projects = {p}
    Items = {i, j}
    Ids = {a}
    d1 = d1
    w1 = w1
    w2 = w2
    Destinations = {d1}
    Workspaces = {w1, w2}
    Bodies = {x, y}
    Registrations <- MCRegistrations
    None = None
    MaxCrashes = 1
INVARIANTS
    ActiveWasCleared
    RecordedFromOneRegistration
    RetryIsRefusedOnlyAfterChange
