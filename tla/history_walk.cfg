\* Two processes open a database of any version with two rows; one reader walks
\* the history while it grows to three rows of two projects; one crash.
SPECIFICATION FairSpec
CONSTANTS
    Procs = {p1, p2}
    OldRows = {a, b}
    MaxCrashes = 1
    Readers = {r1}
    Ids = {a, b, c}
    Projects = {p, q}
    WorkItems = {w}
    NoItem = NoItem
    None = None
    MaxLimit = 2
INVARIANTS
    WalkIsExact
    PagesAreFull
    OpenIsScoped
PROPERTIES
    EveryProcessOpens
CHECK_DEADLOCK FALSE
