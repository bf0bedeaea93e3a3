\* Three installers of two builds and two commands; one kill, one rebuilt file and
\* one edit or replaced binary.
SPECIFICATION MCSpec
CONSTANTS
    Installers = {i1, i2, i3}
    Builds = {x, y}
    Runs = {r1, r2}
    None = None
    MaxCrashes = 1
    MaxRebuilds = 1
    MaxChanges = 1
SYMMETRY Symmetry
CHECK_DEADLOCK FALSE
INVARIANTS
    AppRefusalHasAReason
    ReportIsTrue
    UsedWasValidated
PROPERTIES
    CacheIsImplemented
