\* Two hook processes over one turn, nested workspaces of two projects that
\* change their registration; git and Core may block.
SPECIFICATION FairSpec
CONSTANTS
    Runs = {h1, h2}
    Turns = {t}
    Projects = {1, 2}
    MaxDepth = 2
    Destinations = {d1}
    d1 = d1
    Registrations <- MCRegistrations
    None = None
    MaxVersions = 3
    MaxChanges = 1
INVARIANTS
    SilenceMeansRecorded
    RecordedIsConnected
PROPERTIES
    HookEnds
