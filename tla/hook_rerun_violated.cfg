\* The same Stop event is delivered twice, nothing else changes.
SPECIFICATION Spec
CONSTANTS
    Runs = {h1, h2}
    Turns = {t}
    Projects = {1}
    MaxDepth = 1
    Destinations = {d1}
    d1 = d1
    Registrations <- OneRegistration
    None = None
    MaxVersions = 1
    MaxChanges = 0
CHECK_DEADLOCK FALSE
INVARIANTS
    RerunIsIdempotent
