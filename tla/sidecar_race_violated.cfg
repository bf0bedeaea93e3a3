\* Two processes persist a sidecar under one id.
SPECIFICATION AuditSpec
CONSTANTS
    NoEntry = NoEntry
    Torn = Torn
    Processes = {p1, p2}
    RunIds = {r1}
CHECK_DEADLOCK FALSE
INVARIANTS
    OneRunCommits
