\* Two items, three requests, two faults of Board of any kind.
SPECIFICATION AdapterFairSpec
CONSTANTS
    Items = {i, j}
    NoItem = NoItem
    MaxRequests = 3
    MaxFaults = 2
INVARIANTS
    AssessmentIsFresh
    EveryFailureHasAFault
PROPERTIES
    RequestsAreAnswered
