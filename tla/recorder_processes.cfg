\* Two processes record and sync one identity with two contents for one or two
\* destinations; one crash.
SPECIFICATION FairSpec
CONSTANTS
    Procs = {p1, p2}
    Syncers = {p1, p2}
    Ids = {a}
    c1 = c1
    c2 = c2
    d1 = d1
    d2 = d2
    Contents = {c1, c2}
    Destinations = {d1, d2}
    DeliverySets <- AskedFor
    NoContent = NoContent
    MaxCalls = 1
    MaxCrashes = 1
INVARIANTS
    ReceiptsHold
    FirstRecordIsUnique
    AcceptedIsRecorded
    SyncedWasAccepted
    AttemptsAreCalls
PROPERTIES
    LedgerIsImplemented
    DeliveriesStaySettled
