\* Streams of at most four pieces, cut anywhere; three processes that persist the
\* sidecars of two runs, together or one after another.
SPECIFICATION EndsSpec
CONSTANTS
    Streams <- AllStreams
    MaxPieces = 4
    FrameMax = 2
    BlockMax = 9
    LineMax = 5
    LinesMax = 2
    DigitsMax = 2
    NoLength = NoLength
    NoEntry = NoEntry
    Torn = Torn
    Processes = {p1, p2, p3}
    RunIds = {r1, r2}
CHECK_DEADLOCK FALSE
INVARIANTS
    DecodingIsExact
    BufferIsBounded
    FinalsAreComplete
PROPERTY
    WriteOnce
