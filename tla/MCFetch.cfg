SPECIFICATION FairSpec
CONSTANTS
    Spans = {s1, s2, s3}
    Tagged = {s1, s2}
    Bounds <- MCBounds
    Cap = 3
    Settle = 4
    Wait = 6
    Pause = 1
    MaxLatency = 1
    MaxGap = 2
INVARIANTS
    TypeOK
    StableWasQuiet
    StableIsComplete
    NoSpansIsTrue
    UnstableIsLate
PROPERTY Ends
CHECK_DEADLOCK FALSE
