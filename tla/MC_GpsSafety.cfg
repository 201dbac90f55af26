SPECIFICATION FairSpec
CONSTANTS
    None = None
    Skews <- SomeSkews
    MaxTime = 2
    MaxQueue = 2
    MaxBurst = 1
    MaxMisc = 1
    Malformed = {"badtime", "odd"}
    GpsdMayGo = TRUE
INVARIANTS
    TypeOK
    NeverStale
    TimestampWithin
PROPERTIES
    StopEnds
    FixFollows
\* The model's time ends, and so may the thread.
CHECK_DEADLOCK FALSE
