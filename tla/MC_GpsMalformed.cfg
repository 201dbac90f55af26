SPECIFICATION Spec
CONSTANTS
    None = None
    Skews <- SomeSkews
    MaxTime = 1
    MaxQueue = 2
    MaxBurst = 1
    MaxMisc = 1
    Malformed = {"badtime"}
    GpsdMayGo = FALSE
INVARIANTS
    PollingGoesOn
\* The model's time ends, and so may the thread.
CHECK_DEADLOCK FALSE
