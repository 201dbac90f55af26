SPECIFICATION FairSpec
CONSTANTS
    c1 = c1
    c2 = c2
    Clients = {c1}
    Main = Main
    NoOne = NoOne
    Torn = Torn
    MaxStarts = 2
    MaxChunks = 1
    MaxSpots = 1
    MaxCrashes = 1
    CaptureMayFail = TRUE
    WriteMayFail = TRUE
    CrashMayTear = FALSE
    ClientsMayStall = TRUE
INVARIANTS
    CountCoversLog
PROPERTIES
    StopCompletes
    StoppedWorkersEnd
