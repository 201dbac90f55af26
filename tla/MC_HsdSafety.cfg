SPECIFICATION Spec
CONSTANTS
    c1 = c1
    c2 = c2
    Clients = {c1, c2}
    Main = Main
    NoOne = NoOne
    Torn = Torn
    MaxStarts = 3
    MaxChunks = 2
    MaxSpots = 2
    MaxCrashes = 1
    CaptureMayFail = FALSE
    WriteMayFail = FALSE
    CrashMayTear = FALSE
    ClientsMayStall = FALSE
SYMMETRY Symmetry
INVARIANTS
    TypeOK
    CountMatchesLog
    ActiveSession
    EachSpotLoggedOnce
    OneUnstoppedWorker
    OnlyThisSessionsChunks
    DiskAgrees
    FreshNumbers
PROPERTIES
    LogsAppendOnly
    SessionSpec
