SPECIFICATION Spec
CONSTANTS
    c1 = c1
    c2 = c2
    Clients = {c1, c2}
    Main = Main
    NoOne = NoOne
    Torn = Torn
    MaxStarts = 2
    MaxChunks = 1
    MaxSpots = 1
    MaxCrashes = 1
    CaptureMayFail = FALSE
    WriteMayFail = FALSE
    CrashMayTear = FALSE
    ClientsMayStall = FALSE
SYMMETRY Symmetry
INVARIANTS
    ListeningMeansCapturing
