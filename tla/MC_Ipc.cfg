SPECIFICATION Spec
CONSTANTS
    c1 = c1
    c2 = c2
    w1 = w1
    Threads = {c1, c2}
    Workers = {w1}
    NoOne = NoOne
    NoWorker = NoWorker
    Numbers = {1}
    Boots <- MCBoots
    Restless = {c2}
    BufSize = 2
    MaxStarts = 1
    MaxSpots = 1
CHECK_DEADLOCK FALSE
INVARIANTS
    TypeOK
    LinesWhole
    AnswersInOrder
    ListeningHasSession
    SpotReachesAll
PROPERTIES
    CommandsAnswered
    GhostsRemoved
    BroadcastsEnd
