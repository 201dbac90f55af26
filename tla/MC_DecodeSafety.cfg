SPECIFICATION FairSpec
CONSTANTS
    MaxName = 4
    Outputs <- MCOutputs
    Asked <- MCAsked
INVARIANTS
    TypeOK
    SpotsInOrder
    NoSpotLost
PROPERTIES
    StopEnds
    NewFileDecoded
    FeedSpec
\* The thread ends once it is told to stop.
CHECK_DEADLOCK FALSE
