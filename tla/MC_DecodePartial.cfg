SPECIFICATION Spec
CONSTANTS
    MaxName = 3
    Outputs <- MCOutputs
    Asked <- MCAsked
INVARIANTS
    WholeWhenDecoded
\* The thread ends once it is told to stop.
CHECK_DEADLOCK FALSE
