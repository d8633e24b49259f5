SPECIFICATION FairSpec
CONSTANTS
    MaxCycles = 3
    Budget = 1
INVARIANTS
    CyclesIsolated
    PassMeansFollowed
    FailMeansRan
PROPERTIES
    ImplementsContract
    Ends
\* The campaign ends.
CHECK_DEADLOCK FALSE
