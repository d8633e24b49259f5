SPECIFICATION FairSpec
CONSTANTS
    Count = 2
    Messages = 2
    MaxFaults = 2
INVARIANTS
    PassMeansOwn
    NoFalseAlarm
PROPERTIES
    ImplementsContract
    Ends
\* The scenario ends.
CHECK_DEADLOCK FALSE
