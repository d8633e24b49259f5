CONSTANTS
    Kinds = {"plain", "relay", "impaired", "abrupt"}
    Count = 2
    FragileCleanup = TRUE
SPECIFICATION FairSpec
INVARIANTS
    NoFalseAlarm
    PassMeansEchoed
    AutonomousClose
PROPERTIES
    ImplementsContract
    Ends
\* The scenario ends.
CHECK_DEADLOCK FALSE
