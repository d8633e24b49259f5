SPECIFICATION FairMedia
CONSTANTS
    AllowForeign = TRUE
    FragileCleanup = TRUE
    FragileBrowser = FALSE
INVARIANTS
    OwnProcessJudged
    CleanPass
PROPERTIES
    ImplementsContract
    Ends
\* The scenario ends.
CHECK_DEADLOCK FALSE
