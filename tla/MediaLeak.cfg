\* A browser may fail to close; the port and the cleanup of baresip are fine.
CONSTANTS
    AllowForeign = FALSE
    FragileCleanup = FALSE
    FragileBrowser = TRUE
SPECIFICATION FairMedia
PROPERTY Immutable
CHECK_DEADLOCK FALSE
