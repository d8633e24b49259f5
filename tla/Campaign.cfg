CONSTANTS
    NumScenarios = 2
    BrowserScenarios = {2}
    NumArtifacts = 2
    NumTrees = 1
    Unknown = unknown
    MaxVersion = 1
    MaxDisturbances = 1
SPECIFICATION FairSpec
INVARIANTS
    UnchangedOnPass
    VerdictBacked
    FailuresRecorded
    NothingMixed
PROPERTY Ends
\* The campaign ends.
CHECK_DEADLOCK FALSE
