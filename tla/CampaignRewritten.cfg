\* Every tree can be examined, none of the operations has a browser.
CONSTANTS
    NumScenarios = 2
    BrowserScenarios = {}
    NumArtifacts = 1
    NumTrees = 0
    Unknown = unknown
    MaxVersion = 1
    MaxDisturbances = 1
SPECIFICATION Spec
INVARIANT ChangeNeverPasses
CHECK_DEADLOCK FALSE
