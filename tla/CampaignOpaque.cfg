\* Nothing is restored or rebuilt.
CONSTANTS
    NumScenarios = 2
    BrowserScenarios = {}
    NumArtifacts = 1
    NumTrees = 1
    Unknown = unknown
    MaxVersion = 1
    MaxDisturbances = 0
SPECIFICATION Spec
INVARIANT SourcesAreBound
CHECK_DEADLOCK FALSE
