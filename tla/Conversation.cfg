\* Two channels, as in the simultaneous-open scenario after its first.
CONSTANTS
    Types = {text}
    Payloads = {empty, long}
    Labels = {1, 2}
    Zeros = zeros
    Count = 2
    MaxFaults = 2
    MaxRepeats = 1
SPECIFICATION FairConversation
INVARIANTS
    NoFalseAlarm
    PassMeansEchoed
    EventLogComplete
    PassMeansRejected
    PassMeansAbandoned
    NoFalseFailure
PROPERTY
    Ends
\* The exchange and the probe end.
CHECK_DEADLOCK FALSE
