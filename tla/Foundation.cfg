SPECIFICATION FairGate
CONSTANTS
    Types = {text, binary}
    Payloads = {empty, long}
    Labels = {channel}
    Zeros = zeros
    MaxRecords = 3
    Count = 2
    MaxFaults = 1
INVARIANTS
    UnorderedAcceptsRearrangements
    PassMeansCalibrated
    NoFalseAlarm
PROPERTY Ends
\* The gate ends.
CHECK_DEADLOCK FALSE
