CONSTANTS
    DropEvery = 5
    ReorderEvery = 3
    DuplicateEvery = 2
    Mtu = 100
    Delay = 2000
    Jitter = 1000
    Bandwidth = 400
    Sizes = {20, 150}
    MaxDatagrams = 8
SPECIFICATION FairSpec
INVARIANTS
    Conservation
    DepartureOrder
    ReorderEvidence
    DelayExtremes
PROPERTY AllCopiesLeave
\* The read loop ends when the socket fails.
CHECK_DEADLOCK FALSE
