\* The values the impairment scenario gives the TURN server
\* (acceptance/product.py:1367-1384).
CONSTANTS
    DropEvery = 29
    ReorderEvery = 31
    DuplicateEvery = 37
    Mtu = 1400
    Delay = 2000
    Jitter = 2000
    Bandwidth = 2000
    Sizes = {100, 1400}
    MaxDatagrams = 7
SPECIFICATION Spec
INVARIANT DelayVariationReported
CHECK_DEADLOCK FALSE
