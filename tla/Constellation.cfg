SPECIFICATION Spec
CONSTANTS
    P = 3
    N = 1
    NULL = NULL
    LatLimit = 1
    MaxLat = 2
INVARIANT IInv SendFindsBothEnds
