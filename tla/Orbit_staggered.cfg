SPECIFICATION OrbitSpec
CONSTANTS
    P = 3
    N = 3
    F = 1
    Ticks = 18
    Rising = 3
    Interval = 2
    NULL = NULL
    LatLimit = 1
    MaxLat = 2
INVARIANT NeighbourWiring BreakedIsExact PoolNeverExhausted LinksFollowPolar
PROPERTY ImplementsStaggered
