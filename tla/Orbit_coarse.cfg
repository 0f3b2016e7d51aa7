SPECIFICATION OrbitSpec
CONSTANTS
    P = 4
    N = 3
    F = 1
    Ticks = 24
    Rising = 4
    Interval = 3
    NULL = NULL
    LatLimit = 1
    MaxLat = 2
INVARIANT NoDoubleBooking
