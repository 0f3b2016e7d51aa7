SPECIFICATION NetSpec
CONSTANTS
    P = 2
    N = 1
    NULL = NULL
    LatLimit = 1
    MaxLat = 2
    QueueSize = 1
    MaxPackets = 2
    Senders <- TwoSenders
INVARIANT OneFatePerPacket ArrivesAtFacingTerminal
PROPERTY NothingSentOverPole ImplementsConstellation ImplementsDevice
