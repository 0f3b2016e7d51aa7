SPECIFICATION Spec
CONSTANTS
    Links = {c1, c2}
    QueueSize = 2
    MaxPackets = 8
    NULL = NULL
INVARIANT NoIdleBacklog StartedInOrder
PROPERTY EveryPacketStarts
