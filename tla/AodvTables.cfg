SPECIFICATION TablesSpec
CONSTANTS
  d1 = d1
  d2 = d2
  d3 = d3
  Addresses <- MCAddresses
  Rank <- MCRank
  Ifaces = {i1}
  LifeTimes = {1}
  BadLinkLifetime = 1
  MaxCnt = 2
  Epoch = 4
  MaxTicks = 2
  p1 = p1
  p2 = p2
  u2 = u2
  ra = ra
  rc = rc
  dstA = dstA
  dstC = dstC
  NoUid = NoUid
  Packets <- MCPackets
  Uid <- MCUid
  HeaderRefs <- MCRefs
  HeaderAddr <- MCAddr
  MaxLens = {0, 2, 3}
  QueueTimeout = 0
  MaxOffers = 3
  QueueTicks = 1
  MaxTimeouts = 1
  NeighborRefs = {n1, n2, n3}
  Macs = {m1}
  NoMac = NoMac
  NeighborLifeTime = 1
  NeighborTicks = 3
  MaxCalls = 1
CHECK_DEADLOCK FALSE
INVARIANT CountOnlyInSearch BrokenRoutesInvalid  OldestFirst NoSilentRemoval
PROPERTY  LiveNeighborsKept
