SPECIFICATION Spec
CONSTANTS
  A = A
  B = B
  a1 = a1
  b1 = b1
  NoRef = NoRef
  Addresses <- MCAddresses
  Rank <- MCRank
  Refs <- MCRefs
  Addr <- MCAddr
  BadLinkLifetime = 1
  RouteLife = 1
  NetDiameter = 4
  TtlStart = 1
  TtlIncrement = 1
  TtlThreshold = 2
  SeqMod = 4
  Ids = {1, 2}
  MaxHops = 1
  Epoch = 4
  EarlierRequests = {0, 5}
  MaxTicks = 1
  MaxCalls = 4
CHECK_DEADLOCK FALSE
INVARIANT ValidHasNextHop OneHopIsNeighbor
PROPERTY FreshestSeqKept
