SPECIFICATION Spec
CONSTANTS
  d1 = d1
  d2 = d2
  d3 = d3
  Addresses <- MCAddresses
  Rank <- MCRank
  Ifaces = {i1}
  LifeTimes = {2}
  BadLinkLifetime = 1
  MaxCnt = 2
  Epoch = 4
  MaxTicks = 1
CHECK_DEADLOCK FALSE
PROPERTY ValidUntilDue
