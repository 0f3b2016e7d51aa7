SPECIFICATION LimitsSpec
CONSTANTS
  Threads = {t1, t2}
  RreqLimit = 2
  RerrLimit = 1
  MaxRequests = 5
  MaxErrors = 2
  Keys = {k1, k2, k3}
  LifeTimes = {0, 2}
  MaxTicks = 5
  MaxLen = 4
CHECK_DEADLOCK FALSE
INVARIANT NoRequestLost LiveIdsKnown
PROPERTY EveryRequestOriginated BurstEnds
