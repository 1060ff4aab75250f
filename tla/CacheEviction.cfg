CONSTANTS
  t1 = t1
  t2 = t2
  u1 = u1
  None = None
  Tasks <- RaceTasks
  Targets <- MCTargets
  Requests <- EvictionRequests
  Headers <- EvictionHeaders
  Capacity = 2
  MaxVersion = 1
  MaxTime = 2
SPECIFICATION EvictionSpec
PROPERTY LeastRecentlyStoredLeaves
