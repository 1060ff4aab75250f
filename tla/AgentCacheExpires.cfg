CONSTANTS
  t1 = t1
  t2 = t2
  u1 = u1
  None = None
  Tasks <- BreadthTasks
  Targets <- MCTargets
  Requests <- BreadthRequests
  Headers <- UnreadableHeaders
  Capacity = 1
  MaxVersion = 2
  MaxTime = 2
SPECIFICATION Spec
INVARIANT FallbackNeverOverrides
