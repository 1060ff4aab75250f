CONSTANTS
  t1 = t1
  t2 = t2
  u1 = u1
  None = None
  Tasks <- RaceTasks
  Targets <- MCTargets
  Requests <- RaceRequests
  Headers <- RaceHeaders
  Capacity = 2
  MaxVersion = 2
  MaxTime = 1
SYMMETRY RaceSymmetry
SPECIFICATION Spec
INVARIANTS
  FreshIsGranted
  RevalidatedIsConfirmed
  HeldWithinGrant
PROPERTY RoomIsMade
