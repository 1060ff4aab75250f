CONSTANTS
  a = a
  b = b
  c = c
  w1 = w1
  None = None
  Ids <- MCIds
  Walkers <- MCWalkers
  Listings <- MCListings
  Calls <- MCCalls
  MaxProcesses = 2
  DefaultLimit = 2
  MaximumLimit = 2
  Lifetime = 1
  Fallback = 1
  MaximumItems = 3
  MaximumPages = 3
  MaxTime = 3
SPECIFICATION FairSpec
INVARIANTS
  TypeOK
  OneCatalogue
  ExpiredIsForgotten
PROPERTY TraversalEnds
