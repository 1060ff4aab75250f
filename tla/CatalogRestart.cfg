CONSTANTS
  a = a
  b = b
  c = c
  None = None
  Ids <- MCIds
  Listings <- MCListings
  MaxProcesses = 2
  Limits <- MCLimits
  MaxIssued = 2
  DefaultLimit = 2
  MaximumLimit = 2
  Lifetime = 1
  MaxTime = 2
SPECIFICATION Spec
INVARIANT UsableForItsLifetime
