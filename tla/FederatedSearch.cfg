CONSTANTS
  full = full
  empty = empty
  Services <- MCServices
  Catalogue <- MCCatalogue
  Asked <- MCAsked
  DefaultServices = 2
  MaximumServices = 3
  DefaultOfferings = 2
  MaximumOfferings = 3
  DefaultConcurrency = 2
  MaximumConcurrency = 3
  MaxPages = 2
SPECIFICATION FairSpec
CHECK_DEADLOCK FALSE
INVARIANTS
  TypeOK
  WindowBound
  NoSilentTruncation
PROPERTIES
  ImplementsOrderedReport
  SearchEnds
