CONSTANTS
  Absent = Absent
  Locations <- MCLocations
  SecureLocations <- MCSecureLocations
  Documents <- MCDocuments
  MaximumDocuments = 4
  MaximumDepth = 2
  MaximumGraphBytes = 5
  PageLocations <- MCPageLocations
  MaximumCapabilityPages = 2
  MaximumFilters = 2
  MaximumSorts = 2
  PublicAddresses = {"public1", "public2"}
  LoopbackAddresses = {"loopback"}
  LocalHosts = {"localhost"}
  Offerings <- MCOfferings
  WantedActions = {"buy"}
  Capabilities <- MCCapabilities
  ServiceOpenApi = "openapi"
  HostOf <- MCHostOf
  OriginOf <- MCOriginOf
  Web <- MCWeb
  Answers <- MCAnswers
  AllowLocal = TRUE
  MaximumRedirects = 1
SPECIFICATION FairSpec
INVARIANTS
  TypeOK
  ResolvedIsClosed
  GraphIsJudgedFairly
  CatalogIsAccountedFor
  DetailsAreSound
  OnlyJudgedPeers
PROPERTY LookupEnds
