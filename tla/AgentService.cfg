CONSTANTS
  New = New
  None = None
  Segments <- MCSegments
  Longer <- MCLonger
  Identifiers <- MCIdentifiers
  MaximumLimit = 2
  Deployments <- MCDeployments
  Calls <- MCCalls
  Probes <- MCProbes
  CatalogAnswers <- MCCatalogAnswers
SPECIFICATION Spec
INVARIANTS
  TypeOK
  AsAsked
  RefusalIsStale
  NotModifiedIsCurrent
  PublishedIsSound
  NothingLost
  BestVariant
