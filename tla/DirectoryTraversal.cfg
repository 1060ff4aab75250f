CONSTANTS
  None = None
  search = search
  second = second
  third = third
  named = named
  elsewhere = elsewhere
  SearchUrl = search
  Home <- MCHome
  Named <- MCNamed
  Away <- MCAway
  Calls <- MCCalls
  Pages <- MCPages
  MAXIMUM_REDIRECTS = 2
  MAXIMUM_TRAVERSAL = 3
  MAXIMUM_PAGES = 4
SPECIFICATION FairSpec
INVARIANTS
  TypeOK
  StaysHome
  StillWanted
  NoCursorTwice
  RequestBound
  CollectsAll
PROPERTY CallEnds
