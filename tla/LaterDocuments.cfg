CONSTANTS
  New = New
  None = None
  Documents <- MCDocuments
SPECIFICATION Spec
INVARIANT LaterDocumentsAreRead
CHECK_DEADLOCK FALSE
