CONSTANTS
  None = None
  a = a
  b = b
  Suffix = {a, b}
  Flavor = a
  Listings <- SmallListings
  Others <- SomeOthers
  Requests <- SomeRequests
  EndOfLife <- SomeLines
SPECIFICATION Spec
CHECK_DEADLOCK FALSE
INVARIANTS SelectionOrderFree AnswerIsNewest TagNamesPick PublishedIsFound
