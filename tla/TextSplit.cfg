SPECIFICATION FairSpec
CONSTANTS
  MaxSize = 5
  Limit = 2
INVARIANTS
  TypeOK
  OutputExact
PROPERTIES
  Ends
CHECK_DEADLOCK FALSE
