SPECIFICATION Spec
CONSTANTS
  Texts <- SomeTexts
  Descriptors = {3, 4}
  Addresses = {1, 2, 3}
  FileSizes = {0, 2, 9, 12}
  PageSize = 8
INVARIANTS
  MapLive
  NothingLeft
  TextKept
CHECK_DEADLOCK FALSE
