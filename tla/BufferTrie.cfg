SPECIFICATION Spec
CONSTANTS
  Dicts <- SmallDicts
  Texts <- SmallTexts
  Width = 4
  Block = 4
INVARIANTS
  TypeOK
  LastSlotFree
  LookupsExact
  SavedComplete
PROPERTIES
  KeepsWritten
CHECK_DEADLOCK FALSE
