CONSTANTS
  MaxShort = 110
  ZipLen <- MCZipLen
  Full <- MCFull
  Requests <- MCRequests
  Texts <- MCTexts
  Digests <- MCDigests
  BaseNum = 2
  Now = 8
  MaxPackets = 2
  Cuts <- MCCuts
SPECIFICATION Spec
INVARIANTS
  TypeOK
  PacketsRead
  AnswersExact
CHECK_DEADLOCK FALSE
