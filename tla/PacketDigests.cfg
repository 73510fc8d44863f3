CONSTANTS
  MaxShort = 110
  ZipLen <- MCZipLen
  Full <- MCFull
  Requests <- MCRequests
  Texts <- MCTexts
  Digests <- MCDigests
  BaseNum = 2
  Now = 8
  MaxPackets = 2
  Cuts <- MCCuts
SPECIFICATION Spec
INVARIANT DigestsRead
CHECK_DEADLOCK FALSE
