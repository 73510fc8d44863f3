SPECIFICATION FairSpec
CONSTANTS
  Nfas <- MCNfas
  Bytes = 2
  Wide = 4
  Machines = {}
  Calls <- MCCalls
INVARIANTS
  TypeOK
  SubsetExact
  ReportsFit
  MatchExact
PROPERTIES
  Returns
CHECK_DEADLOCK FALSE
