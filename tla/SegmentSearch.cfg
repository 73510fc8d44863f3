SPECIFICATION Spec
CONSTANTS
  N = 3
  BufSize = 2
  TotalLogP = 29
  StopwordLogP = 27
  Chunks <- AllChunks
  Garbage <- MCGarbage
INVARIANTS
  TypeOK
  MemoOptimal
  WordsRight
PROPERTIES
  MemoFrozen
  ImplementsPromise
  Terminates
CHECK_DEADLOCK FALSE
