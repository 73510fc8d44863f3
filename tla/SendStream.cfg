SPECIFICATION FairSpec
CONSTANTS
  r1 = r1
  r2 = r2
  r3 = r3
  Requests = {r1, r2, r3}
  Words <- Texts
  Batch = 2
  HeadSize = 1
  Capacity = 2
  Threads = {t1, t2}
INVARIANTS
  TypeOK
  Framed
  AnswerExact
  InOrder
PROPERTIES
  WorkersComeBack
CHECK_DEADLOCK FALSE
