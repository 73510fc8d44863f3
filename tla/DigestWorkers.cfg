SPECIFICATION Spec
CONSTANTS
  Sockets = {s1}
  Articles = {a1, a2}
  Threads = {t1, t2}
  MaxMessages = 5
  MaxConns = 1
  Parallel = TRUE
INVARIANTS
  TypeOK
  RepliesExact
  CacheExact
  CopyFresh
PROPERTIES
  WorkersComeBack
CHECK_DEADLOCK FALSE
