SPECIFICATION Spec
CONSTANTS
  Sockets = {s1}
  Articles = {a1, a2}
  Threads = {t1, t2}
  MaxMessages = 3
  MaxConns = 2
  Parallel = FALSE
PROPERTIES
  ImplementsService
CHECK_DEADLOCK FALSE
