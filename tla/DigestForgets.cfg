SPECIFICATION Spec
CONSTANTS
  Sockets = {s1}
  Articles = {a1}
  Threads = {t1}
  MaxMessages = 2
  MaxConns = 1
  Parallel = FALSE
PROPERTIES
  EndForgets
CHECK_DEADLOCK FALSE
