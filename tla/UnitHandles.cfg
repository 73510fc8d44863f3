SPECIFICATION Spec
CONSTANTS
  Sockets = {s1, s2}
  Threads = {t1, t2, t3}
  MaxUnits = 2
SYMMETRY Interchangeable
INVARIANTS
  TypeOK
  CountExact
  HeldAlive
  DeletesExact
CHECK_DEADLOCK FALSE
