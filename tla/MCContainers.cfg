SPECIFICATION MCSpec
CONSTANTS
  Keys = {0, 1, 2, 3, 4, 5, 6, 7, 8}
  Hash <- CollidingHash
  LoadLimit = 1
  Objects = {o1, o2}
  Threads = {t1, t2, t3, t4}
  Pollers = {t4}
  MaxItems = 3
  Nil = Nil
SYMMETRY Symmetry
INVARIANTS WellFormed SearchesAreExact Partition InOrder NoLostWake
PROPERTIES IsKeySet TreeIsKeySet
CHECK_DEADLOCK FALSE
