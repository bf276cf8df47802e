SPECIFICATION Spec
CONSTANTS
  t1 = t1 t2 = t2
  e1 = e1 e2 = e2 e3 = e3
  Threads = {t1, t2}
  Entries = {e1, e2, e3}
  Nil = Nil
INVARIANTS
  PoolWhole
  SoleWriter
  PoolOutlivesUse
PROPERTY
  LockFree
CHECK_DEADLOCK FALSE
