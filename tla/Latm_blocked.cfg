SPECIFICATION Spec
CONSTANTS
  Thread = {t1, t2}
  Mutex = {m1, m2}
  Policy = {"tx"}
  Update = {FALSE}
  NoThread = NoThread
  NoMutex = NoMutex
INVARIANTS BlockedForALock
SYMMETRY Symmetry
CHECK_DEADLOCK FALSE
