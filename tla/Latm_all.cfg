SPECIFICATION Spec
CONSTANTS
  Thread = {t1, t2}
  Mutex = {m1, m2}
  Policy = {"full", "tm", "tx"}
  Update = {TRUE, FALSE}
  NoThread = NoThread
  NoMutex = NoMutex
INVARIANTS TypeOK IsolatedRunsAlone LocksKeepTransactionsOut BlockedUntilReleased
SYMMETRY Symmetry
CONSTRAINTS
  AtMostThreeDeclared AtMostOneIrrevocable AtMostOneTmConflict
  AtMostOneObtained TrylockOnlyOutside
CHECK_DEADLOCK FALSE
