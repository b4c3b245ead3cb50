SPECIFICATION Spec
CONSTANTS
  Thread = {t1, t2, t3}
  NoThread = NoThread
SYMMETRY ThreadSymmetry
INVARIANTS UnlocksOwnMutexes
