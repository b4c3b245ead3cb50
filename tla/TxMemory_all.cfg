SPECIFICATION Spec
CONSTANTS
  Thread = {t1, t2, t3}
  Cell = {c1, c2}
  MaxTime = 2
  NoThread = NoThread
  NoCell = NoCell
INVARIANTS TypeOK LinkedIsShared FreedOnce
PROPERTY BufferProtects
SYMMETRY Symmetry
