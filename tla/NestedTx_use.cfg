SPECIFICATION Spec
CONSTANTS
  Thread = {t1, t2}
  x1 = x1  x2 = x2
  Obj = {x1, x2}
  Val = {0, 1}
  OuterKind = {"try_atomic"}
  InnerKind = {"use_atomic"}
  MaxDepth = 2
  NoVal = NoVal
SYMMETRY Symmetry
INVARIANTS NestKeepsItsWork
