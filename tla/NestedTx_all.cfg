SPECIFICATION FairSpec
CONSTANTS
  Thread = {t1, t2}
  x1 = x1  x2 = x2
  Obj = {x1}
  Val = {0, 1}
  OuterKind = {"atomic", "try_atomic", "use_atomic"}
  InnerKind = {"atomic"}
  MaxDepth = 3
  NoVal = NoVal
INVARIANTS TypeOK NestKeepsItsWork AbortReachesOutermost
PROPERTIES DoomedNestStartsAgain NestIsOneTransaction
