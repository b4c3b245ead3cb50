SPECIFICATION Spec
CONSTANTS
  Thread = {t1, t2}
  Obj = {x1, x2}
  Val = {a, b}
  Late = {TRUE, FALSE}
  CmAnswer = {TRUE, FALSE}
  NoThread = NoThread
  NoObj = NoObj
  NoVal = NoVal
INVARIANTS TypeOK OwnersAreListed DoomedOrCurrent
PROPERTIES OnlyCommitsPublish CommitsAtOnce
SYMMETRY Symmetry
CONSTRAINT UntilRobbed
