SPECIFICATION Spec
CONSTANTS
  t1 = t1  t2 = t2  t3 = t3
  x1 = x1  x2 = x2
  b1 = b1  b2 = b2
  Thread = {t1, t2}
  Obj = {x1, x2}
  Val = {v1, v2}
  Bit = {b1, b2}
  Hash <- HashFalsePositive
  RestartThread = {t1, t2}
  IrrevocableThread = {t1}
  CmAnswer = {TRUE, FALSE}
  NoThread = NoThread
  NoVal = NoVal
  NoObj = NoObj
INVARIANTS TypeOK OneWriteBack NoHandleUnderWriteBack DoomedOrConsistent NoWaitingCycle
PROPERTIES ImplementsAtomicStore DoomedOnlyByCommits
SYMMETRY ValueSymmetry
