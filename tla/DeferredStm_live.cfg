SPECIFICATION FairSpec
CONSTANTS
  t1 = t1  t2 = t2  t3 = t3
  x1 = x1  x2 = x2
  b1 = b1  b2 = b2
  Thread = {t1, t2}
  Obj = {x1}
  Val = {0, 1}
  Bit = {b1, b2}
  Hash <- HashCollide
  RestartThread = {t1}
  IrrevocableThread = {}
  CmAnswer = {TRUE}
  NoThread = NoThread
  NoVal = NoVal
  NoObj = NoObj
INVARIANTS ProtocolInv
PROPERTIES CommitsKeepComing CommitsAtomically
