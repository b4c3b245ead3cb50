SPECIFICATION FairSpec
CONSTANTS
  Thread = {t1, t2, t3}
  NoThread = NoThread
INVARIANTS TypeOK RegistryInv UnlocksOwnBehindBarrier NoAccessUnderWriteBack OneWriteBack
           NoWaitingCycle
PROPERTIES RegistryFrozenByCommit WalksEnd
