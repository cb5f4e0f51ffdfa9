SPECIFICATION FairSpec
CONSTANTS
  Call = {t1, t2, t3, t4}
  Key = {honk, beep}
  NoCall = none
  NoKey = nokey
INVARIANTS Fifo EntriesAreBusyKeys
PROPERTIES EveryCallSettles ImplementsFifoLock
CHECK_DEADLOCK FALSE
