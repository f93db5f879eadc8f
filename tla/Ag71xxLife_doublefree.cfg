SPECIFICATION Spec
CONSTANTS
  TxThresStop = 2
  TxThresWakeup = 1
  Boards <- OnlyPolled
  MaxCloses = 1
  MaxOpenFails = 1
  MaxFlaps = 0
  MaxHangs = 0
CHECK_DEADLOCK FALSE
INVARIANT
  NoDoubleFree
