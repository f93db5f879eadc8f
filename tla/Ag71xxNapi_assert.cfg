SPECIFICATION Spec
CONSTANTS
  TxSize = 4
  TxThresStop = 3
  TxThresWakeup = 2
  RxSize = 4
  Limit = 2
  CountMod = 8
  MaxAllocFails = 2
INVARIANT NoRxAssert
CHECK_DEADLOCK FALSE
