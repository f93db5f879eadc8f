SPECIFICATION FairSpec
CONSTANTS
  TxThresStop = 2
  TxThresWakeup = 1
  Boards <- AllBoards
  MaxCloses = 2
  MaxOpenFails = 1
  MaxFlaps = 2
  MaxHangs = 2
CHECK_DEADLOCK FALSE

   
PROPERTIES
   TxRecovers
