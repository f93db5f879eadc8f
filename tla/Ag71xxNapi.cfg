SPECIFICATION FairSpec
CONSTANTS
  TxSize = 4
  TxThresStop = 3
  TxThresWakeup = 2
  RxSize = 3
  Limit = 1
  CountMod = 12
  MaxAllocFails = 1
PROPERTIES
  TxStoppedWoken RxRecycled RxRestarted
INVARIANTS
  DmaOwnsBuffer TxSkbInFlight RxSkbOwned TxStopDiscipline TxRoomWhenRunning OnePollHolder WorkAnnounced
CHECK_DEADLOCK FALSE
