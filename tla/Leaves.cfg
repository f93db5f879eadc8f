SPECIFICATION Spec
CONSTANTS
  eth0 = eth0
  eth1 = eth1
  Devs <- AllDevs
  NoDev = NoDev
  MaxRefs = 2
  NumPorts = 2
  NumMc = 3
  NumVids = 4
  Fids = {1}
  CallPorts <- PortLists
  MaxCalls = 4
  NBytes = 16
  Width = 5
  Blocks <- TagBlocks
  NumBlocks = 7
  BlockPages = 2
  StreamPages = 3
  Reserve = 2
  MaxSeq = 4
  LowSpace = FALSE
  f1 = f1
  f2 = f2
  CachedFiles <- TwoFiles
  NChunks = 2
  NCaches = 2
  FailOverDirty = FALSE
INVARIANTS
  NetDevHeld BlinkArmed FreedQuiet
  McMirrors PvidNeverRefused
  EccSound
  RestoredIsCurrent BlocksCounted
   
PROPERTY PvidKept
CHECK_DEADLOCK FALSE
