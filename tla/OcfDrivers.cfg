SPECIFICATION FairSpec
CONSTANTS
  hw = hw
  kd = kd
  soft = soft
  u1 = u1
  u2 = u2
  k1 = k1
  k2 = k2
  None = None
  Drivers <- AllDrivers
  Hardware <- HardwareDrivers
  Permanent <- BuiltIn
  KeyDrivers <- HardwareDrivers
  Users <- AllUsers
  Followers <- AllUsers
  KeyUsers <- AllKeys
  NumDrivers = 4
  MaxAttach = 3
  KopMod = 8
  MigrateFails = FALSE
INVARIANTS   RightDriver
PROPERTY RequestsComplete
