SPECIFICATION LiveSpec
CONSTANTS
  r1 = r1
  r2 = r2
  r3 = r3
  r4 = r4
  hw = hw
  other = other
  Reqs <- MCReqs
  Drivers <- MCDrivers
  HidOf <- MCHidOf
  Batch = {r2, r4}
  Direct = {r1, r3}
  Soft = {r1, r4}
  Sync = {}
  Mute = {}
  Cap = 1
  QMax = 3
  SMP = FALSE
INVARIANTS OnePlace QCountExact BlockedHasUnblocker RetNotStranded SleepJustified
PROPERTY Served
