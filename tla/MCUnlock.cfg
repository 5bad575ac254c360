CONSTANTS
  Radius = 2
  ReturnBelow = 2
  Grace = 1
  ReturnDwell = 0
  MaxLocks = 1
  Window = 1
  Cooldown = 1
  StrictRadius = 0
  Dwell = 2
  ExpectWindow = 1
  ProbeEvery = 0
  Retry = 1
  Gaps = {1, 2}
  Distances = {0, 1, 3}
  AutoUnlockOn = TRUE
SPECIFICATION UFairSpec
PROPERTIES ForeignLockKept DwellUnlessBlind OwnLockReleased
