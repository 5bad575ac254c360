CONSTANTS
  Radius = 2
  ReturnBelow = 2
  Grace = 2
  ReturnDwell = 1
  MaxLocks = 2
  Window = 7
  Cooldown = 7
  StrictRadius = 0
  Dwell = 1
  ExpectWindow = 1
  ProbeEvery = 1
  Retry = 2
  Gaps <- MCGaps
  Distances <- MCDistances
  AutoUnlockOn = FALSE
SPECIFICATION HFairSpec
INVARIANTS AtMostMaxLocksPerWindow OwedLockPending AnsweredDepartureIsLocked
PROPERTIES PromiseIsKept LockAnswersDeparture OwedLockFires
