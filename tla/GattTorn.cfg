CONSTANTS
  Device = {d1, d2}
  NoDevice = NoDevice
  StaleSeconds = 3
  BasePoll = 1
  RelaxedPoll = 2
  StrongStreak = 2
  ReadTimeout = 1
  BackoffInitial = 1
  BackoffMax = 2
SPECIFICATION GFairSpec
PROPERTIES RetargetDrops
CHECK_DEADLOCK FALSE
