SPECIFICATION Spec
CONSTANTS
  a = a
  b = b
  Device = {a, b}
  NoDevice = NoDevice
  NaN = NaN
  Monitor = {m1, m2}
  NoMonitorYet = NoMonitorYet
  Found <- MCFound
INVARIANT ArmedDeathLocks NothingLeftBehind MonitorsChosen SavedIsAccepted
PROPERTY QuitEnds
CHECK_DEADLOCK FALSE
