CONSTANTS
  Device = {d1, d2}
  NoDevice = NoDevice
  Beat = {k1, k2}
  NoBeat = NoBeat
  Choosing = {"starting", "running"}
SPECIFICATION SSpec
INVARIANT PresenceIsPresent
CHECK_DEADLOCK FALSE
