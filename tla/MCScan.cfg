CONSTANTS
  Device = {d1, d2}
  NoDevice = NoDevice
  Beat = {k1, k2}
  NoBeat = NoBeat
  Choosing = {"starting", "running"}
SPECIFICATION SFairSpec
INVARIANTS PresenceIsTarget PresenceUnlessOrphan FallbackUnlessMissed StopLeavesNothing
PROPERTIES DeafOnlyIf Rescans
CHECK_DEADLOCK FALSE
