CONSTANTS
  Device = {p, q, r}
  Person = p
  NoHit = NoHit
  StaleSeconds = 15
  PollInterval = 2
  MaxAge = 17
  ClassicPoll = 4
  CommandLimit = 5
  KillLimit = 2
SPECIFICATION SSpec
SYMMETRY SymmetricDevices
INVARIANTS HeldByEvidence DeniedGoesSilent LiveIsHeard LeftBehindFades AnsweredIsNotAway
CHECK_DEADLOCK FALSE
