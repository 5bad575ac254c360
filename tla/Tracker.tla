------------------------------ MODULE Tracker -------------------------------
(***************************************************************************)
(* RssiTracker (src/stavau/core/monitor.py): whose samples the smoother    *)
(* averages, and how old the latest one is.  Every method holds the        *)
(* tracker's lock, so each is one step, from whatever thread it is called. *)
(***************************************************************************)
EXTENDS Devices

VARIABLES heard,     \* devices with a sample pushed since the smoother was made
          lastSeen   \* age of _last_seen

tvars == <<heard, lastSeen>>

TrackerTypeOK ==
  /\ heard \subseteq Device
  /\ lastSeen \in AgeOrNone(StaleSeconds + 1)
  /\ heard = {} <=> lastSeen = None

NewTracker == heard = {} /\ lastSeen = None

Reset == heard' = {} /\ lastSeen' = None

\* A gap restarts the smoothing.
Stale == lastSeen # None /\ lastSeen > StaleSeconds

\* A sample stamped `age` ago.
PushStamped(d, age) ==
  /\ heard' = IF Stale THEN {d} ELSE heard \cup {d}
  /\ lastSeen' = age

Push(d) == PushStamped(d, 0)

\* smoothed() is None.
Silent == lastSeen = None \/ Stale

TrackerAges(gap) ==
  lastSeen' = OlderOrNone(lastSeen, gap, StaleSeconds + 1) /\ UNCHANGED heard
=============================================================================
