------------------------------ MODULE Presence ------------------------------
(***************************************************************************)
(* PresenceMachine (src/stavau/core/presence.py): hysteresis and dwell     *)
(* timers around the safety radius.  Distances are in the unit of Radius;  *)
(* None is "no reliable signal".                                           *)
(***************************************************************************)
EXTENDS Clock

CONSTANTS Radius,        \* radius_m: beyond it the device has left
          ReturnBelow,   \* radius_m * return_ratio: below it the device is back
          Grace,         \* grace_seconds
          ReturnDwell    \* return_seconds

ASSUME PresenceAssumption ==
  /\ Radius \in Nat /\ ReturnBelow \in Nat /\ ReturnBelow <= Radius
  /\ Grace \in Nat \ {0}
  /\ ReturnDwell \in Nat

VARIABLES pstate,   \* _state
          timer     \* _timer_start, as an age

pvars == <<pstate, timer>>

TimerCap == IF Grace > ReturnDwell THEN Grace ELSE ReturnDwell

PresenceTypeOK ==
  /\ pstate \in {"near", "leaving", "away", "returning"}
  /\ timer \in AgeOrNone(TimerCap)
  /\ timer = None <=> pstate \in {"near", "away"}

\* Fault variant: a retarget goes on with the machine it has.
ResetKeepsMachine == UNCHANGED pvars

\* A new machine: at start-up and after a retarget.
NewMachine == pstate = "near" /\ timer = None
ResetMachine == pstate' = "near" /\ timer' = None

Beyond(d) == d = None \/ d > Radius
WithinReturn(d) == d # None /\ d < ReturnBelow

-----------------------------------------------------------------------------
Leave(d) ==
  /\ pstate = "near" /\ Beyond(d)
  /\ pstate' = "leaving" /\ timer' = 0

ComeBack(d) ==
  /\ pstate = "leaving" /\ ~Beyond(d)
  /\ pstate' = "near" /\ timer' = None

\* update() returns True exactly when this is enabled.
MustLock(d) == pstate = "leaving" /\ Beyond(d) /\ timer >= Grace

Depart(d) ==
  /\ MustLock(d)
  /\ pstate' = "away" /\ timer' = None

Return(d) ==
  /\ pstate = "away" /\ WithinReturn(d)
  /\ pstate' = "returning" /\ timer' = 0

TurnAway(d) ==
  /\ pstate = "returning" /\ ~WithinReturn(d)
  /\ pstate' = "away" /\ timer' = None

Settle(d) ==
  /\ pstate = "returning" /\ WithinReturn(d) /\ timer >= ReturnDwell
  /\ pstate' = "near" /\ timer' = None

Hold(d) ==
  /\ \/ pstate = "near" /\ ~Beyond(d)
     \/ pstate = "leaving" /\ Beyond(d) /\ timer < Grace
     \/ pstate = "away" /\ ~WithinReturn(d)
     \/ pstate = "returning" /\ WithinReturn(d) /\ timer < ReturnDwell
  /\ UNCHANGED pvars

\* PresenceMachine.update(d, now)
Update(d) == \/ Leave(d) \/ ComeBack(d) \/ Depart(d) \/ Return(d)
             \/ TurnAway(d) \/ Settle(d) \/ Hold(d)
=============================================================================
