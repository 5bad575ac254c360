------------------------------ MODULE Breaker -------------------------------
(***************************************************************************)
(* LockCircuitBreaker (src/stavau/core/breaker.py): after MaxLocks locks   *)
(* within Window the breaker trips and locking pauses for Cooldown.        *)
(*                                                                         *)
(* The deque of lock instants is a set of ages: the loop registers at most *)
(* one lock per tick and `now` grows strictly between ticks, so the        *)
(* instants are distinct, sorted, and evicting from the left is filtering. *)
(***************************************************************************)
EXTENDS Clock, FiniteSets

CONSTANTS MaxLocks,   \* breaker_max_locks
          Window,     \* breaker_window_seconds
          Cooldown    \* breaker_cooldown_seconds

ASSUME BreakerAssumption ==
  /\ MaxLocks \in Nat \ {0}
  /\ Window \in Nat \ {0}
  /\ Cooldown \in Nat \ {0}

VARIABLES lockTimes,  \* _lock_times
          tripped     \* age of the lock that set _paused_until, None if it is None

bvars == <<lockTimes, tripped>>

LockAgeCap == Window + 1

BreakerTypeOK ==
  /\ lockTimes \subseteq Age(LockAgeCap)
  /\ tripped \in AgeOrNone(Cooldown)
  /\ Cardinality(lockTimes) <= MaxLocks
  /\ Cardinality(lockTimes) = MaxLocks => tripped # None

NewBreaker == lockTimes = {} /\ tripped = None

\* is_paused(now): the value it returns ...
Paused == tripped # None /\ tripped < Cooldown

\* ... and what it leaves behind: a cooldown that has ended clears the history.
CooldownOver == tripped # None /\ tripped >= Cooldown
KeptTimes == IF CooldownOver THEN {} ELSE lockTimes
KeptTrip == IF CooldownOver THEN None ELSE tripped

IsPaused == lockTimes' = KeptTimes /\ tripped' = KeptTrip

\* The instants register_lock keeps: at most Window old, the new one included.
Recent(times) == {a \in times : a <= Window} \cup {0}

\* Fault variant: trips one lock too late.
RegisterLockLate ==
  /\ lockTimes' = Recent(KeptTimes)
  /\ tripped' = IF Cardinality(Recent(KeptTimes)) > MaxLocks THEN 0 ELSE KeptTrip

\* is_paused(now), which returned False, then register_lock(now).
RegisterLock ==
  /\ lockTimes' = Recent(KeptTimes)
  /\ tripped' = IF Cardinality(Recent(KeptTimes)) >= MaxLocks THEN 0 ELSE KeptTrip

AgeLocks(times, gap) == {Older(a, gap, LockAgeCap) : a \in times}
=============================================================================
