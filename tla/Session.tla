------------------------------- MODULE Session -------------------------------
(***************************************************************************)
(* MonitorSession.run (src/stavau/core/session.py) with the machines it    *)
(* drives, beside the actors it shares the screen with: the user, the OS   *)
(* that carries out a lock later than it accepts it, and the tray menu     *)
(* that retargets the session from another thread.                         *)
(*                                                                         *)
(* A tick is Poll (capture `now`, read the observer and the tracker), an   *)
(* optional await of the radio probe, and Act (everything after it).  The  *)
(* other actors move between those steps, so `observed` and `reading` may  *)
(* be stale by the time Act uses them.                                     *)
(***************************************************************************)
EXTENDS Presence, Breaker, AutoUnlock, RadioWatch

CONSTANTS Retry,          \* _LOCK_RETRY_SECONDS
          Gaps,           \* seconds between the `now` of consecutive ticks
          Distances,      \* the distances the model of the signal can yield
          AutoUnlockOn    \* an AutoUnlockPolicy and an Unlocker exist

ASSUME SessionAssumption ==
  /\ Retry \in Nat \ {0}
  /\ Gaps \subseteq Nat \ {0}
  /\ Distances \subseteq Nat
  /\ AutoUnlockOn \in BOOLEAN

VARIABLES pc,         \* where run() is in its tick
          observed,   \* screen_locked, as read by this tick's Poll
          reading,    \* distance, as read by this tick's Poll
          pending,    \* lock_pending_since, as an age
          screen,     \* the OS session: open, or locked and by whom
          request     \* a lock the OS accepted and has not carried out yet

svars == <<pc, observed, reading, pending, screen, request>>
vars == <<pvars, bvars, avars, rvars, svars>>

Reading == Distances \cup {None}
Observation == {"locked", "unlocked", "unknown"}

TypeOK ==
  /\ PresenceTypeOK /\ BreakerTypeOK /\ AutoUnlockTypeOK /\ RadioTypeOK
  /\ pc \in {"poll", "probe", "act"}
  /\ observed \in Observation
  /\ reading \in Reading
  /\ pending \in AgeOrNone(Retry)
  /\ screen \in {"open", "stavau", "user"}
  /\ request \in BOOLEAN

Init ==
  /\ NewMachine /\ NewBreaker /\ NewPolicy /\ NewRadioWatch
  /\ pc = "poll" /\ observed = "unknown" /\ reading = None /\ pending = None
  /\ screen \in {"open", "user"} /\ request = FALSE

-----------------------------------------------------------------------------
(* The tick. *)

\* What _poll_lock_state can return: the truth, or None after any failure.
Observable == {"unknown", IF screen = "open" THEN "unlocked" ELSE "locked"}

\* The instants the loop holds, seen from the new `now`.
Elapse(gap) ==
  /\ timer' = OlderOrNone(timer, gap, TimerCap)
  /\ lockTimes' = AgeLocks(lockTimes, gap)
  /\ tripped' = OlderOrNone(tripped, gap, Cooldown)
  /\ pending' = OlderOrNone(pending, gap, Retry)
  /\ UNCHANGED pstate

Observe(seen, gap) ==
  /\ observed' = seen
  /\ IF AutoUnlockOn THEN NoteLockObserved(seen, gap) ELSE UNCHANGED avars

Poll(gap, seen, d) ==
  /\ pc = "poll" /\ seen \in Observable
  /\ Elapse(gap)
  /\ Observe(seen, gap)
  /\ reading' = d
  /\ \/ d # None /\ SignalSeen /\ pc' = "act"
     \/ d = None /\ ProbeDue /\ UNCHANGED rvars /\ pc' = "probe"
     \/ d = None /\ ~ProbeDue /\ ProbeSkipped /\ pc' = "act"
  /\ UNCHANGED <<screen, request>>

\* The await returns.
Probe(answer) ==
  /\ pc = "probe" /\ pc' = "act"
  /\ Probed(answer)
  /\ UNCHANGED <<pvars, bvars, avars, observed, reading, pending, screen, request>>

\* Fault variant: a pending lock outlives the away state.
StillOwedAnywhere == pending

\* The owed lock that survives this tick's machine update.
StillOwed == IF pstate' = "away" THEN pending ELSE None

LockDue == MustLock(reading) \/ (StillOwed # None /\ StillOwed >= Retry)

\* The machine update, the radio report and the end of the tick, common to all.
ActBegins ==
  /\ pc = "act" /\ pc' = "poll"
  /\ Update(reading)
  /\ ReportRadio(reading = None)
  /\ UNCHANGED <<observed, reading>>

\* The unlock decision, when the observer said this tick that it is locked.
Deciding == AutoUnlockOn /\ observed = "locked"

NoUnlock ==
  /\ ~(Deciding /\ Permits(reading))
  /\ IF Deciding THEN Decide(reading) ELSE UNCHANGED avars
  /\ UNCHANGED screen

Unlocks ==
  /\ Deciding /\ Permits(reading) /\ Decide(reading)
  /\ screen' = "open"

\* UnlockError, or a request that nothing acts on.
UnlockFails ==
  /\ Deciding /\ Permits(reading) /\ Decide(reading)
  /\ UNCHANGED screen

MayUnlock == NoUnlock \/ Unlocks \/ UnlockFails

NothingDue ==
  /\ ActBegins /\ ~LockDue
  /\ pending' = StillOwed
  /\ IsPaused
  /\ MayUnlock /\ UNCHANGED request

\* Fault variant: a lock the breaker suppresses is not remembered.
SuppressedAndForgotten ==
  /\ ActBegins /\ LockDue /\ Paused
  /\ pending' = StillOwed
  /\ IsPaused
  /\ MayUnlock /\ UNCHANGED request

Suppressed ==
  /\ ActBegins /\ LockDue /\ Paused
  /\ pending' = IF StillOwed = None THEN 0 ELSE StillOwed
  /\ IsPaused
  /\ MayUnlock /\ UNCHANGED request

\* Fault variant: an unknown observation suppresses the lock.
SkippedUnlessSeenOpen ==
  /\ ActBegins /\ LockDue /\ ~Paused /\ observed # "unlocked"
  /\ pending' = None
  /\ IsPaused
  /\ MayUnlock /\ UNCHANGED request

SkippedLocked ==
  /\ ActBegins /\ LockDue /\ ~Paused /\ observed = "locked"
  /\ pending' = None
  /\ IsPaused
  /\ MayUnlock /\ UNCHANGED request

LockSucceeds ==
  /\ ActBegins /\ LockDue /\ ~Paused /\ observed # "locked"
  /\ request' = TRUE
  /\ pending' = None
  /\ RegisterLock
  /\ IF AutoUnlockOn THEN NoteStavauLock ELSE UNCHANGED avars
  /\ UNCHANGED screen

\* Fault variant: a lock that failed is given up.
LockGivenUp ==
  /\ ActBegins /\ LockDue /\ ~Paused /\ observed # "locked"
  /\ pending' = None
  /\ IsPaused
  /\ UNCHANGED <<avars, screen, request>>

\* LockError: the lock stays owed.
LockFails ==
  /\ ActBegins /\ LockDue /\ ~Paused /\ observed # "locked"
  /\ pending' = 0
  /\ IsPaused
  /\ UNCHANGED <<avars, screen, request>>

Act == NothingDue \/ Suppressed \/ SkippedLocked \/ LockSucceeds \/ LockFails

Tick ==
  \/ \E gap \in Gaps, seen \in Observation, d \in Reading : Poll(gap, seen, d)
  \/ \E answer \in RadioState : Probe(answer)
  \/ Act

-----------------------------------------------------------------------------
(* The other actors. *)

LoopIdle == UNCHANGED <<bvars, avars, rvars, pc, observed, reading, pending>>

\* Win+L, a screensaver, an idle timeout.
UserLocks ==
  /\ screen = "open" /\ screen' = "user"
  /\ UNCHANGED <<pvars, request>> /\ LoopIdle

UserUnlocks ==
  /\ screen # "open" /\ screen' = "open"
  /\ UNCHANGED <<pvars, request>> /\ LoopIdle

LockTakesEffect ==
  /\ request /\ request' = FALSE
  /\ screen' = IF screen = "open" THEN "stavau" ELSE screen
  /\ UNCHANGED pvars /\ LoopIdle

\* The lock command returned success and no locker acted on it (or a dry run).
LockLost ==
  /\ request /\ request' = FALSE
  /\ UNCHANGED <<pvars, screen>> /\ LoopIdle

\* retarget(): from the tray menu, which needs an open screen.
Retarget ==
  /\ screen = "open"
  /\ ResetMachine
  /\ UNCHANGED <<screen, request>> /\ LoopIdle

Environment == UserLocks \/ UserUnlocks \/ LockTakesEffect \/ LockLost \/ Retarget

Next == Tick \/ Environment

Spec == Init /\ [][Next]_vars
=============================================================================
