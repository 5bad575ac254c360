----------------------------- MODULE AutoUnlock -----------------------------
(***************************************************************************)
(* AutoUnlockPolicy (src/stavau/core/autounlock.py): who locked the screen *)
(* as far as stavau can tell, and whether the device has been close long   *)
(* enough to undo stavau's own lock.                                       *)
(***************************************************************************)
EXTENDS Clock

CONSTANTS StrictRadius,  \* radius_m * auto_unlock_strict_ratio
          Dwell,         \* auto_unlock_dwell_seconds
          ExpectWindow   \* expect_window_seconds

ASSUME AutoUnlockAssumption ==
  /\ StrictRadius \in Nat
  /\ Dwell \in Nat \ {0}
  /\ ExpectWindow \in Nat \ {0}

VARIABLES origin,      \* _origin
          expecting,   \* age of _expecting_since while _expecting_own_lock, else None
          closeSince   \* _close_since

avars == <<origin, expecting, closeSince>>

ExpectCap == ExpectWindow + 1

AutoUnlockTypeOK ==
  /\ origin \in {"unlocked", "stavau", "foreign"}
  /\ expecting \in AgeOrNone(ExpectCap)
  /\ closeSince \in AgeOrNone(Dwell)

NewPolicy == origin = "unlocked" /\ expecting = None /\ closeSince = None


\* Fault variant: an expectation never goes stale.
ExpectedForGood(age) == age # None

\* Does an observed lock match the expectation of stavau's own?
Expected(age) == age # None /\ age <= ExpectWindow

\* note_lock_observed(seen, now), at the tick that begins `gap` after the last.
NoteLockObserved(seen, gap) ==
  LET age == OlderOrNone(expecting, gap, ExpectCap)
  IN  CASE seen = "locked" ->
             /\ origin' = IF origin # "unlocked" THEN origin
                          ELSE IF Expected(age) THEN "stavau" ELSE "foreign"
             /\ expecting' = None
             /\ closeSince' = OlderOrNone(closeSince, gap, Dwell)
        [] seen = "unlocked" ->
             /\ origin' = "unlocked" /\ expecting' = None /\ closeSince' = None
        [] seen = "unknown" ->
             /\ expecting' = age
             /\ closeSince' = OlderOrNone(closeSince, gap, Dwell)
             /\ UNCHANGED origin

NoteStavauLock == expecting' = 0 /\ UNCHANGED <<origin, closeSince>>

\* decide(d, ...) for a paired device: the conditions short of the dwell ...
Close(d) == origin = "stavau" /\ d # None /\ d <= StrictRadius

\* ... the value it returns ...
Permits(d) == Close(d) /\ closeSince # None /\ closeSince >= Dwell

\* Fault variants: the dwell clock survives a tick that is not close; it restarts
\* on every tick that is.
DecideKeepsClock(d) ==
  /\ closeSince' = IF Close(d) /\ closeSince = None THEN 0 ELSE closeSince
  /\ UNCHANGED <<origin, expecting>>

DecideRestartsClock(d) ==
  /\ closeSince' = IF Close(d) THEN 0 ELSE None
  /\ UNCHANGED <<origin, expecting>>

\* ... and the dwell clock it starts, keeps or resets.
Decide(d) ==
  /\ closeSince' = IF ~Close(d) THEN None
                   ELSE IF closeSince = None THEN 0 ELSE closeSince
  /\ UNCHANGED <<origin, expecting>>
=============================================================================
