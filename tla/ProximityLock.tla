--------------------------- MODULE ProximityLock ---------------------------
(***************************************************************************)
(* What stavau promises whoever leaves a screen (README.md:56-57, 69-70,   *)
(* and src/stavau/core/session.py, which has to keep it): the screen is    *)
(* locked to answer a departure, once, unless it is seen locked already;   *)
(* never for anything else, and never too often; and a screen is opened    *)
(* only by its user, or once it was seen locked.  How a departure is told  *)
(* from the readings, pauses and retries are the session's business.       *)
(***************************************************************************)
EXTENDS Integers, FiniteSets

CONSTANTS
  MaxLocks,   \* locks in a window of time
  Window,     \* its length
  Limited     \* the number of locks is limited

VARIABLES
  screen,      \* open, or locked and by whom
  request,     \* a lock the OS has accepted and not carried out
  seen,        \* when last looked at, the screen was seen locked
  far,         \* the device has been beyond the radius for the grace period
  departure,   \* home, owed a lock, in doubt for having blipped, or answered
  recent       \* ages of the locks of the last window

vars == <<screen, request, seen, far, departure, recent>>

Init ==
  /\ screen \in {"open", "user"} /\ request = FALSE /\ seen = FALSE
  /\ far = FALSE /\ departure = "home" /\ recent = {}

\* Some time after it did so last, the guard looks at the screen.
Looks ==
  /\ seen' \in {FALSE, screen # "open"}
  /\ far => far'
  /\ \E gap \in 1 .. Window : recent' = {age + gap : age \in recent} \cap (0 .. Window - 1)
  /\ UNCHANGED <<screen, request, departure>>

\* The device leaves, shows itself for a moment, or is back.
Moves ==
  \/ UNCHANGED departure
  \/ departure = "home" /\ far /\ far' /\ departure' = "owed"
  \/ departure = "owed" /\ departure' = "blipped"
  \/ departure' = "home"

\* The screen is opened for the user only when it was seen locked.
MayOpen == UNCHANGED screen \/ (seen /\ screen' = "open")

Watches ==
  /\ far' => far
  /\ Moves /\ MayOpen
  /\ UNCHANGED <<request, seen, recent>>

\* A departure that no lock has answered yet.
Owed == departure = "owed" \/ (departure = "home" /\ far /\ far')

FindsLocked ==
  /\ far' => far
  /\ Owed /\ seen
  /\ departure' = "answered" /\ MayOpen
  /\ UNCHANGED <<request, seen, recent>>

Locks ==
  /\ far' => far
  /\ Owed /\ ~seen
  /\ Limited => Cardinality(recent) < MaxLocks
  /\ departure' = "answered" /\ request' = TRUE
  /\ recent' = recent \cup {0}
  /\ UNCHANGED <<screen, seen>>

\* The user locks or unlocks; the OS carries the request out, or drops it.
ScreenChanges ==
  /\ \/ screen = "open" /\ screen' = "user" /\ UNCHANGED request
     \/ screen # "open" /\ screen' = "open" /\ UNCHANGED request
     \/ request /\ ~request' /\ screen = "open" /\ screen' = "stavau"
     \/ request /\ ~request' /\ UNCHANGED screen
  /\ UNCHANGED <<seen, far, departure, recent>>

\* The user, at an open screen, trusts another device.
Retargets ==
  /\ screen = "open"
  /\ far' = FALSE /\ departure' = "home"
  /\ UNCHANGED <<screen, request, seen, recent>>

Next == Looks \/ Watches \/ FindsLocked \/ Locks \/ ScreenChanges \/ Retargets

Spec == Init /\ [][Next]_vars
=============================================================================
