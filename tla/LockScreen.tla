----------------------------- MODULE LockScreen -----------------------------
(***************************************************************************)
(* The state the observers of the three platforms have in common           *)
(* (src/stavau/platform/lockstate.py): the cached word current() returns,  *)
(* and the notices on their way from the desktop to the observer's handler *)
(* (a socket on Linux, a message queue on Windows, a run loop on macOS).   *)
(***************************************************************************)
EXTENDS Naturals, Sequences

CONSTANT MaxNotices   \* bound: so many notices are on their way at once

ASSUME NoticesAssumption == MaxNotices \in Nat \ {0}

VARIABLES
  screen,    \* external: whether the session is locked
  state,     \* _state: "unknown" is None
  notices,   \* external: what has been said and not handled yet
  closed     \* _closed

screenVars == <<screen, state, notices, closed>>

Value == {"locked", "unlocked"}
Word == Value \cup {"unknown"}
Notice == [about : {"hint", "reply", "request"}, value : Word]

ScreenTypeOK ==
  /\ screen \in Value /\ state \in Word
  /\ notices \in Seq(Notice) /\ Len(notices) <= MaxNotices
  /\ closed \in BOOLEAN

NewScreen ==
  /\ screen \in Value /\ state = "unknown" /\ notices = <<>> /\ closed = FALSE

Said(about, value) ==
  /\ Len(notices) < MaxNotices
  /\ notices' = Append(notices, [about |-> about, value |-> value])

\* The session is locked, or unlocked by its user, and says so if it is `heard`.
ScreenChanges(heard) ==
  /\ screen' \in Value \ {screen}
  /\ IF heard THEN Said("hint", screen') ELSE UNCHANGED notices
  /\ UNCHANGED <<state, closed>>

\* Fault variant: the newest notice is taken first.
HandleNewest ==
  /\ notices # <<>>
  /\ state' = notices[Len(notices)].value
  /\ notices' = SubSeq(notices, 1, Len(notices) - 1)
  /\ UNCHANGED <<screen, closed>>

\* _handle_session_change, _handle_notification and the callbacks of the bus.
Handle ==
  /\ notices # <<>>
  /\ state' = Head(notices).value /\ notices' = Tail(notices)
  /\ UNCHANGED <<screen, closed>>

\* A notice for a handler that ignores it.
Ignore ==
  /\ notices # <<>> /\ notices' = Tail(notices)
  /\ UNCHANGED <<screen, state, closed>>
=============================================================================
