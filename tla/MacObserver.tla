----------------------------- MODULE MacObserver -----------------------------
(***************************************************************************)
(* MacLockStateObserver (src/stavau/platform/lockstate_macos.py): it       *)
(* registers for loginwindow's notifications in the thread that constructs *)
(* it and spins a run loop in another until close() stops it.              *)
(***************************************************************************)
EXTENDS LockScreen

VARIABLES
  runLoop,    \* where the thread of _default_runloop_runner is
  attached,   \* external: the notification centre has the observer
  hears       \* external: its notifications reach a run loop that spins

centreVars == <<runLoop, attached, hears>>

MacTypeOK ==
  /\ runLoop \in {"none", "spinning", "ended"}
  /\ attached \in BOOLEAN /\ hears \in BOOLEAN
  /\ runLoop = "ended" => closed

NoCentre == runLoop = "none" /\ attached = FALSE /\ hears = FALSE

\* The centre delivers on the run loop of the thread that registered, which is not the
\* one the constructor spins: both outcomes are allowed for.
MacInit == runLoop = "none" /\ attached = FALSE /\ hears \in BOOLEAN

\* __init__: the state is unknown until the first notification.
Constructs ==
  /\ runLoop = "none" /\ runLoop' = "spinning" /\ attached' = TRUE
  /\ UNCHANGED <<screenVars, hears>>

Notified == runLoop = "spinning" /\ Handle /\ UNCHANGED centreVars

CloseMac ==
  /\ runLoop = "spinning" /\ ~closed /\ closed' = TRUE
  /\ UNCHANGED <<screen, state, notices, centreVars>>

\* The slice of the run loop in which the stop event was set is over.
SliceEnds ==
  /\ runLoop = "spinning" /\ closed /\ runLoop' = "ended" /\ notices' = <<>>
  /\ UNCHANGED <<screen, state, closed, attached, hears>>

\* removeObserver_, when the thread has been joined or two seconds have passed.
Detaches ==
  /\ closed /\ attached /\ attached' = FALSE
  /\ UNCHANGED <<screenVars, runLoop, hears>>

MacScreenChanges ==
  /\ ScreenChanges(attached /\ hears /\ runLoop = "spinning")
  /\ UNCHANGED centreVars

MacNext ==
  \/ Constructs \/ Notified \/ CloseMac \/ SliceEnds \/ Detaches
  \/ MacScreenChanges
=============================================================================
