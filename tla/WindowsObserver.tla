--------------------------- MODULE WindowsObserver ---------------------------
(***************************************************************************)
(* WindowsLockStateObserver (src/stavau/platform/lockstate_windows.py): a  *)
(* thread that registers a window for the session's notifications and      *)
(* pumps its messages, started by make_observer(), which waits a bounded   *)
(* time for it, and ended by a WM_QUIT that close() posts.                 *)
(***************************************************************************)
EXTENDS LockScreen

VARIABLES
  holder,      \* what make_observer has returned, if it has
  thread,      \* where _run_message_loop is
  registered   \* _hwnd is set and registered for the notifications

windowVars == <<holder, thread, registered>>

WindowsTypeOK ==
  /\ holder \in {"none", "waiting", "held", "dropped"}
  /\ thread \in {"none", "starting", "pumping", "ended"}
  /\ registered = (thread = "pumping")

NoWindow == holder = "none" /\ thread = "none" /\ registered = FALSE

WindowsInit == holder = "waiting" /\ thread = "starting" /\ registered = FALSE

-----------------------------------------------------------------------------
(* make_observer(), _start() and close(). *)

\* `ok` is looked at when `ready` is set or five seconds have passed.
Started ==
  /\ holder = "waiting" /\ thread # "starting"
  /\ holder' = IF thread = "pumping" THEN "held" ELSE "dropped"
  /\ UNCHANGED <<screenVars, thread, registered>>

\* The five seconds pass first: the observer is dropped, its thread goes on.
WaitTimesOut ==
  /\ holder = "waiting" /\ thread = "starting" /\ holder' = "dropped"
  /\ UNCHANGED <<screenVars, thread, registered>>

CloseWindows ==
  /\ holder = "held" /\ ~closed /\ closed' = TRUE
  /\ UNCHANGED <<screen, state, notices, windowVars>>

-----------------------------------------------------------------------------
(* The thread. *)

Registers ==
  /\ thread = "starting" /\ thread' = "pumping" /\ registered' = TRUE
  /\ UNCHANGED <<screenVars, holder>>

\* No class, no window, no registration, or an exception on the way.
RegistrationFails ==
  /\ thread = "starting" /\ thread' = "ended"
  /\ UNCHANGED <<screenVars, holder, registered>>

\* Fault variant: an unlock is not handled.
DispatchLocks ==
  /\ thread = "pumping" /\ UNCHANGED windowVars
  /\ IF notices # <<>> /\ Head(notices).value = "unlocked" THEN Ignore ELSE Handle

Dispatch == thread = "pumping" /\ Handle /\ UNCHANGED windowVars

\* Fault variant: the pump ends and the window stays registered.
PumpEndsRegistered ==
  /\ thread = "pumping" /\ thread' = "ended"
  /\ notices' = <<>>
  /\ UNCHANGED <<screen, state, closed, holder, registered>>

\* WM_QUIT, which only close() posts, or an error of GetMessage or of the dispatch;
\* what is left in the queue goes with the window.
PumpEnds ==
  /\ thread = "pumping" /\ thread' = "ended" /\ registered' = FALSE
  /\ notices' = <<>>
  /\ UNCHANGED <<screen, state, closed, holder>>

WindowsScreenChanges == ScreenChanges(registered) /\ UNCHANGED windowVars

WindowsNext ==
  \/ Started \/ WaitTimesOut \/ CloseWindows
  \/ Registers \/ RegistrationFails \/ Dispatch \/ PumpEnds
  \/ WindowsScreenChanges
=============================================================================
