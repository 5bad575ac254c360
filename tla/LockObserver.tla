---------------------------- MODULE LockObserver ----------------------------
(***************************************************************************)
(* get_lock_state_observer (src/stavau/platform/lockstate.py): the         *)
(* observer of the platform the program runs on, with the history the      *)
(* properties speak of.                                                    *)
(***************************************************************************)
EXTENDS LinuxObserver, WindowsObserver, MacObserver

VARIABLES
  platform,   \* sys.platform, of those with an observer
  missed,     \* history: the screen changed, or a notice was dropped, unheard
  asked,      \* history: the last notice was a request to lock
  abandoned   \* history: what was opened was left with nobody to close it

history == <<missed, asked, abandoned>>
vars == <<screenVars, busVars, windowVars, centreVars, platform, history>>

TypeOK ==
  /\ ScreenTypeOK
  /\ LinuxTypeOK /\ WindowsTypeOK /\ MacTypeOK
  /\ platform \in {"linux", "win32", "darwin"}
  /\ missed \in BOOLEAN /\ asked \in BOOLEAN /\ abandoned \in BOOLEAN

Init ==
  /\ NewScreen
  /\ missed = FALSE /\ asked = FALSE /\ abandoned = FALSE
  /\ \/ platform = "linux" /\ LinuxInit /\ NoWindow /\ NoCentre
     \/ platform = "win32" /\ WindowsInit /\ NoBus /\ hints = FALSE /\ NoCentre
     \/ platform = "darwin" /\ MacInit /\ NoBus /\ hints = FALSE /\ NoWindow

-----------------------------------------------------------------------------
(* The history of a step. *)

\* The step adds a notice to those on their way, or takes away who would bring them.
Told(about) == Len(notices') > Len(notices) /\ notices'[Len(notices')].about = about
Dropped ==
  /\ notices # <<>>
  /\ (bus = "open" /\ bus' # "open") \/ (thread = "pumping" /\ thread' # "pumping")

\* A connection opened and not recorded, or a thread nobody waits for any more.
LeftOpen ==
  \/ bus # "none" /\ task' \in {"failed", "cancelled"} /\ task' # task
  \/ holder = "waiting" /\ holder' = "dropped" /\ thread = "starting"

Remember ==
  /\ missed' = \/ screen' # screen /\ ~Told("hint")
               \/ Dropped
               \/ missed /\ ~Told("hint") /\ ~Told("reply") /\ ~Told("request")
  /\ asked' = IF Told("request") THEN notices'[Len(notices')].value = "locked"
              ELSE asked /\ ~Told("hint") /\ ~Told("reply")
  /\ abandoned' = (abandoned \/ LeftOpen)

OnLinux(action) ==
  /\ platform = "linux" /\ action /\ Remember
  /\ UNCHANGED <<windowVars, centreVars, platform>>

OnWindows(action) ==
  /\ platform = "win32" /\ action /\ Remember
  /\ UNCHANGED <<busVars, centreVars, platform>>

OnMac(action) ==
  /\ platform = "darwin" /\ action /\ Remember
  /\ UNCHANGED <<busVars, windowVars, platform>>

Next == OnLinux(LinuxNext) \/ OnWindows(WindowsNext) \/ OnMac(MacNext)

\* The event loop, the pump and the run loop take what has arrived; a cleanup that was
\* begun goes on.  The desktop, the bus and the callers owe nothing.
Fairness ==
  /\ WF_vars(OnLinux(Signal)) /\ WF_vars(OnLinux(Disconnects))
  /\ WF_vars(OnWindows(Dispatch)) /\ WF_vars(OnWindows(closed /\ PumpEnds))
  /\ WF_vars(OnMac(Notified)) /\ WF_vars(OnMac(SliceEnds)) /\ WF_vars(OnMac(Detaches))

Spec == Init /\ [][Next]_vars /\ Fairness

-----------------------------------------------------------------------------

\* What the observer will report when it has heard all that has been said.
LastWord == IF notices = <<>> THEN state ELSE notices[Len(notices)].value

\* An observer that is open and has missed nothing says "locked", the one word that
\* keeps the loop from locking, of a screen that is locked: except after a request to
\* lock, which it takes for the lock itself (lockstate_linux.py:200).
LockedIsTrue ==
  ~closed /\ LastWord = "locked" /\ screen = "unlocked" => missed \/ asked

Report == INSTANCE LockReport WITH report <- state, pending <- notices

\* Every observer implements LockReport: it repeats what it was told, in the order it
\* was told it, or says that it does not know.
RepeatsWhatIsSaid == Report!Spec

\* A screen the observer reports as locked and that is not, is reported so no longer
\* when the handlers have run: unless the change went unheard, or it is a request.
LockedIsTakenBack ==
  state = "locked" /\ screen = "unlocked"
    ~> state # "locked" \/ screen = "locked" \/ missed \/ asked \/ closed

\* close(), or make_observer's giving up, leaves nothing open in the end: except a bus
\* whose connection was still being set up, and a thread that was slow to register.
ReleasedInTheEnd ==
  closed \/ holder = "dropped"
    ~> (bus # "open" /\ ~registered /\ ~attached) \/ abandoned
=============================================================================
