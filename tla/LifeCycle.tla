------------------------------ MODULE LifeCycle ------------------------------
(***************************************************************************)
(* A process of the program (main() of src/stavau/cli.py), over whatever    *)
(* configuration file an earlier one or a user has left: setup, pair, or a *)
(* monitor in the terminal, in the tray or in the window; with the history *)
(* the properties speak of.                                                *)
(***************************************************************************)
EXTENDS DesktopWindow

CONSTANT Found   \* bound: the configurations a process may find in the file

ASSUME FoundAssumption == Found \subseteq Config

VARIABLES
  saved,      \* history: the file is the program's, not the user's
  blamed,     \* history: a configuration no run accepts was let in by a known step
  drifted,    \* history: the monitors whose device was changed without telling them
  doubled,    \* history: a monitor was started over one that ran
  unstarted   \* history: the monitors that ended before their loop began

history == <<saved, blamed, drifted, doubled, unstarted>>
vars == <<lifeVars, history>>

TypeOK ==
  /\ SettingsTypeOK /\ MonitorTypeOK /\ WindowTypeOK
  /\ front \in {"none", "setup", "pair", "cli", "tray", "gui"}
  /\ main \in
       {"none", "session", "menu", "loop", "joining", "leaving", "leavingScan", "exited"}
  /\ exit \in {Ok, Failed, Refused, Aborted, Interrupted}
  /\ locker \in BOOLEAN /\ precaution \in {"none", "locked", "warned"}
  /\ status \in {"none", "starting", "error"}
  /\ saved \in BOOLEAN /\ blamed \in BOOLEAN /\ doubled \in BOOLEAN
  /\ drifted \subseteq Monitor /\ unstarted \subseteq Monitor

Init ==
  /\ NewSettings(Found) /\ NoMonitor /\ NoCommand /\ NoTray /\ NoWindow
  /\ saved = FALSE /\ blamed = FALSE
  /\ drifted = {} /\ doubled = FALSE /\ unstarted = {}

-----------------------------------------------------------------------------

\* The session's own steps, in the thread that runs it.
SessionOpens(m) ==
  /\ main # "exited"
  /\ (front = "gui" /\ Built(m)) \/ SourceStarts(m)
  /\ UNCHANGED <<settingsVars, commandVars, trayVars, windowVars>>

SessionFails(m) ==
  /\ main # "exited" /\ front # "gui" /\ (SourceFails(m) \/ Dies(m) \/ StopRaises(m))
  /\ UNCHANGED <<settingsVars, commandVars, trayVars, windowVars>>

Step ==
  \/ CommandNext /\ UNCHANGED <<trayVars, windowVars>>
  \/ TrayNext /\ UNCHANGED windowVars
  \/ WindowNext
  \/ \E m \in Monitor : SessionOpens(m) \/ SessionFails(m)

\* The known ways to a file that the next run refuses: pairing that fails where it is
\* needed, a file edited by hand that the window goes on with, a fit out of bounds.
LetsIn ==
  \/ front = "none" /\ front' = "pair" /\ disk'.autoUnlock /\ ~disk'.paired
  \/ front = "none" /\ front' = "gui" /\ memory' # Default /\ ~Accepted(memory')
  \/ dialog = "wizard" /\ memory.bounds /\ ~memory'.bounds

\* A device chosen in the window while a monitor runs, or in the tray and not saved.
Drifts ==
  IF memory'.device = memory.device THEN drifted
  ELSE IF front = "gui" \/ disk'.device # memory'.device THEN {m \in Monitor : pc[m] \in Live}
  ELSE {}

Remember ==
  /\ saved' = (saved \/ disk' # disk)
  /\ blamed' = (LetsIn \/ (blamed /\ ~(Accepted(disk') /\ disk' = memory')))
  /\ drifted' = Drifts \cap {m \in Monitor : pc'[m] \in Live}
  /\ doubled' = (doubled \/ (current' # current /\ NoMonitorYet \notin {current, current'}))
  /\ unstarted' = unstarted \cup
       {m \in Monitor : pc[m] \in {"building", "starting"} /\ pc'[m] \in Over}

Next == Step /\ Remember

\* Threads that run go on, the loop looks at its stop event, a wait that can end does;
\* the user owes nothing, and no source need fail.
Fairness ==
  /\ \A m \in Monitor :
       /\ WF_vars(SessionOpens(m) /\ Remember)
       /\ WF_vars(m \in stop /\ pc[m] = "running" /\ Reports(m) /\ Remember)
  /\ WF_vars(StoppedJoined /\ Remember)
  /\ WF_vars(MonitorJoined /\ Remember) /\ WF_vars((Leaving \/ StaysInTray) /\ Remember)
  /\ WF_vars(ScanEnds /\ Remember) /\ WF_vars(SampleEnds /\ Remember)

Spec == Init /\ [][Next]_vars /\ Fairness

-----------------------------------------------------------------------------

\* An armed monitor that dies, before its first tick, after it or in its source.stop(),
\* is answered by a lock or by words (cli.py:348-365); the tray and the window only show
\* that it has died.  A constructor that raises is outside that try: nothing has run.
ArmedDeathLocks ==
  main = "exited" /\ locker /\ pc[Its] \in Dead /\ front = "cli" => precaution # "none"

\* "The session owns the observer lifecycle: it is closed when run() ends"
\* (session.py:77), by the stop event, a duration, Ctrl+C or an exception of the loop:
\* unless it ended before its loop began (session.py:80-110, :195), or its source.stop()
\* did not return (:326).  And a process that has exited joined the threads it had: except
\* the tray's, which it leaves, and a monitor that another was started over.
NothingLeftBehind ==
  /\ \A m \in opened : pc[m] \in {"ended", "died"} => m \in unstarted
  /\ main = "exited" /\ front # "tray" /\ ~doubled =>
       (\A m \in Monitor : pc[m] \in Over \cup {"unused"}) /\ ~scanning /\ ~sampling

\* The window never waits for ever for a thread, unless two monitors were started.
QuitEnds ==
  main \in {"joining", "leaving", "leavingScan"} ~> main \in {"loop", "exited"} \/ doubled

\* The device a monitor tracks is the one in the settings, unless it was chosen in the
\* window, which does not tell the monitor, or in the tray, where saving it failed.
MonitorsChosen ==
  \A m \in Monitor :
    pc[m] \in Live /\ main # "exited" => tracks[m] = memory.device \/ m \in drifted

\* What the program leaves in the file is what its next run accepts, but for the known
\* ways of LetsIn.
SavedIsAccepted == saved => Accepted(disk) \/ blamed
=============================================================================
