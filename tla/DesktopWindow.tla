---------------------------- MODULE DesktopWindow ----------------------------
(***************************************************************************)
(* MainWindow (src/stavau/ui/gui/app.py): its event loop, the threads of   *)
(* its monitors, its scan and its calibration, and the tray icon whose     *)
(* menu stays at hand while a dialog runs the event loop for itself.       *)
(***************************************************************************)
EXTENDS TrayApp

CONSTANT NoMonitorYet   \* None, for _monitor_thread and _monitor_worker

ASSUME NoMonitorYetAssumption == NoMonitorYet \notin Monitor

VARIABLES
  current,     \* the monitor of _monitor_thread and _monitor_worker
  startable,   \* the start buttons and the tray's start action are enabled
  dialog,      \* the dialog that is open: the armed confirmation, or the wizard
  reports,     \* the `stopped` signals on their way to the window
  scanning,    \* the thread of _scan_thread runs
  sampling     \* the wizard's thread runs

monitorTab == <<current, startable, reports>>
helpers == <<scanning, sampling>>
shellVars == <<front, exit, locker, precaution, trayVars>>
windowVars == <<monitorTab, dialog, helpers>>
elsewhere == <<settingsVars, monitorVars, commandVars, trayVars>>
lifeVars == <<elsewhere, windowVars>>

WindowTypeOK ==
  /\ current \in Monitor \cup {NoMonitorYet}
  /\ startable \in BOOLEAN
  /\ dialog \in {"none", "confirm", "wizard"}
  /\ reports \subseteq Monitor
  /\ scanning \in BOOLEAN /\ sampling \in BOOLEAN

NoWindow ==
  /\ current = NoMonitorYet /\ startable = TRUE /\ dialog = "none" /\ reports = {}
  /\ scanning = FALSE /\ sampling = FALSE

\* The event loop runs, the window's own or a dialog's: the tray's menu is at hand, the
\* widgets of the window only when no dialog is open.
InLoop == front = "gui" /\ main = "loop"
InWindow == InLoop /\ dialog = "none"

\* A thread told to quit ends when its worker's run() has returned.
CanBeJoined(m) == m # NoMonitorYet => pc[m] \in Over

-----------------------------------------------------------------------------
(* Starting and stopping a monitor. *)

\* cmd_gui: a configuration that does not load is replaced by the defaults.
WindowOpens ==
  /\ main = "none" /\ front' = "gui" /\ main' = "loop"
  /\ memory' = IF Loadable THEN disk ELSE Default
  /\ UNCHANGED <<file, disk, monitorVars, exit, locker, precaution, trayVars, windowVars>>

\* Which of the unused monitors is the next tells nothing: the same one each time.
Unused == {m \in Monitor : pc[m] = "unused"}
IsNext(m) == m \in Unused /\ m = CHOOSE first \in Unused : TRUE

\* _start_monitor: the settings are validated, a monitor that runs is not looked for.
StartMonitor(m) ==
  /\ Accepted(memory)
  /\ IsNext(m) /\ Begins(m)
  /\ current' = m /\ startable' = FALSE
  /\ UNCHANGED <<settingsVars, commandVars, trayVars, reports, helpers>>

StartDryRun(m) ==
  /\ InLoop /\ startable /\ StartMonitor(m) /\ UNCHANGED dialog

\* _on_start_armed asks in a dialog.
Asks ==
  /\ InWindow /\ startable /\ dialog' = "confirm"
  /\ UNCHANGED <<elsewhere, monitorTab, helpers>>

\* No, no locker, or settings that are not valid.
Declines ==
  /\ InLoop /\ dialog = "confirm" /\ dialog' = "none"
  /\ UNCHANGED <<elsewhere, monitorTab, helpers>>

Confirms(m) ==
  /\ InLoop /\ dialog = "confirm" /\ dialog' = "none"
  /\ StartMonitor(m)

\* _on_stop_monitor.
StopsCurrent ==
  /\ InLoop /\ ~startable /\ current # NoMonitorYet /\ current \notin stop
  /\ AskToStop(current)
  /\ UNCHANGED <<settingsVars, pc, tracks, opened, commandVars, trayVars, windowVars>>

MonitorEnds(m) == Stops(m) \/ Dies(m) \/ SourceFails(m) \/ StopRaises(m)

\* The worker's run() returns: its last act is to emit `stopped`.
Reports(m) ==
  /\ front = "gui" /\ main # "exited" /\ MonitorEnds(m)
  /\ reports' = reports \cup {m}
  /\ UNCHANGED <<settingsVars, commandVars, trayVars, current, startable, dialog, helpers>>

\* The constructor is called outside the try: nothing is emitted.
StaysSilent(m) ==
  /\ front = "gui" /\ main # "exited" /\ BuildFails(m)
  /\ UNCHANGED <<settingsVars, commandVars, trayVars, windowVars>>

\* _on_monitor_stopped, up to its wait for the thread it finds in _monitor_thread.
StoppedArrives(m) ==
  /\ InLoop /\ m \in reports /\ reports' = reports \ {m}
  /\ startable' = TRUE
  /\ main' = IF current = NoMonitorYet THEN main ELSE "joining"
  /\ UNCHANGED <<settingsVars, monitorVars, shellVars, current, dialog, helpers>>

StoppedJoined ==
  /\ main = "joining" /\ CanBeJoined(current)
  /\ main' = "loop" /\ current' = NoMonitorYet
  /\ UNCHANGED <<settingsVars, monitorVars, shellVars, startable, dialog, reports, helpers>>

-----------------------------------------------------------------------------
(* Choosing a device, scanning, calibrating, saving. *)

\* _use_selected_device: validated by nobody, and a session that runs is not told.
\* Bound: what the window writes is written; a write that fails is left to the tray.
UseDevice(device) ==
  /\ InWindow
  /\ memory' = [memory EXCEPT !.device = device]
  /\ Keep(memory')
  /\ UNCHANGED <<monitorVars, commandVars, trayVars, windowVars>>

\* Fault variant: what was not accepted is saved.
SaveAnyway ==
  /\ InWindow
  /\ \E bounds \in {memory.bounds, TRUE} : memory' = [memory EXCEPT !.bounds = bounds]
  /\ Keep(memory')
  /\ UNCHANGED <<monitorVars, commandVars, trayVars, windowVars>>

\* _on_save_settings: what the widgets show is within its bounds, and may replace what
\* was not; it is in the settings even when they are then refused and not saved.
SaveSettings ==
  /\ InWindow
  /\ \E bounds \in {memory.bounds, TRUE} : memory' = [memory EXCEPT !.bounds = bounds]
  /\ IF Accepted(memory') THEN Keep(memory') ELSE UNCHANGED <<file, disk>>
  /\ UNCHANGED <<monitorVars, commandVars, trayVars, windowVars>>

\* A scan in flight is not started again; its worker ends and its thread is told to quit.
ScanStarts ==
  /\ InWindow /\ ~scanning /\ scanning' = TRUE
  /\ UNCHANGED <<elsewhere, monitorTab, dialog, sampling>>

ScanEnds ==
  /\ scanning /\ scanning' = FALSE
  /\ UNCHANGED <<elsewhere, monitorTab, dialog, sampling>>

\* _on_start_calibration runs the wizard, whose button is enabled between two samples.
WizardOpens ==
  /\ InWindow /\ memory.device # NoDevice /\ dialog' = "wizard"
  /\ UNCHANGED <<elsewhere, monitorTab, helpers>>

SampleStarts ==
  /\ InLoop /\ dialog = "wizard" /\ ~sampling /\ sampling' = TRUE
  /\ UNCHANGED <<elsewhere, monitorTab, dialog, scanning>>

SampleEnds ==
  /\ sampling /\ sampling' = FALSE
  /\ UNCHANGED <<elsewhere, monitorTab, dialog, scanning>>

\* done() waits for the sample's thread.
WizardCancelled ==
  /\ InLoop /\ dialog = "wizard" /\ ~sampling /\ dialog' = "none"
  /\ UNCHANGED <<elsewhere, monitorTab, helpers>>

\* An accepted fit is saved, validated by nobody: its numbers may mend the configuration
\* or put it out of its bounds.
WizardAccepted ==
  /\ InLoop /\ dialog = "wizard" /\ ~sampling /\ dialog' = "none"
  /\ \E bounds \in BOOLEAN : memory' = [memory EXCEPT !.bounds = bounds]
  /\ Keep(memory')
  /\ UNCHANGED <<monitorVars, commandVars, trayVars, monitorTab, helpers>>

-----------------------------------------------------------------------------
(* Leaving. *)

\* Fault variant: the monitor is joined without being stopped.
LeavesUnstopped ==
  /\ InLoop
  /\ main' = "leaving" /\ UNCHANGED stop
  /\ UNCHANGED <<settingsVars, pc, tracks, opened, shellVars, windowVars>>

\* Quit, or the close of a window without a tray icon: _shutdown() begins.
Leaves ==
  /\ InLoop /\ main' = "leaving"
  /\ IF current = NoMonitorYet THEN UNCHANGED stop ELSE AskToStop(current)
  /\ UNCHANGED <<settingsVars, pc, tracks, opened, shellVars, windowVars>>

MonitorJoined ==
  /\ main = "leaving" /\ CanBeJoined(current)
  /\ main' = "leavingScan" /\ current' = NoMonitorYet
  /\ UNCHANGED <<settingsVars, monitorVars, shellVars, startable, dialog, reports, helpers>>

\* The scan's thread is joined; quitting closes the dialog, which joins its own.
Leaving ==
  /\ main = "leavingScan" /\ ~scanning /\ ~sampling
  /\ Exits(Ok) /\ dialog' = "none"
  /\ UNCHANGED <<settingsVars, monitorVars, front, locker, precaution, trayVars>>
  /\ UNCHANGED <<monitorTab, helpers>>

\* Qt's quit() asks the windows to close first: one that is shown hides itself when there
\* is a tray icon, and the event loop goes on.
StaysInTray ==
  /\ main = "leavingScan" /\ ~scanning /\ ~sampling
  /\ main' = "loop" /\ dialog' = "none"
  /\ UNCHANGED <<settingsVars, monitorVars, shellVars, monitorTab, helpers>>

WindowNext ==
  \/ WindowOpens
  \/ \E m \in Monitor :
       StartDryRun(m) \/ Confirms(m) \/ Reports(m) \/ StaysSilent(m) \/ StoppedArrives(m)
  \/ Asks \/ Declines \/ StopsCurrent \/ StoppedJoined
  \/ \E device \in Device : UseDevice(device)
  \/ SaveSettings
  \/ ScanStarts \/ ScanEnds
  \/ WizardOpens \/ SampleStarts \/ SampleEnds \/ WizardCancelled \/ WizardAccepted
  \/ Leaves \/ MonitorJoined \/ Leaving \/ StaysInTray
=============================================================================
