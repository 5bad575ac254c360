------------------------------- MODULE TrayApp -------------------------------
(***************************************************************************)
(* TrayApp (src/stavau/ui/tray.py): the session is made by the main        *)
(* thread, run by a daemon thread, retargeted by the menu's thread, and    *)
(* left to its fate when the icon is closed.                               *)
(***************************************************************************)
EXTENDS CommandLine

VARIABLE status   \* _status: "error" once the monitor thread has died

trayVars == <<status>>

NoTray == status = "none"

InMenu == front = "tray" /\ main = "menu"

\* __init__, and the icon that starts the monitor's thread.
TrayOpens ==
  /\ front = "tray" /\ main = "session" /\ Built(Its)
  /\ main' = "menu" /\ status' = "starting"
  /\ UNCHANGED <<settingsVars, front, exit, locker, precaution>>

\* Fault variant: the session is not told.
SwitchQuietly(device) ==
  /\ InMenu /\ memory' = [memory EXCEPT !.device = device]
  /\ Keep(memory')
  /\ UNCHANGED <<monitorVars, commandVars, status>>

\* _switch_device: the settings, the file, the session, in this order.
Switch(device) ==
  /\ InMenu /\ memory' = [memory EXCEPT !.device = device]
  /\ Keep(memory') /\ Retargets(Its, device)
  /\ UNCHANGED <<commandVars, status>>

\* save() raises: the rest is not reached.
SwitchFails(device) ==
  /\ InMenu /\ memory' = [memory EXCEPT !.device = device]
  /\ KeepFails
  /\ UNCHANGED <<monitorVars, commandVars, status>>

\* The except of _monitor_thread.
ShowsError ==
  /\ InMenu /\ pc[Its] \in Dead /\ status # "error" /\ status' = "error"
  /\ UNCHANGED <<settingsVars, monitorVars, commandVars>>

\* _on_quit: the event is set, and the process goes without waiting for the thread.
TrayQuits ==
  /\ InMenu /\ AskToStop(Its) /\ Exits(Ok)
  /\ UNCHANGED <<settingsVars, pc, tracks, opened, front, locker, precaution, status>>

TrayNext ==
  \/ TrayOpens \/ ShowsError \/ TrayQuits
  \/ \E device \in Device : Switch(device) \/ SwitchFails(device)
=============================================================================
