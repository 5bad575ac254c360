----------------------------- MODULE CommandLine -----------------------------
(***************************************************************************)
(* The commands (src/stavau/cli.py) that change the configuration or run a *)
(* monitor in the terminal, and the exit codes main() gives them.  A       *)
(* process runs one command; what is left of it is the file.               *)
(***************************************************************************)
EXTENDS MonitorThread, Integers

VARIABLES
  front,       \* the command the process runs, once it is known
  main,        \* where its main thread is
  exit,        \* its exit code, once it has exited
  locker,      \* the command has a locker: it is armed
  precaution   \* what became of the lock cmd_run takes when its monitor dies

commandVars == <<front, main, exit, locker, precaution>>

\* Exit codes: of main() and cmd_run, and 1 for what failed or an exception nobody handles.
Ok == 0
Failed == 1
Refused == 2
Aborted == 3
Interrupted == 130

\* The session of a command that makes one.
Its == CHOOSE m \in Monitor : TRUE

NoCommand ==
  /\ front = "none" /\ main = "none" /\ exit = Ok
  /\ locker = FALSE /\ precaution = "none"

Exits(code) == main' = "exited" /\ exit' = code

-----------------------------------------------------------------------------
(* stavau setup and stavau pair: dialogues that save once, at the end. *)

\* Fault variant: setup saves, then validates.
SetupSavesFirst(config) ==
  /\ main = "none" /\ front' = "setup"
  /\ config.device # NoDevice /\ Keep(config) /\ Exits(Ok)
  /\ UNCHANGED <<memory, monitorVars, locker, precaution>>

\* The identity and the calibration asked for give any configuration with a device.
SetupSaves(config) ==
  /\ main = "none" /\ front' = "setup"
  /\ Accepted(config) /\ Keep(config) /\ Exits(Ok)
  /\ UNCHANGED <<memory, monitorVars, locker, precaution>>

\* cmd_pair without an address: the loaded configuration is saved with what came of it.
Pairs(paired) ==
  /\ main = "none" /\ front' = "pair"
  /\ Loadable /\ Accepted(disk) /\ Keep([disk EXCEPT !.paired = paired])
  /\ Exits(IF paired THEN Ok ELSE Failed)
  /\ UNCHANGED <<memory, monitorVars, locker, precaution>>

-----------------------------------------------------------------------------
(* stavau run, and the part stavau tray shares with it. *)

\* A configuration that cannot be read or is not valid, no tray, or no locker to arm with;
\* an exception of load() that is not a ConfigError is handled by nobody.
Refuses(command, withLocker) ==
  /\ main = "none" /\ front' = command
  /\ Loadable /\ Accepted(disk) => withLocker \/ command = "tray"
  /\ Exits(IF file = "garbled" THEN Failed ELSE Refused)
  /\ UNCHANGED <<settingsVars, monitorVars, locker, precaution>>

Runs(command, withLocker) ==
  /\ main = "none" /\ front' = command
  /\ Loadable /\ Accepted(disk) /\ memory' = disk
  /\ main' = "session" /\ locker' = withLocker /\ Begins(Its)
  /\ UNCHANGED <<file, disk, exit, precaution>>

CliBuilt ==
  /\ front = "cli" /\ main = "session" /\ Built(Its)
  /\ UNCHANGED <<settingsVars, commandVars>>

\* The constructor is called outside every try.
NotBuilt ==
  /\ front \in {"cli", "tray"} /\ main = "session" /\ BuildFails(Its)
  /\ Exits(Failed)
  /\ UNCHANGED <<settingsVars, front, locker, precaution>>

\* The duration is over.
CliEnds ==
  /\ front = "cli" /\ main = "session" /\ pc[Its] = "running"
  /\ IsOver(Its, "ended", TRUE) /\ Exits(Ok)
  /\ UNCHANGED <<settingsVars, front, locker, precaution>>

\* Ctrl+C cancels run(): its finally runs if its try has been entered, and is cut short
\* if it is there already.
Interrupts ==
  /\ front = "cli" /\ main = "session" /\ pc[Its] \in Live
  /\ \/ IsOver(Its, "ended", pc[Its] = "running")
     \/ pc[Its] = "running" /\ IsOver(Its, "cut", FALSE)
  /\ Exits(Interrupted)
  /\ UNCHANGED <<settingsVars, front, locker, precaution>>

\* Fault variant: only a monitor that has ticked is answered with a lock.
AnswersTicked ==
  /\ front = "cli" /\ main = "session" /\ pc[Its] \in Dead
  /\ precaution' \in IF locker /\ Its \notin opened THEN {"locked", "warned"} ELSE {"none"}
  /\ Exits(Aborted)
  /\ UNCHANGED <<settingsVars, monitorVars, front, locker>>

\* The monitor died: the screen is locked, or the user is told that it is not.
Answers ==
  /\ front = "cli" /\ main = "session" /\ pc[Its] \in Dead
  /\ precaution' \in IF locker THEN {"locked", "warned"} ELSE {"none"}
  /\ Exits(Aborted)
  /\ UNCHANGED <<settingsVars, monitorVars, front, locker>>

CommandNext ==
  \/ \E config \in Config : SetupSaves(config)
  \/ \E paired \in BOOLEAN : Pairs(paired)
  \/ \E command \in {"cli", "tray"}, withLocker \in BOOLEAN :
       Refuses(command, withLocker) \/ Runs(command, withLocker)
  \/ CliBuilt \/ NotBuilt \/ CliEnds \/ Interrupts \/ Answers
=============================================================================
