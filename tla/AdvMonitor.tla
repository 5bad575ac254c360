----------------------------- MODULE AdvMonitor -----------------------------
(***************************************************************************)
(* AdvMonitorSource (src/stavau/core/advmonitor.py): presence from a BlueZ *)
(* advertisement monitor, synthesized by a keepalive task between its      *)
(* found and lost callbacks, with a software scan to fall back on.         *)
(*                                                                         *)
(* The callbacks and the tasks run on the session's event loop, one at a   *)
(* time from await to await; retarget() runs in the tray's thread          *)
(* (tray.py:124-129), statement by statement, between any two statements   *)
(* of theirs.  A handler of the loop is one step (at = "idle") unless a    *)
(* retarget can tell its statements apart.  BlueZ and the bus move in      *)
(* between.  A device stands for its D-Bus object path too.                *)
(***************************************************************************)
EXTENDS Naturals

CONSTANTS Device,    \* addresses a monitor may report or a user may choose
          NoDevice,  \* None
          Beat,      \* bound: the keepalive tasks that may be alive at once
          NoBeat,    \* None
          Choosing   \* bound: the phases in which a retarget may begin

ASSUME DeviceAssumption == NoDevice \notin Device
ASSUME BeatAssumption ==
  NoBeat \notin Beat \cup {"start", "release"} /\ {"start", "release"} \cap Beat = {}

VARIABLES
  phase,      \* where start() and stop() are
  address,    \* _address
  bus,        \* _bus is set
  found,      \* _found_path
  fallback,   \* the address _fallback scans for
  starting,   \* per caller of _start_fallback, the address of the scan it has built
  keepalive,  \* _keepalive_task
  alive,      \* keepalive tasks that are not done, recorded or not
  resolving,  \* devices whose _resolve_and_track awaits the answer of the bus
  called,     \* the task that _on_release has created, and that has not begun
  at,         \* the statement a handler of the loop has reached
  who,        \* that handler: the device of a resolver, or a caller of _start_fallback
  tray,       \* the statement retarget() has reached
  taken,      \* its local variable: the task to cancel
  scanners,   \* running software scans, recorded in _fallback or not
  linked,     \* external: the connection to the bus is up
  monitored,  \* external: BlueZ holds the monitor and calls it back
  inRange     \* external: devices BlueZ has reported found, and not lost since

taskVars == <<starting, keepalive, alive, resolving, called>>
stepVars == <<at, who>>
trayVars == <<tray, taken>>
blueVars == <<linked, monitored, inRange>>
vars == <<phase, address, bus, found, fallback, scanners, taskVars, stepVars, trayVars,
          blueVars>>

Starter == {"start", "release"} \cup Beat
Stopping == {"reaping", "halting", "unregistering"}
Over == {"failed", "stopped", "aborted"}

TypeOK ==
  /\ phase \in {"starting", "running"} \cup Stopping \cup Over
  /\ address \in Device /\ bus \in BOOLEAN
  /\ found \in Device \cup {NoDevice} /\ fallback \in Device \cup {NoDevice}
  /\ starting \in [Starter -> Device \cup {NoDevice}]
  /\ keepalive \in Beat \cup {NoBeat} /\ alive \subseteq Beat
  /\ \A k \in Beat : starting[k] # NoDevice => k \in alive
  /\ resolving \subseteq Device /\ called \in BOOLEAN
  /\ at \in {"idle", "record", "track", "store"}
  /\ at \in {"record", "track"} => who \in Device
  /\ at = "store" => who \in Starter /\ starting[who] # NoDevice
  /\ tray \in {"idle", "forget", "take", "drop", "cancel"}
  /\ taken \in Beat \cup {NoBeat} /\ (tray \notin {"drop", "cancel"} => taken = NoBeat)
  /\ scanners \in Nat
  /\ linked \in BOOLEAN /\ monitored \in BOOLEAN /\ inRange \subseteq Device

Init ==
  /\ phase = "starting" /\ address \in Device /\ bus = FALSE
  /\ found = NoDevice /\ fallback = NoDevice
  /\ starting = [by \in Starter |-> NoDevice]
  /\ keepalive = NoBeat /\ alive = {} /\ resolving = {} /\ called = FALSE
  /\ at = "idle" /\ who = NoDevice /\ tray = "idle" /\ taken = NoBeat
  /\ scanners = 0
  /\ linked = FALSE /\ monitored = FALSE /\ inRange = {}

-----------------------------------------------------------------------------
(* Shared pieces of the handlers. *)

\* The loop takes up the next callback or task.  It is closed, with what it still has,
\* as soon as start() or stop() has raised or stop() has returned.
Runs == at = "idle" /\ phase \notin Over

Cancelled(k) == [by \in Starter |-> IF by = k THEN NoDevice ELSE starting[by]]

\* _stop_tracking on the loop: the recorded keepalive is cancelled, in its sleep or in
\* a scan's start.  A retarget between its statements cancels the same task.
Untracked ==
  /\ found' = NoDevice /\ keepalive' = NoBeat
  /\ alive' = alive \ {keepalive}

\* _start_fallback: nothing if there is a fallback, and otherwise a scan for the
\* address of the moment, the start of which is awaited.
Begun(by, pending) ==
  IF fallback = NoDevice THEN [pending EXCEPT ![by] = address] ELSE pending

-----------------------------------------------------------------------------
(* start() *)

Register ==
  /\ phase = "starting" /\ Runs /\ starting["start"] = NoDevice
  /\ phase' = "running" /\ bus' = TRUE
  /\ linked' = TRUE /\ monitored' = TRUE
  /\ UNCHANGED <<address, found, fallback, scanners, taskVars, stepVars, trayVars, inRange>>

CannotRegister ==
  /\ phase = "starting" /\ Runs /\ starting["start"] = NoDevice
  /\ starting' = Begun("start", starting)
  /\ UNCHANGED <<phase, address, bus, found, fallback, scanners, keepalive, alive,
                 resolving, called, stepVars, trayVars, blueVars>>

\* The awaited fallback.start() returns; the scan runs before it is recorded ...
ScanReturns(by) ==
  /\ Runs /\ starting[by] # NoDevice
  /\ at' = "store" /\ who' = by /\ scanners' = scanners + 1
  /\ UNCHANGED <<phase, address, bus, found, fallback, taskVars, trayVars, blueVars>>

\* ... and then _fallback is set.  A keepalive stops tracking and ends.
Stores ==
  /\ at = "store" /\ at' = "idle" /\ who' = NoDevice
  /\ fallback' = starting[who]
  /\ IF who \in Beat
     THEN /\ found' = NoDevice /\ keepalive' = NoBeat
          /\ alive' = alive \ {who, keepalive}
          /\ starting' = [by \in Starter |->
                            IF by \in {who, keepalive} THEN NoDevice ELSE starting[by]]
     ELSE starting' = Cancelled(who) /\ UNCHANGED <<found, keepalive, alive>>
  /\ phase' = IF who = "start" THEN "running" ELSE phase
  /\ UNCHANGED <<address, bus, scanners, resolving, called, trayVars, blueVars>>

\* Or the await raises: out of start(), or silently out of a task.
ScanFails(by) ==
  /\ Runs /\ starting[by] # NoDevice
  /\ starting' = Cancelled(by) /\ alive' = alive \ {by}
  /\ phase' = IF by = "start" THEN "failed" ELSE phase
  /\ UNCHANGED <<address, bus, found, fallback, scanners, keepalive, resolving, called,
                 stepVars, trayVars, blueVars>>

-----------------------------------------------------------------------------
(* The callbacks of the monitor, and the tasks they leave behind. *)

Callable == linked /\ monitored /\ Runs

\* Without a bus the new task returns at once.
DeviceFound(d) ==
  /\ Callable /\ d \notin inRange
  /\ inRange' = inRange \cup {d}
  /\ resolving' = IF bus THEN resolving \cup {d} ELSE resolving
  /\ UNCHANGED <<phase, address, bus, found, fallback, scanners, starting, keepalive, alive,
                 called, stepVars, trayVars, linked, monitored>>

\* Fault variant: the comparison of the paths is the wrong way round.
LostSwapped(d) ==
  /\ Callable /\ d \in inRange
  /\ inRange' = inRange \ {d}
  /\ IF found # d
     THEN Untracked /\ starting' = Cancelled(keepalive)
     ELSE UNCHANGED <<found, keepalive, alive, starting>>
  /\ UNCHANGED <<phase, address, bus, fallback, scanners, resolving, called, stepVars,
                 trayVars, linked, monitored>>

DeviceLost(d) ==
  /\ Callable /\ d \in inRange
  /\ inRange' = inRange \ {d}
  /\ IF found \in {NoDevice, d}
     THEN Untracked /\ starting' = Cancelled(keepalive)
     ELSE UNCHANGED <<found, keepalive, alive, starting>>
  /\ UNCHANGED <<phase, address, bus, fallback, scanners, resolving, called, stepVars,
                 trayVars, linked, monitored>>

\* Fault variant: the source stops and starts no scan.
ReleaseOnlyStops ==
  /\ Callable /\ monitored' = FALSE /\ inRange' = {}
  /\ Untracked /\ starting' = Cancelled(keepalive)
  /\ UNCHANGED <<phase, address, bus, fallback, scanners, resolving, called, stepVars,
                 trayVars, linked>>

Release ==
  /\ Callable /\ monitored' = FALSE /\ inRange' = {}
  /\ Untracked /\ starting' = Cancelled(keepalive) /\ called' = TRUE
  /\ UNCHANGED <<phase, address, bus, fallback, scanners, resolving, stepVars, trayVars,
                 linked>>

ReleaseBegins ==
  /\ Runs /\ called /\ called' = FALSE
  /\ starting' = Begun("release", starting)
  /\ UNCHANGED <<phase, address, bus, found, fallback, scanners, keepalive, alive, resolving,
                 stepVars, trayVars, blueVars>>

\* The tasks that may be created: neither alive nor held in a variable.
Free == Beat \ (alive \cup {keepalive, taken})
NextBeat == CHOOSE k \in Free : TRUE

\* Fault variant: the address is not compared after the await.
ResolvedForAny(d) ==
  /\ Runs /\ d \in resolving /\ resolving' = resolving \ {d}
  /\ Free # {} /\ at' = "record" /\ who' = d
  /\ UNCHANGED <<phase, address, bus, found, fallback, scanners, starting, keepalive, alive,
                 called, trayVars, blueVars>>

\* _resolve_and_track has its answer, the address of the device, and compares it.
Resolved(d) ==
  /\ Runs /\ d \in resolving /\ resolving' = resolving \ {d}
  /\ IF d = address
     THEN Free # {} /\ at' = "record" /\ who' = d
     ELSE UNCHANGED stepVars
  /\ UNCHANGED <<phase, address, bus, found, fallback, scanners, starting, keepalive, alive,
                 called, trayVars, blueVars>>

Records ==
  /\ at = "record" /\ at' = "track" /\ found' = who
  /\ UNCHANGED <<phase, address, bus, fallback, scanners, taskVars, who, trayVars, blueVars>>

Tracks ==
  /\ at = "track" /\ at' = "idle" /\ who' = NoDevice
  /\ IF keepalive \in alive
     THEN UNCHANGED <<keepalive, alive>>
     ELSE keepalive' = NextBeat /\ alive' = alive \cup {NextBeat}
  /\ UNCHANGED <<phase, address, bus, found, fallback, scanners, starting, resolving, called,
                 trayVars, blueVars>>

\* The answer is None, or the call raises.
Unresolved(d) ==
  /\ Runs /\ d \in resolving /\ resolving' = resolving \ {d}
  /\ UNCHANGED <<phase, address, bus, found, fallback, scanners, starting, keepalive, alive,
                 called, stepVars, trayVars, blueVars>>

\* Fault variant: a bus that was connected once counts as alive.
BusRemembered == bus

BusAlive == bus /\ linked

Beating(k) == k \in alive /\ starting[k] = NoDevice

\* A beat of a keepalive that finds the bus dead.  One that finds it alive pushes a
\* sample and changes nothing here.
Degrade(k) ==
  /\ Runs /\ Beating(k) /\ ~BusAlive
  /\ IF fallback = NoDevice
     THEN starting' = Begun(k, starting) /\ UNCHANGED <<found, keepalive, alive>>
     ELSE /\ found' = NoDevice /\ keepalive' = NoBeat /\ alive' = alive \ {k, keepalive}
          /\ starting' = Cancelled(keepalive)
  /\ UNCHANGED <<phase, address, bus, fallback, scanners, resolving, called, stepVars,
                 trayVars, blueVars>>

-----------------------------------------------------------------------------
(* retarget(), in the tray's thread *)

Retarget(a) ==
  /\ tray = "idle" /\ phase \in Choosing
  /\ tray' = "forget" /\ address' = a
  /\ UNCHANGED <<phase, bus, found, fallback, scanners, taskVars, stepVars, taken, blueVars>>

RetargetForgets ==
  /\ tray = "forget" /\ tray' = "take" /\ found' = NoDevice
  /\ UNCHANGED <<phase, address, bus, fallback, scanners, taskVars, stepVars, taken, blueVars>>

RetargetTakes ==
  /\ tray = "take" /\ tray' = "drop" /\ taken' = keepalive
  /\ UNCHANGED <<phase, address, bus, found, fallback, scanners, taskVars, stepVars, blueVars>>

RetargetDrops ==
  /\ tray = "drop" /\ tray' = "cancel" /\ keepalive' = NoBeat
  /\ UNCHANGED <<phase, address, bus, found, fallback, scanners, starting, alive, resolving,
                 called, stepVars, taken, blueVars>>

\* A task that its cancellation finds past its last await runs to its end.
Cancellable == IF at = "store" /\ who = taken THEN NoBeat ELSE taken

\* Fault variant: a fallback keeps the device it was started for.
RetargetMonitorOnly ==
  /\ tray = "cancel" /\ tray' = "idle" /\ taken' = NoBeat
  /\ alive' = alive \ {Cancellable} /\ starting' = Cancelled(Cancellable)
  /\ UNCHANGED <<phase, address, bus, found, fallback, scanners, keepalive, resolving, called,
                 stepVars, blueVars>>

\* The task is cancelled and the choice passed on to the fallback there is.  What the
\* loop does between the two it could do before both.
RetargetCancels ==
  /\ tray = "cancel" /\ tray' = "idle" /\ taken' = NoBeat
  /\ alive' = alive \ {Cancellable} /\ starting' = Cancelled(Cancellable)
  /\ fallback' = IF fallback = NoDevice THEN NoDevice ELSE address
  /\ UNCHANGED <<phase, address, bus, found, scanners, keepalive, resolving, called, stepVars,
                 blueVars>>

-----------------------------------------------------------------------------
(* stop() *)

\* stop() once the tasks are reaped: _fallback is forgotten before the await of
\* its stop, and _bus before the await of UnregisterMonitor.
LetGo ==
  /\ fallback' = NoDevice
  /\ phase' = IF fallback # NoDevice THEN "halting" ELSE "unregistering"
  /\ bus' = (bus /\ fallback # NoDevice)

Tasks ==
  resolving # {} \/ called \/ keepalive \in alive \/ starting["release"] # NoDevice

\* Fault variant: the tasks are neither cancelled nor awaited.
StopWithoutReaping ==
  /\ phase = "running" /\ Runs /\ LetGo
  /\ Untracked /\ starting' = Cancelled(keepalive)
  /\ UNCHANGED <<address, scanners, resolving, called, stepVars, trayVars, blueVars>>

\* The tasks it knows of are cancelled, and awaited with those that were cancelled
\* before and are not done.
Stop ==
  /\ phase = "running" /\ Runs
  /\ Untracked /\ resolving' = {} /\ called' = FALSE
  /\ starting' = [by \in Starter |->
                    IF by \in {keepalive, "release"} THEN NoDevice ELSE starting[by]]
  /\ \/ phase' = "reaping" /\ UNCHANGED <<fallback, bus>>
     \/ ~Tasks /\ LetGo
  /\ UNCHANGED <<address, scanners, stepVars, trayVars, blueVars>>

Reaped ==
  /\ phase = "reaping" /\ Runs /\ LetGo
  /\ UNCHANGED <<address, found, scanners, taskVars, stepVars, trayVars, blueVars>>

Halted ==
  /\ phase = "halting" /\ Runs
  /\ phase' = "unregistering" /\ bus' = FALSE
  /\ scanners' = scanners - 1
  /\ UNCHANGED <<address, found, fallback, taskVars, stepVars, trayVars, blueVars>>

\* fallback.stop() raises out of stop(): the bus keeps the monitor.
HaltFails ==
  /\ phase = "halting" /\ Runs /\ phase' = "aborted"
  /\ scanners' \in {scanners - 1, scanners}
  /\ UNCHANGED <<address, bus, found, fallback, taskVars, stepVars, trayVars, blueVars>>

Stopped ==
  /\ phase = "unregistering" /\ Runs /\ phase' = "stopped"
  /\ linked' = FALSE /\ monitored' = FALSE /\ inRange' = {}
  /\ UNCHANGED <<address, bus, found, fallback, scanners, taskVars, stepVars, trayVars>>

-----------------------------------------------------------------------------

BusDies ==
  /\ linked /\ linked' = FALSE /\ monitored' = FALSE /\ inRange' = {}
  /\ UNCHANGED <<phase, address, bus, found, fallback, scanners, taskVars, stepVars, trayVars>>

Task ==
  \/ \E d \in Device : Resolved(d) \/ Unresolved(d)
  \/ Records \/ Tracks \/ ReleaseBegins \/ Stores
  \/ \E by \in Starter : ScanReturns(by) \/ ScanFails(by)
  \/ \E k \in Beat : Degrade(k)
  \/ Reaped \/ Halted \/ HaltFails \/ Stopped

BlueZ == (\E d \in Device : DeviceFound(d) \/ DeviceLost(d)) \/ Release \/ BusDies

Tray ==
  \/ \E a \in Device : Retarget(a)
  \/ RetargetForgets \/ RetargetTakes \/ RetargetDrops \/ RetargetCancels

Next == Register \/ CannotRegister \/ Task \/ BlueZ \/ Tray \/ Stop

Spec == Init /\ [][Next]_vars

\* The event loop runs every task that can go on, and calls return.
Fairness == WF_vars(Task)
=============================================================================
