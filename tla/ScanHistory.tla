---------------------------- MODULE ScanHistory -----------------------------
(***************************************************************************)
(* What the advertisement-monitor source promises of the presence it       *)
(* synthesizes, of the device it follows and of what stop() leaves behind, *)
(* with a history of the races in which the code does less.                *)
(***************************************************************************)
EXTENDS AdvMonitor

VARIABLES
  whose,      \* per keepalive, the device whose resolver created it
  overtaken,  \* a retarget came after the comparison of the resolver under way
  strayed,    \* keepalives that such a resolver created, or a retarget dropped uncancelled
  orphan,     \* devices that were lost or released while their address was awaited
  missed,     \* a retarget passed over a scan being started for the old device
  late        \* stop() met a callback or a task it does not know of, or a scan
              \* replaced one still running

shist == <<whose, overtaken, strayed, orphan, missed, late>>
svars == <<vars, shist>>

SInit ==
  /\ Init
  /\ whose = [k \in Beat |-> NoDevice] /\ overtaken = FALSE /\ strayed = {}
  /\ orphan = {} /\ missed = FALSE /\ late = FALSE

Created == alive' \ alive

\* The task whose record is overwritten by a retarget that has taken another, or none.
DroppedUncancelled == {k \in {keepalive} \ {taken} : keepalive' # k}

Retold ==
  /\ whose' = [k \in Beat |->
                 IF k \notin alive' THEN NoDevice
                 ELSE IF k \in alive THEN whose[k] ELSE who]
  /\ overtaken' = (/\ at' \in {"record", "track"}
                    /\ (overtaken \/ (tray = "idle" /\ tray' = "forget")))
  /\ strayed' = alive' \cap
       (strayed \cup DroppedUncancelled \cup (IF overtaken THEN Created ELSE {}))
  /\ orphan' = (orphan \ inRange') \cup (resolving \cap (inRange \ inRange'))
  /\ missed' = IF tray = "cancel" /\ tray' = "idle"
               THEN \E by \in Starter : starting'[by] \notin {NoDevice, address}
               ELSE missed
  /\ late' = \/ late
             \/ phase \in Stopping /\ (inRange' \ inRange # {} \/ (~called /\ called'))
             \/ phase = "running" /\ phase' \in Stopping /\ alive' # {}
             \/ at = "store" /\ at' = "idle" /\ fallback # NoDevice

SNext == Next /\ Retold

SSpec == SInit /\ [][SNext]_svars

SFairSpec == SSpec /\ Fairness

-----------------------------------------------------------------------------
(* Properties. *)

\* Between two retargets presence is synthesized only for the device the user chose,
\* although the answer to a found callback may come after a retarget: except by a
\* keepalive created while a retarget ran past its resolver, or past its record.
PresenceIsTarget ==
  tray = "idle" => \A k \in alive \ strayed : Beating(k) => whose[k] = address

\* Over a live bus presence is synthesized only for a device the controller holds
\* for present, unless it was lost while its address was still being asked for.
PresenceUnlessOrphan ==
  tray = "idle" /\ BusAlive =>
    \A k \in alive \ strayed : Beating(k) => whose[k] \in inRange \cup orphan

\* Between two retargets a fallback scan is for the device the user chose, unless
\* the last one found it built and not yet recorded.
FallbackUnlessMissed ==
  tray = "idle" /\ fallback # NoDevice => fallback = address \/ missed

\* stop() leaves no task and no scan running, unless BlueZ called during its awaits,
\* a keepalive was out of its reach or a second scan had replaced one.  When the stop
\* of the scan raises, no task is left.
Idle ==
  /\ resolving = {} /\ ~called /\ alive = {}
  /\ \A by \in Starter : starting[by] = NoDevice
StopLeavesNothing ==
  /\ phase = "stopped" => (Idle /\ scanners = 0) \/ late
  /\ phase = "aborted" => (Idle /\ scanners \in 0..1) \/ late

\* Someone will bring the next sample of a device that comes into range.
Watching ==
  \/ monitored \/ fallback # NoDevice \/ called
  \/ ~linked /\ \E k \in alive : Beating(k)
  \/ \E by \in Starter : starting[by] # NoDevice

\* A running source goes deaf only when the bus dies while nothing is tracked, when
\* a scan cannot be started, or when a retarget cancels the start of one: a
\* released monitor never leaves it silent (advmonitor.py:356-362).
DeafOnlyIf ==
  [][phase = "running" /\ phase' = "running" /\ Watching /\ ~Watching'
       => BusDies \/ RetargetCancels \/ \E by \in Starter : ScanFails(by)]_svars

\* A source that has lost its monitor and is still watching comes to scan.
Rescans ==
  phase = "running" /\ ~monitored /\ Watching
    ~> fallback # NoDevice \/ ~Watching \/ phase # "running"

\* advmonitor.py:23-26 as it is worded: after DeviceLost we simply stop pushing.
PresenceIsPresent ==
  tray = "idle" /\ BusAlive =>
    \A k \in alive \ strayed : Beating(k) => whose[k] \in inRange

-----------------------------------------------------------------------------
(* Why the safety properties hold: the inductive invariants of ScanProofs. *)

One(holds) == IF holds THEN 1 ELSE 0

\* The scans the source will stop: the recorded one, the one about to be recorded, and
\* the one stop() is halting.
Owned == One(fallback # NoDevice) + One(at = "store") + One(phase = "halting")

Midway == at \in {"record", "track"}

STypeOK ==
  /\ TypeOK
  /\ whose \in [Beat -> Device \cup {NoDevice}]
  /\ overtaken \in BOOLEAN /\ strayed \subseteq alive
  /\ orphan \subseteq Device /\ missed \in BOOLEAN /\ late \in BOOLEAN
  /\ scanners >= Owned
  /\ Midway => Free # {}

\* A keepalive that goes on and that the source should have in hand.
Held(k) == k \in alive \ strayed /\ ~(at = "store" /\ who = k)

\* It is recorded for the chosen device, or the retarget under way will cancel it.
HeldInv ==
  /\ overtaken => Midway
  /\ Midway /\ ~overtaken => who = address
  /\ \A k \in Beat : Held(k) =>
       /\ tray = "idle" => k = keepalive /\ whose[k] = address
       /\ tray \in {"forget", "take"} => k = keepalive
       /\ tray = "drop" => k = keepalive /\ (k = taken \/ whose[k] = address)
       /\ tray = "cancel" => k = taken \/ (k = keepalive /\ whose[k] = address)

\* Recorded, and not about to be cancelled.
Lasting(k) == Held(k) /\ k = keepalive /\ tray \in {"idle", "cancel"} /\ k # taken

\* An address is awaited only for a device that is there, or was lost meanwhile, and
\* the path of a keepalive's device is the one to be lost.
OrphanInv ==
  /\ BusAlive => resolving \subseteq inRange \cup orphan
  /\ Midway /\ BusAlive => who \in inRange \cup orphan
  /\ at = "track" /\ ~overtaken => found \in {NoDevice, who}
  /\ overtaken /\ tray \in {"idle", "cancel"} => keepalive = NoBeat
  /\ \A k \in Beat : Lasting(k) =>
       found \in {NoDevice, whose[k]} /\ (BusAlive => whose[k] \in inRange \cup orphan)
  /\ phase = "starting" => ~bus /\ resolving = {} /\ alive = {} /\ ~Midway

\* A scan being started is for the chosen device, unless a retarget passed over it.
FallbackInv ==
  tray = "idle" /\ ~missed =>
    /\ fallback \in {NoDevice, address}
    /\ \A by \in Starter : starting[by] \in {NoDevice, address}

\* Outside the races the source knows of every scan, and stop() has no tasks left.
StopInv ==
  /\ phase # "starting" => starting["start"] = NoDevice
  /\ ~late =>
       /\ IF phase = "aborted" THEN scanners \in 0..1 ELSE scanners = Owned
       /\ phase \in Stopping \cup {"stopped", "aborted"} => Idle /\ at = "idle"
       /\ phase \in {"halting", "unregistering", "stopped", "aborted"} =>
            fallback = NoDevice
=============================================================================
