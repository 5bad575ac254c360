----------------------------- MODULE ScanProofs -----------------------------
(***************************************************************************)
(* The safety promises of the advertisement-monitor source, for any number *)
(* of devices and of scans.                                                *)
(***************************************************************************)
EXTENDS ScanHistory, DistanceModel, TLAPS

-----------------------------------------------------------------------------
(* Types. *)

LEMMA NextBeatIsFree ==
  ASSUME Free # {}
  PROVE  NextBeat \in Free
BY DEF NextBeat

\* The constants that are not told apart by their types.
LEMMA Starters ==
  /\ Starter = {"start", "release"} \cup Beat
  /\ \A k \in Beat : k # "start" /\ k # "release" /\ k # NoBeat
  /\ NoBeat # "start" /\ NoBeat # "release" /\ NoBeat \notin Starter
BY BeatAssumption DEF Starter

\* What the loop does, and what the tray does.
LEMMA LoopTypeStep ==
  ASSUME TypeOK, Midway => Free # {}, scanners >= Owned,
         Register \/ CannotRegister \/ Task \/ BlueZ \/ Stop
  PROVE  TypeOK'
<1> USE DeviceAssumption, Starters DEF TypeOK
<1>1. ASSUME NEW d \in Device, DeviceFound(d) PROVE TypeOK'
  BY <1>1 DEF DeviceFound, stepVars, trayVars
<1>2. ASSUME NEW d \in Device, DeviceLost(d) PROVE TypeOK'
  <2>1. CASE found \in {NoDevice, d}
    BY <1>2, <2>1 DEF DeviceLost, Callable, Runs, Untracked, Cancelled, stepVars, trayVars
  <2>2. CASE found \notin {NoDevice, d}
    BY <1>2, <2>2 DEF DeviceLost, stepVars, trayVars
  <2> QED BY <2>1, <2>2
<1>3. CASE Release
  BY <1>3 DEF Release, Callable, Runs, Untracked, Cancelled, stepVars, trayVars
<1>4. CASE ReleaseBegins
  BY <1>4 DEF ReleaseBegins, Runs, Begun, stepVars, trayVars, blueVars
<1>5. ASSUME NEW by \in Starter, ScanReturns(by) PROVE TypeOK'
  BY <1>5 DEF ScanReturns, taskVars, trayVars, blueVars
<1>6. ASSUME NEW by \in Starter, ScanFails(by) PROVE TypeOK'
  BY <1>6 DEF ScanFails, Runs, Cancelled, Over, stepVars, trayVars, blueVars
<1>7. CASE Stores
  <2>1. CASE who \in Beat
    BY <1>7, <2>1 DEF Stores, trayVars, blueVars
  <2>2. CASE who \notin Beat
    BY <1>7, <2>2 DEF Stores, Cancelled, trayVars, blueVars
  <2> QED BY <2>1, <2>2
<1>8. CASE Register
  BY <1>8 DEF Register, taskVars, stepVars, trayVars
<1>9. CASE CannotRegister
  BY <1>9 DEF CannotRegister, Runs, Begun, stepVars, trayVars, blueVars
<1>10. CASE Stop
  BY <1>10 DEF Stop, Runs, LetGo, Untracked, Stopping, stepVars, trayVars, blueVars
<1>11. CASE Reaped
  BY <1>11 DEF Reaped, LetGo, Stopping, taskVars, stepVars, trayVars, blueVars
<1>12. CASE Halted \/ HaltFails
  <2>1. scanners >= 1
    BY <1>12 DEF Halted, HaltFails, Owned, One
  <2>2. scanners' \in Nat
    BY <1>12, <2>1 DEF Halted, HaltFails
  <2>3. phase' \in Stopping \cup Over /\ bus' \in BOOLEAN
    BY <1>12 DEF Halted, HaltFails, Stopping, Over
  <2> QED BY <1>12, <2>2, <2>3 DEF Halted, HaltFails, taskVars, stepVars, trayVars, blueVars
<1>13. CASE Stopped
  BY <1>13 DEF Stopped, Over, taskVars, stepVars, trayVars
<1>14. ASSUME NEW k \in Beat, Degrade(k) PROVE TypeOK'
  <2>1. CASE fallback = NoDevice
    <3>1. starting' = [starting EXCEPT ![k] = address] /\ k \in alive /\ k \in Starter
      BY <1>14, <2>1 DEF Degrade, Beating, Begun
    <3>2. starting' \in [Starter -> Device \cup {NoDevice}]
      BY <3>1
    <3>3. \A l \in Beat : starting'[l] # NoDevice => l \in alive
      BY <3>1
    <3>4. at = "idle" /\ at' = "idle"
      BY <1>14 DEF Degrade, Runs, stepVars
    <3>5. UNCHANGED <<phase, address, bus, found, fallback, scanners, keepalive, alive,
                      resolving, called, tray, taken, linked, monitored, inRange>>
      BY <1>14, <2>1 DEF Degrade, trayVars, blueVars
    <3> QED BY <3>2, <3>3, <3>4, <3>5
  <2>2. CASE fallback # NoDevice
    BY <1>14, <2>2 DEF Degrade, Runs, Beating, Cancelled, stepVars, trayVars, blueVars
  <2> QED BY <2>1, <2>2
<1>15. CASE BusDies
  <2>1. /\ UNCHANGED <<phase, address, bus, found, fallback, scanners, starting, keepalive>>
        /\ UNCHANGED <<alive, resolving, called, at, who, tray, taken>>
    BY <1>15 DEF BusDies, taskVars, stepVars, trayVars
  <2>2. linked' \in BOOLEAN /\ monitored' \in BOOLEAN /\ inRange' \subseteq Device
    BY <1>15 DEF BusDies
  <2> QED BY <2>1, <2>2
<1>16. ASSUME NEW d \in Device, Resolved(d) PROVE TypeOK'
  BY <1>16 DEF Resolved, Runs, stepVars, trayVars, blueVars
<1>17. ASSUME NEW d \in Device, Unresolved(d) PROVE TypeOK'
  BY <1>17 DEF Unresolved, stepVars, trayVars, blueVars
<1>18. CASE Records
  BY <1>18 DEF Records, taskVars, trayVars, blueVars
<1>19. CASE Tracks
  <2>1. NextBeat \in Beat
    BY <1>19, NextBeatIsFree DEF Tracks, Midway, Free
  <2> QED BY <1>19, <2>1 DEF Tracks, trayVars, blueVars
<1> QED
  BY <1>1, <1>2, <1>3, <1>4, <1>5, <1>6, <1>7, <1>8, <1>9, <1>10, <1>11, <1>12, <1>13,
     <1>14, <1>15, <1>16, <1>17, <1>18, <1>19 DEF Task, BlueZ

LEMMA TrayTypeStep ==
  ASSUME TypeOK, Tray
  PROVE  TypeOK'
<1> USE DeviceAssumption, Starters DEF TypeOK
<1>1. ASSUME NEW a \in Device, Retarget(a) PROVE TypeOK'
  BY <1>1 DEF Retarget, taskVars, stepVars, blueVars
<1>2. CASE RetargetForgets
  BY <1>2 DEF RetargetForgets, taskVars, stepVars, blueVars
<1>3. CASE RetargetTakes
  BY <1>3 DEF RetargetTakes, taskVars, stepVars, blueVars
<1>4. CASE RetargetDrops
  BY <1>4 DEF RetargetDrops, stepVars, blueVars
<1>5. CASE RetargetCancels
  BY <1>5 DEF RetargetCancels, Cancellable, Cancelled, stepVars, blueVars
<1> QED BY <1>1, <1>2, <1>3, <1>4, <1>5 DEF Tray

\* Only a resolver creates a keepalive, and only one that is neither alive nor recorded.
LEMMA CreatedStep ==
  ASSUME TypeOK, Next
  PROVE  alive' \subseteq alive \/ (Tracks /\ keepalive \notin alive)
<1>1. ASSUME NEW d \in Device, DeviceFound(d) \/ DeviceLost(d) \/ Resolved(d) \/ Unresolved(d)
      PROVE  alive' \subseteq alive
  BY <1>1 DEF DeviceFound, DeviceLost, Resolved, Unresolved, Untracked
<1>2. CASE Release \/ ReleaseBegins \/ BusDies \/ Stores \/ Records
  BY <1>2 DEF Release, ReleaseBegins, BusDies, Stores, Records, Untracked, taskVars
<1>3. ASSUME NEW by \in Starter, ScanReturns(by) \/ ScanFails(by)
      PROVE  alive' \subseteq alive
  BY <1>3 DEF ScanReturns, ScanFails, taskVars
<1>4. ASSUME NEW k \in Beat, Degrade(k) PROVE alive' \subseteq alive
  BY <1>4 DEF Degrade
<1>5. CASE Register \/ CannotRegister \/ Stop \/ Reaped \/ Halted \/ HaltFails \/ Stopped
  BY <1>5 DEF Register, CannotRegister, Stop, Reaped, Halted, HaltFails, Stopped, Untracked,
              taskVars
<1>6. CASE Tray
  BY <1>6 DEF Tray, Retarget, RetargetForgets, RetargetTakes, RetargetDrops,
              RetargetCancels, taskVars
<1>7. CASE Tracks
  BY <1>7 DEF Tracks
<1> QED BY <1>1, <1>2, <1>3, <1>4, <1>5, <1>6, <1>7 DEF Next, Task, BlueZ

\* A resolver on its way to create a keepalive finds one that it may create.
LEMMA FreeStep ==
  ASSUME TypeOK, Midway => Free # {}, Next
  PROVE  (Midway => Free # {})'
<1> USE DEF Midway, Free
<1>1. CASE Runs
  <2>1. ~Midway
    BY <1>1 DEF Runs
  <2>2. ASSUME NEW d \in Device, Resolved(d) PROVE (Midway => Free # {})'
    BY <2>2 DEF Resolved, Runs, stepVars, trayVars
  <2>3. ASSUME ~\E d \in Device : Resolved(d) PROVE ~Midway'
    <3>1. at' = at \/ at' \in {"store", "idle"}
      BY <1>1, <2>3 DEF Next, Task, BlueZ, Tray, DeviceFound, DeviceLost, Release, BusDies,
         Unresolved, Records, Tracks, ReleaseBegins, Stores, ScanReturns, ScanFails, Degrade,
         Reaped, Halted, HaltFails, Stopped, Register, CannotRegister, Stop, Retarget,
         RetargetForgets, RetargetTakes, RetargetDrops, RetargetCancels, stepVars, Runs
    <3> QED BY <2>1, <3>1
  <2> QED BY <2>2, <2>3
<1>2. CASE ~Runs
  <2>1. Records \/ Tracks \/ Stores \/ BusDies \/ Tray
    BY <1>2 DEF Next, Task, BlueZ, Callable, DeviceFound, DeviceLost, Release,
       Resolved, Unresolved, ReleaseBegins, ScanReturns, ScanFails, Degrade,
       Reaped, Halted, HaltFails, Stopped, Register, CannotRegister, Stop
  <2>2. CASE Records \/ Tracks \/ Stores \/ BusDies
    BY <2>2 DEF Records, Tracks, Stores, BusDies, taskVars, stepVars, trayVars
  <2>3. CASE Tray
    <3>1. at' = at /\ alive' \subseteq alive
      BY <2>3 DEF Tray, Retarget, RetargetForgets, RetargetTakes, RetargetDrops,
                  RetargetCancels, taskVars, stepVars
    <3>2. {keepalive', taken'} \subseteq {keepalive, taken, NoBeat}
      BY <2>3 DEF Tray, Retarget, RetargetForgets, RetargetTakes, RetargetDrops,
                  RetargetCancels, taskVars
    <3> QED BY <3>1, <3>2, Starters
  <2> QED BY <2>1, <2>2, <2>3
<1> QED BY <1>1, <1>2

\* A scan is counted before the source owns it, and disowned before it is halted.
LEMMA OwnedStep ==
  ASSUME TypeOK, scanners >= Owned, Next
  PROVE  scanners' >= Owned'
<1> USE DEF TypeOK, Owned, One
<1>1. ASSUME NEW by \in Starter, ScanReturns(by) PROVE scanners' >= Owned'
  BY <1>1 DEF ScanReturns, Runs
<1>2. ASSUME NEW by \in Starter, ScanFails(by) PROVE scanners' >= Owned'
  BY <1>2 DEF ScanFails, stepVars
<1>3. CASE Stores            BY <1>3 DEF Stores
<1>4. CASE Register \/ CannotRegister
  BY <1>4 DEF Register, CannotRegister, stepVars
<1>5. CASE Stop              BY <1>5 DEF Stop, LetGo, stepVars
<1>6. CASE Reaped            BY <1>6 DEF Reaped, LetGo, stepVars
<1>7. CASE Halted            BY <1>7 DEF Halted, stepVars
<1>8. CASE HaltFails         BY <1>8 DEF HaltFails, stepVars
<1>9. CASE Stopped           BY <1>9 DEF Stopped, stepVars
<1>10. CASE Release \/ ReleaseBegins \/ BusDies
  BY <1>10 DEF Release, ReleaseBegins, BusDies, stepVars
<1>11. ASSUME NEW d \in Device, DeviceFound(d) \/ DeviceLost(d) \/ Unresolved(d)
       PROVE  scanners' >= Owned'
  BY <1>11 DEF DeviceFound, DeviceLost, Unresolved, stepVars
<1>12. ASSUME NEW d \in Device, Resolved(d) PROVE scanners' >= Owned'
  BY <1>12 DEF Resolved, stepVars
<1>13. CASE Records \/ Tracks
  BY <1>13 DEF Records, Tracks
<1>14. ASSUME NEW k \in Beat, Degrade(k) PROVE scanners' >= Owned'
  BY <1>14 DEF Degrade, stepVars
<1>15. CASE Tray
  BY <1>15, DeviceAssumption
     DEF Tray, Retarget, RetargetForgets, RetargetTakes, RetargetDrops, RetargetCancels,
         stepVars
<1> QED BY <1>1, <1>2, <1>3, <1>4, <1>5, <1>6, <1>7, <1>8, <1>9, <1>10, <1>11, <1>12, <1>13,
           <1>14, <1>15 DEF Next, Task, BlueZ

LEMMA TypeStep ==
  ASSUME STypeOK, [SNext]_svars
  PROVE  STypeOK'
<1>1. CASE SNext
  <2>1. TypeOK'
    BY <1>1, LoopTypeStep, TrayTypeStep DEF SNext, Next, STypeOK
  <2>2. scanners' >= Owned' /\ (Midway => Free # {})'
    BY <1>1, OwnedStep, FreeStep DEF SNext, STypeOK
  <2>3. whose' \in [Beat -> Device \cup {NoDevice}]
    <3>1. alive' \subseteq alive \/ who \in Device
      BY <1>1, CreatedStep DEF SNext, STypeOK, TypeOK, Tracks
    <3>2. whose' = [k \in Beat |-> IF k \notin alive' THEN NoDevice
                                  ELSE IF k \in alive THEN whose[k] ELSE who]
      BY <1>1 DEF SNext, Retold
    <3> QED BY <3>1, <3>2 DEF STypeOK
  <2>4. overtaken' \in BOOLEAN
    BY <1>1 DEF SNext, Retold
  <2>5. missed' \in BOOLEAN
    BY <1>1 DEF SNext, Retold, STypeOK
  <2>6. late' \in BOOLEAN
    BY <1>1 DEF SNext, Retold, STypeOK
  <2>7. strayed' \subseteq alive' /\ orphan' \subseteq Device
    BY <1>1 DEF SNext, Retold, STypeOK, TypeOK
  <2> QED BY <2>1, <2>2, <2>3, <2>4, <2>5, <2>6, <2>7 DEF STypeOK
<1>2. CASE UNCHANGED svars
  <2>1. TypeOK'
    BY <1>2 DEF svars, vars, taskVars, stepVars, trayVars, blueVars, STypeOK, TypeOK
  <2>2. Owned' = Owned /\ (Midway => Free # {})'
    BY <1>2 DEF svars, vars, taskVars, stepVars, trayVars, STypeOK, Owned, One, Midway, Free
  <2> QED BY <1>2, <2>1, <2>2 DEF svars, vars, taskVars, shist, STypeOK
<1> QED BY <1>1, <1>2

\* Every reachable state is well typed; a scan is being started for a keepalive only
\* while that task is alive, and no fewer scans run than the source knows of.
THEOREM ScanTypeCorrect == SSpec => []STypeOK
<1>1. SInit => STypeOK
  <2> SUFFICES ASSUME SInit PROVE STypeOK
    OBVIOUS
  <2>1. TypeOK
    BY Starters DEF SInit, Init, TypeOK
  <2>2. Owned = 0
    BY DEF SInit, Init, Owned, One
  <2>3. scanners = 0 /\ orphan = {} /\ missed = FALSE /\ late = FALSE
        /\ overtaken = FALSE /\ strayed = {} /\ ~Midway
    BY DEF SInit, Init, Midway
  <2>4. scanners >= Owned
    BY <2>2, <2>3
  <2>5. whose \in [Beat -> Device \cup {NoDevice}]
    BY DEF SInit
  <2> QED BY <2>1, <2>3, <2>4, <2>5 DEF STypeOK
<1> QED BY <1>1, TypeStep, PTL DEF SSpec

-----------------------------------------------------------------------------
(* What a step does to the keepalives, to the path and to the devices. *)

\* A step of the loop that creates no keepalive: one that leaves the record is over.
Frame ==
  /\ UNCHANGED <<address, tray, taken>> /\ alive' \subseteq alive
  /\ keepalive' = keepalive \/ (keepalive' = NoBeat /\ keepalive \notin alive')
  /\ \/ at' = at /\ who' = who
     \/ at = "idle" /\ at' = "store"
     \/ at = "store" /\ at' = "idle" /\ who \notin alive'
     \/ at = "idle" /\ at' = "record" /\ who' = address /\ who' \in resolving
     \/ at = "record" /\ at' = "track" /\ who' = who
     \/ at = "track" /\ at' = "idle"

LEMMA FrameStep ==
  ASSUME TypeOK, Next
  PROVE  Frame \/ Tray \/ (Tracks /\ keepalive \notin alive)
<1> USE DEF Frame
<1>1. ASSUME NEW d \in Device, DeviceFound(d) \/ Unresolved(d) PROVE Frame
  BY <1>1 DEF DeviceFound, Unresolved, stepVars, trayVars
<1>2. ASSUME NEW d \in Device, DeviceLost(d) PROVE Frame
  BY <1>2 DEF DeviceLost, Untracked, stepVars, trayVars
<1>3. CASE Release \/ ReleaseBegins
  BY <1>3 DEF Release, ReleaseBegins, Untracked, stepVars, trayVars
<1>4. ASSUME NEW by \in Starter, ScanReturns(by) PROVE Frame
  BY <1>4 DEF ScanReturns, Runs, taskVars, trayVars
<1>5. ASSUME NEW by \in Starter, ScanFails(by) PROVE Frame
  BY <1>5 DEF ScanFails, stepVars, trayVars
<1>6. CASE Stores
  <2>1. CASE who \in Beat      BY <1>6, <2>1 DEF Stores, trayVars
  <2>2. CASE who \notin Beat   BY <1>6, <2>2 DEF Stores, trayVars, TypeOK
  <2> QED BY <2>1, <2>2
<1>7. CASE Register \/ CannotRegister
  BY <1>7 DEF Register, CannotRegister, taskVars, stepVars, trayVars
<1>8. CASE Stop
  BY <1>8 DEF Stop, Untracked, stepVars, trayVars
<1>9. CASE Reaped \/ Halted \/ HaltFails
  BY <1>9 DEF Reaped, Halted, HaltFails, taskVars, stepVars, trayVars
<1>10. CASE Stopped \/ BusDies
  BY <1>10 DEF Stopped, BusDies, taskVars, stepVars, trayVars
<1>11. ASSUME NEW k \in Beat, Degrade(k) PROVE Frame
  BY <1>11 DEF Degrade, stepVars, trayVars
<1>12. ASSUME NEW d \in Device, Resolved(d) PROVE Frame
  BY <1>12 DEF Resolved, Runs, stepVars, trayVars
<1>13. CASE Records
  BY <1>13 DEF Records, taskVars, trayVars
<1>14. CASE Tracks /\ keepalive \in alive
  BY <1>14 DEF Tracks, trayVars
<1> QED BY <1>1, <1>2, <1>3, <1>4, <1>5, <1>6, <1>7, <1>8, <1>9, <1>10, <1>11, <1>12, <1>13,
           <1>14 DEF Next, Task, BlueZ

\* The path is recorded by a resolver only.
LEMMA FoundStep ==
  ASSUME Next
  PROVE  found' \in {found, NoDevice} \/ Records
<1>1. ASSUME NEW d \in Device, DeviceFound(d) \/ Resolved(d) \/ Unresolved(d)
      PROVE  found' = found
  BY <1>1 DEF DeviceFound, Resolved, Unresolved
<1>2. ASSUME NEW d \in Device, DeviceLost(d) PROVE found' \in {found, NoDevice}
  BY <1>2 DEF DeviceLost, Untracked
<1>3. ASSUME NEW by \in Starter, ScanReturns(by) \/ ScanFails(by) PROVE found' = found
  BY <1>3 DEF ScanReturns, ScanFails
<1>4. ASSUME NEW k \in Beat, Degrade(k) PROVE found' \in {found, NoDevice}
  BY <1>4 DEF Degrade
<1>5. CASE Release \/ ReleaseBegins \/ BusDies \/ Stores \/ Tracks
  BY <1>5 DEF Release, ReleaseBegins, BusDies, Stores, Tracks, Untracked
<1>6. CASE Register \/ CannotRegister \/ Stop \/ Reaped \/ Halted \/ HaltFails \/ Stopped
  BY <1>6 DEF Register, CannotRegister, Stop, Reaped, Halted, HaltFails, Stopped, Untracked
<1>7. CASE Tray
  BY <1>7 DEF Tray, Retarget, RetargetForgets, RetargetTakes, RetargetDrops, RetargetCancels
<1> QED BY <1>1, <1>2, <1>3, <1>4, <1>5, <1>6, <1>7 DEF Next, Task, BlueZ

\* While the bus is alive, devices leave the range between two handlers only, and the
\* one whose path is recorded takes the keepalive with it.
LEMMA RangeStep ==
  ASSUME TypeOK, Next, BusAlive', phase # "starting"
  PROVE  /\ BusAlive /\ resolving' \subseteq resolving \cup inRange'
         /\ at # "idle" => inRange' = inRange
         /\ \/ inRange \subseteq inRange'
            \/ keepalive \notin alive'
            \/ \E d \in Device : inRange' = inRange \ {d} /\ found \notin {NoDevice, d}
<1> USE DEF BusAlive, TypeOK
<1>1. ASSUME NEW d \in Device, DeviceFound(d)
      PROVE  /\ BusAlive /\ resolving' \subseteq resolving \cup inRange'
             /\ inRange \subseteq inRange'
             /\ at = "idle"
  BY <1>1 DEF DeviceFound, Callable, Runs
<1>2. ASSUME NEW d \in Device, DeviceLost(d)
      PROVE  /\ BusAlive /\ resolving' = resolving /\ at = "idle"
             /\ \/ keepalive \notin alive'
                \/ inRange' = inRange \ {d} /\ found \notin {NoDevice, d}
  BY <1>2 DEF DeviceLost, Callable, Runs, Untracked
<1>3. CASE Release
  BY <1>3 DEF Release, Callable, Runs, Untracked
<1>4. ASSUME NEW d \in Device, Resolved(d) \/ Unresolved(d)
      PROVE  BusAlive /\ resolving' \subseteq resolving /\ inRange' = inRange
  BY <1>4 DEF Resolved, Unresolved, blueVars
<1>5. ASSUME NEW by \in Starter, ScanReturns(by) \/ ScanFails(by)
      PROVE  BusAlive /\ resolving' = resolving /\ inRange' = inRange
  BY <1>5 DEF ScanReturns, ScanFails, taskVars, blueVars
<1>6. ASSUME NEW k \in Beat, Degrade(k)
      PROVE  BusAlive /\ resolving' = resolving /\ inRange' = inRange
  BY <1>6 DEF Degrade, blueVars
<1>7. CASE ReleaseBegins \/ Stores \/ Records \/ Tracks
  BY <1>7 DEF ReleaseBegins, Stores, Records, Tracks, taskVars, blueVars
<1>8. CASE Stop \/ Reaped
  BY <1>8 DEF Stop, Reaped, LetGo, taskVars, blueVars
<1>9. CASE Halted \/ HaltFails
  BY <1>9 DEF Halted, HaltFails, taskVars, blueVars
<1>10. CASE Tray
  BY <1>10 DEF Tray, Retarget, RetargetForgets, RetargetTakes, RetargetDrops,
               RetargetCancels, taskVars, blueVars
<1>11. ~(Stopped \/ BusDies \/ Register \/ CannotRegister)
  BY DEF Stopped, BusDies, Register, CannotRegister
<1> QED
  BY <1>1, <1>2, <1>3, <1>4, <1>5, <1>6, <1>7, <1>8, <1>9, <1>10, <1>11
     DEF Next, Task, BlueZ

\* Until start() is over nothing is asked for.
LEMMA StartingStep ==
  ASSUME Next, phase' = "starting", ~bus
  PROVE  phase = "starting" /\ ~bus' /\ resolving' \subseteq resolving
<1>1. ASSUME NEW d \in Device,
             DeviceFound(d) \/ DeviceLost(d) \/ Resolved(d) \/ Unresolved(d)
      PROVE  phase = "starting" /\ ~bus' /\ resolving' \subseteq resolving
  BY <1>1 DEF DeviceFound, DeviceLost, Resolved, Unresolved
<1>2. ASSUME NEW by \in Starter, ScanReturns(by) \/ ScanFails(by)
      PROVE  phase = "starting" /\ ~bus' /\ resolving' \subseteq resolving
  BY <1>2 DEF ScanReturns, ScanFails, taskVars
<1>3. ASSUME NEW k \in Beat, Degrade(k)
      PROVE  phase = "starting" /\ ~bus' /\ resolving' \subseteq resolving
  BY <1>3 DEF Degrade
<1>4. CASE Release \/ ReleaseBegins \/ BusDies \/ Stores \/ Records \/ Tracks
  BY <1>4 DEF Release, ReleaseBegins, BusDies, Stores, Records, Tracks, taskVars
<1>5. CASE CannotRegister
  BY <1>5 DEF CannotRegister
<1>6. ~(Register \/ Stop \/ Reaped \/ Halted \/ HaltFails \/ Stopped)
  BY DEF Register, Stop, Reaped, Halted, HaltFails, Stopped, LetGo
<1>7. CASE Tray
  BY <1>7 DEF Tray, Retarget, RetargetForgets, RetargetTakes, RetargetDrops,
              RetargetCancels, taskVars
<1> QED BY <1>1, <1>2, <1>3, <1>4, <1>5, <1>6, <1>7 DEF Next, Task, BlueZ

-----------------------------------------------------------------------------
(* Whom presence is synthesized for. *)

\* A keepalive that a step leaves in hand was so before.
LEMMA HeldBefore ==
  ASSUME STypeOK, SNext, Frame \/ Tray, NEW k \in Beat, Held(k)'
  PROVE  /\ k \in alive /\ k \in alive' /\ k \notin strayed /\ k \notin DroppedUncancelled
         /\ whose'[k] = whose[k]
         /\ Held(k) \/ Tray
<1>1. alive' \subseteq alive
  BY DEF Frame, Tray, Retarget, RetargetForgets, RetargetTakes, RetargetDrops,
         RetargetCancels, taskVars
<1>2. k \in alive' /\ k \notin strayed'
  BY DEF Held
<1>3. k \notin strayed /\ k \notin DroppedUncancelled
  BY <1>2 DEF SNext, Retold
<1>4. whose'[k] = whose[k]
  BY <1>1, <1>2 DEF SNext, Retold
<1>5. ASSUME Frame PROVE ~(at = "store" /\ who = k)
  <2>1. ~(at' = "store" /\ who' = k)
    BY DEF Held
  <2> QED BY <1>2, <1>5, <2>1 DEF Frame
<1> QED BY <1>1, <1>2, <1>3, <1>4, <1>5 DEF Held

LEMMA HeldTrayStep ==
  ASSUME STypeOK, HeldInv, SNext, Tray, NEW k \in Beat, Held(k)'
  PROVE  /\ tray' = "idle" => k = keepalive' /\ whose'[k] = address'
         /\ tray' \in {"forget", "take"} => k = keepalive'
         /\ tray' = "drop" => k = keepalive' /\ (k = taken' \/ whose'[k] = address')
         /\ tray' = "cancel" => k = taken' \/ (k = keepalive' /\ whose'[k] = address')
<1>1. /\ k \in alive /\ k \in alive' /\ k \notin strayed /\ k \notin DroppedUncancelled
      /\ whose'[k] = whose[k]
  BY HeldBefore
<1>2. at' = at /\ who' = who
  BY DEF Tray, Retarget, RetargetForgets, RetargetTakes, RetargetDrops, RetargetCancels,
         stepVars
<1>3. Held(k)
  BY <1>1, <1>2 DEF Held
<1> USE DEF HeldInv
<1>4. ASSUME NEW a \in Device, Retarget(a) PROVE k = keepalive' /\ tray' = "forget"
  BY <1>3, <1>4 DEF Retarget, taskVars
<1>5. CASE RetargetForgets
  BY <1>3, <1>5 DEF RetargetForgets, taskVars
<1>6. CASE RetargetTakes
  BY <1>3, <1>6 DEF RetargetTakes, taskVars
\* The record is overwritten: of the taken task, or else of one that strays.
<1>7. CASE RetargetDrops
  <2>1. k = keepalive /\ keepalive' = NoBeat /\ taken' = taken /\ tray' = "cancel"
    BY <1>3, <1>7 DEF RetargetDrops
  <2>2. k = taken
    BY <1>1, <2>1, Starters DEF DroppedUncancelled
  <2> QED BY <2>1, <2>2
\* The taken task is cancelled, or past its last await.
<1>8. CASE RetargetCancels
  <2>1. k # taken
    BY <1>1, <1>3, <1>8 DEF RetargetCancels, Cancellable, Held
  <2> QED BY <1>1, <1>3, <1>8, <2>1 DEF RetargetCancels
<1> QED BY <1>4, <1>5, <1>6, <1>7, <1>8 DEF Tray

LEMMA HeldStep ==
  ASSUME STypeOK, HeldInv, [SNext]_svars
  PROVE  HeldInv'
<1>1. CASE SNext
  <2>1. overtaken' => Midway'
    BY <1>1 DEF SNext, Retold, Midway
  <2>2. CASE Frame
    <3>1. Midway' /\ ~overtaken' => who' = address'
      BY <1>1, <2>2 DEF HeldInv, SNext, Retold, Midway, Frame
    <3>2. ASSUME NEW k \in Beat, Held(k)'
          PROVE  /\ Held(k) /\ whose'[k] = whose[k] /\ k \in alive'
      BY <1>1, <2>2, <3>2, HeldBefore DEF Held, Frame
    <3>3. ASSUME NEW k \in Beat, k \in alive', k = keepalive
          PROVE  k = keepalive'
      BY <2>2, <3>3 DEF Frame
    <3> QED BY <2>1, <2>2, <3>1, <3>2, <3>3 DEF HeldInv, Frame
  <2>3. CASE Tray
    <3>1. Midway' /\ ~overtaken' => who' = address'
      BY <1>1, <2>3
         DEF HeldInv, SNext, Retold, Midway, Tray, Retarget, RetargetForgets, RetargetTakes,
             RetargetDrops, RetargetCancels, stepVars
    <3> QED BY <1>1, <2>1, <2>3, <3>1, HeldTrayStep DEF HeldInv
  <2>4. CASE Tracks /\ keepalive \notin alive
    <3>1. /\ keepalive' = NextBeat /\ alive' = alive \cup {NextBeat} /\ at' = "idle"
          /\ UNCHANGED <<address, tray, taken>> /\ at = "track"
      BY <2>4 DEF Tracks, trayVars
    <3>2. NextBeat \in Beat /\ NextBeat \notin alive /\ NextBeat # taken
      BY <3>1, NextBeatIsFree DEF STypeOK, Midway, Free
    <3>3. ASSUME NEW k \in Beat, Held(k)', k # NextBeat
          PROVE  k = taken /\ tray = "cancel"
      <4>1. k \in alive /\ k \notin strayed
        BY <1>1, <3>1, <3>3 DEF Held, SNext, Retold
      <4> QED BY <2>4, <3>1, <4>1 DEF HeldInv, Held, STypeOK, TypeOK
    <3>4. ASSUME NEW k \in Beat, Held(k)', k = NextBeat
          PROVE  whose'[k] = address
      <4>1. k \notin strayed' /\ k \in alive'
        BY <3>4 DEF Held
      <4>2. ~overtaken
        BY <1>1, <3>1, <3>2, <3>4, <4>1 DEF SNext, Retold, Created
      <4>3. whose'[k] = who
        BY <1>1, <3>1, <3>2, <3>4 DEF SNext, Retold
      <4> QED BY <3>1, <4>2, <4>3 DEF HeldInv, Midway
    <3>5. ~Midway'
      BY <3>1 DEF Midway
    <3>6. ASSUME NEW k \in Beat, Held(k)'
          PROVE  \/ k = keepalive' /\ whose'[k] = address'
                 \/ k = taken' /\ tray' = "cancel"
      BY <3>1, <3>3, <3>4, <3>6
    <3> QED BY <2>1, <3>5, <3>6 DEF HeldInv
  <2> QED BY <1>1, <2>2, <2>3, <2>4, FrameStep DEF SNext, STypeOK
<1>2. CASE UNCHANGED svars
  BY <1>2 DEF svars, vars, taskVars, stepVars, trayVars, shist, HeldInv, Held, Midway
<1> QED BY <1>1, <1>2

LEMMA HeldAlways == SSpec => []HeldInv
<1>1. SInit => HeldInv
  BY DEF SInit, Init, HeldInv, Held, Midway
<1> QED BY <1>1, HeldStep, ScanTypeCorrect, PTL DEF SSpec

\* Between two retargets presence is synthesized for the chosen device only, however
\* the answers of the bus and the statements of retarget() interleave, but for a
\* keepalive that a retarget ran past (advmonitor.py:296-301, 342-347, 371-380).
THEOREM PresenceFollowsTarget == SSpec => []PresenceIsTarget
<1>1. STypeOK /\ HeldInv => PresenceIsTarget
  BY DEF STypeOK, TypeOK, HeldInv, Held, PresenceIsTarget, Beating
<1> QED BY <1>1, HeldAlways, ScanTypeCorrect, PTL

LEMMA LastingBefore ==
  ASSUME STypeOK, HeldInv, OrphanInv, SNext, Frame \/ Tray, NEW k \in Beat, Lasting(k)'
  PROVE  /\ Lasting(k) /\ whose'[k] = whose[k] /\ keepalive \in alive'
         /\ Records => who = whose[k]
<1>1. /\ k \in alive /\ k \in alive' /\ k \notin strayed /\ whose'[k] = whose[k]
      /\ k = keepalive' /\ tray' \in {"idle", "cancel"} /\ k # taken' /\ Held(k)'
  BY HeldBefore DEF Lasting
<1>2. CASE Frame
  <2>1. Held(k) \/ Tray
    BY <1>1, HeldBefore, <1>2
  <2>2. ~Tray
    BY <1>1, <1>2, Starters
       DEF Frame, Tray, Retarget, RetargetForgets, RetargetTakes, RetargetDrops,
           RetargetCancels
  <2>3. Lasting(k)
    BY <1>1, <1>2, <2>1, <2>2, Starters DEF Lasting, Frame
  <2>4. k = keepalive /\ whose[k] = address
    BY <2>3 DEF Lasting, HeldInv
  <2>5. Records => who = whose[k]
    <3> SUFFICES ASSUME Records PROVE who = whose[k]
      OBVIOUS
    <3>1. Midway
      BY DEF Records, Midway
    <3>2. ~overtaken
      BY <2>3, <2>4, Starters DEF OrphanInv, Lasting
    <3> QED BY <2>4, <3>1, <3>2 DEF HeldInv
  <2> QED BY <1>1, <2>3, <2>4, <2>5
<1>3. CASE Tray
  <2>1. RetargetDrops \/ RetargetCancels
    BY <1>1, <1>3 DEF Tray, Retarget, RetargetForgets, RetargetTakes
  <2>2. ~RetargetDrops
    BY <1>1, Starters DEF RetargetDrops
  <2>3. RetargetCancels
    BY <2>1, <2>2
  <2>4. k # taken /\ Held(k)
    BY <1>1, <2>3 DEF RetargetCancels, Cancellable, Held, stepVars
  <2>5. Lasting(k)
    BY <1>1, <2>3, <2>4 DEF Lasting, RetargetCancels
  <2>6. ~Records
    BY <2>3 DEF Records, RetargetCancels, stepVars
  <2> QED BY <1>1, <2>3, <2>5, <2>6 DEF RetargetCancels
<1> QED BY <1>2, <1>3

\* Whoever is asked for stays in range or among the orphans.
LEMMA AskedFor ==
  ASSUME SNext, NEW d \in inRange \cup orphan
  PROVE  d \in inRange' \cup orphan' \/ (d \in inRange /\ d \notin resolving)
BY DEF SNext, Retold

LEMMA OrphanStep ==
  ASSUME STypeOK, HeldInv, OrphanInv, [SNext]_svars
  PROVE  OrphanInv'
<1>1. CASE SNext
  <2>1. TypeOK /\ Next
    BY <1>1 DEF STypeOK, SNext
  <2>2. phase = "starting" => ~bus /\ resolving = {} /\ alive = {} /\ ~Midway
    BY DEF OrphanInv
  <2>3. phase' = "starting" => ~bus' /\ resolving' = {} /\ alive' = {} /\ ~Midway'
    <3> SUFFICES ASSUME phase' = "starting"
                 PROVE  ~bus' /\ resolving' = {} /\ alive' = {} /\ ~Midway'
      OBVIOUS
    <3>1. phase = "starting"
      BY <2>1 DEF Next, Task, BlueZ, Tray, DeviceFound, DeviceLost, Release, BusDies, Resolved,
         Unresolved, Records, Tracks, ReleaseBegins, Stores, ScanReturns, ScanFails, Degrade,
         Reaped, Halted, HaltFails, Stopped, Register, CannotRegister, Stop, Retarget, LetGo,
         RetargetForgets, RetargetTakes, RetargetDrops, RetargetCancels
    <3>2. ~bus' /\ resolving' = {}
      BY <2>1, <2>2, <3>1, StartingStep
    <3>3. Frame \/ Tray
      BY <2>1, <2>2, <3>1, FrameStep DEF Tracks, Midway
    <3>4. CASE Frame
      BY <2>2, <3>1, <3>2, <3>4 DEF Frame, Midway
    <3>5. CASE Tray
      BY <2>2, <3>1, <3>2, <3>5
         DEF Tray, Retarget, RetargetForgets, RetargetTakes, RetargetDrops, RetargetCancels,
             Midway, taskVars, stepVars
    <3> QED BY <3>2, <3>3, <3>4, <3>5
  <2>4. overtaken' /\ tray' \in {"idle", "cancel"} => keepalive' = NoBeat
    <3>1. CASE Frame
      BY <1>1, <3>1 DEF Frame, SNext, Retold, OrphanInv
    <3>2. CASE Tray
      BY <1>1, <3>2
         DEF Tray, Retarget, RetargetForgets, RetargetTakes, RetargetDrops, RetargetCancels,
             SNext, Retold, OrphanInv, taskVars
    <3>3. CASE Tracks
      BY <1>1, <3>3 DEF Tracks, SNext, Retold
    <3> QED BY <2>1, <3>1, <3>2, <3>3, FrameStep
  <2>5. at' = "track" /\ ~overtaken' => found' \in {NoDevice, who'}
    <3>1. CASE Records
      BY <3>1 DEF Records
    <3>2. CASE ~Records /\ at' = "track"
      <4>1. found' \in {found, NoDevice}
        BY <2>1, <3>2, FoundStep
      <4>2. ~Tracks
        BY <3>2 DEF Tracks
      <4>3. at = "track" /\ who' = who
        <5>1. CASE Tray
          BY <3>2, <5>1 DEF Tray, Retarget, RetargetForgets, RetargetTakes, RetargetDrops,
                            RetargetCancels, stepVars
        <5>2. CASE Frame
          <6>1. ~(at = "record" /\ at' = "track")
            BY <2>1, <3>2 DEF Next, Task, BlueZ, Tray, DeviceFound, DeviceLost, Release,
               BusDies, Callable, Runs, Resolved, Unresolved, Tracks, ReleaseBegins, Stores,
               ScanReturns, ScanFails, Degrade, Reaped, Halted, HaltFails, Stopped, Register,
               CannotRegister, Stop, Retarget, RetargetForgets, RetargetTakes, RetargetDrops,
               RetargetCancels, stepVars
          <6> QED BY <3>2, <5>2, <6>1 DEF Frame
        <5> QED BY <2>1, <4>2, <5>1, <5>2, FrameStep
      <4>4. ~overtaken' => ~overtaken
        BY <1>1, <3>2 DEF SNext, Retold
      <4> QED BY <4>1, <4>3, <4>4 DEF OrphanInv
    <3> QED BY <3>1, <3>2
  <2>6. CASE ~BusAlive'
    <3>1. ASSUME NEW k \in Beat, Lasting(k)' PROVE found' \in {NoDevice, whose'[k]}
      <4>1. CASE Frame \/ Tray
        BY <1>1, <2>1, <3>1, <4>1, LastingBefore, FoundStep DEF OrphanInv, Records
      <4>2. CASE Tracks /\ keepalive \notin alive
        <5>1. k = NextBeat /\ k \notin alive /\ k \in alive' /\ at = "track" /\ found' = found
          BY <3>1, <4>2, NextBeatIsFree DEF Lasting, Held, Tracks, STypeOK, Midway, Free
        <5>2. whose'[k] = who /\ ~overtaken
          BY <1>1, <3>1, <5>1 DEF Lasting, Held, SNext, Retold, Created
        <5> QED BY <5>1, <5>2 DEF OrphanInv
      <4> QED BY <2>1, <4>1, <4>2, FrameStep
    <3> QED BY <2>3, <2>4, <2>5, <2>6, <3>1 DEF OrphanInv
  <2>7. CASE BusAlive' /\ phase # "starting"
    <3>1. /\ BusAlive /\ resolving' \subseteq resolving \cup inRange'
          /\ at # "idle" => inRange' = inRange
          /\ \/ inRange \subseteq inRange'
             \/ keepalive \notin alive'
             \/ \E d \in Device : inRange' = inRange \ {d} /\ found \notin {NoDevice, d}
      BY <2>1, <2>7, RangeStep
    <3>2. resolving' \subseteq inRange' \cup orphan'
      BY <1>1, <3>1 DEF OrphanInv, SNext, Retold
    <3>3. inRange' = inRange => inRange \cup orphan \subseteq inRange' \cup orphan'
      BY <1>1 DEF SNext, Retold
    <3>4. Midway' => who' \in inRange' \cup orphan'
      <4>1. CASE Tray
        BY <3>1, <3>3, <4>1
           DEF OrphanInv, Midway, Tray, Retarget, RetargetForgets, RetargetTakes,
               RetargetDrops, RetargetCancels, stepVars
      <4>2. CASE Frame /\ Midway'
        <5>1. CASE Midway
          BY <3>1, <3>3, <4>2, <5>1 DEF OrphanInv, Midway, Frame
        <5>2. CASE ~Midway
          <6>1. who' \in resolving
            BY <4>2, <5>2 DEF Frame, Midway
          <6>2. who' \in inRange \cup orphan
            BY <3>1, <6>1 DEF OrphanInv
          <6> QED BY <1>1, <6>1, <6>2, AskedFor
        <5> QED BY <5>1, <5>2
      <4>3. CASE Tracks
        BY <4>3 DEF Tracks, Midway
      <4> QED BY <2>1, <4>1, <4>2, <4>3, FrameStep
    <3>5. ASSUME NEW k \in Beat, Lasting(k)'
          PROVE  found' \in {NoDevice, whose'[k]} /\ whose'[k] \in inRange' \cup orphan'
      <4>1. CASE Frame \/ Tray
        <5>1. Lasting(k) /\ whose'[k] = whose[k] /\ keepalive \in alive'
              /\ (Records => who = whose[k])
          BY <1>1, <3>5, <4>1, LastingBefore
        <5>2. found \in {NoDevice, whose[k]} /\ whose[k] \in inRange \cup orphan
          BY <3>1, <5>1 DEF OrphanInv
        <5>3. found' \in {NoDevice, whose[k]}
          BY <2>1, <5>1, <5>2, FoundStep DEF Records
        <5>4. whose[k] \in inRange' \cup orphan'
          BY <1>1, <3>1, <5>1, <5>2 DEF SNext, Retold
        <5> QED BY <5>1, <5>3, <5>4
      <4>2. CASE Tracks /\ keepalive \notin alive
        <5>1. k = NextBeat /\ k \notin alive /\ k \in alive' /\ at = "track" /\ found' = found
          BY <3>5, <4>2, NextBeatIsFree DEF Lasting, Held, Tracks, STypeOK, Midway, Free
        <5>2. whose'[k] = who /\ ~overtaken
          BY <1>1, <3>5, <5>1 DEF Lasting, Held, SNext, Retold, Created
        <5>3. who \in inRange \cup orphan
          BY <3>1, <5>1 DEF OrphanInv, Midway
        <5> QED BY <3>1, <3>3, <5>1, <5>2, <5>3 DEF OrphanInv
      <4> QED BY <2>1, <4>1, <4>2, FrameStep
    <3> QED BY <2>3, <2>4, <2>5, <3>2, <3>4, <3>5 DEF OrphanInv
  <2>8. CASE BusAlive' /\ phase = "starting"
    <3>1. ~Tracks
      BY <2>2, <2>8 DEF Tracks, Midway
    <3>2. Register
      <4>1. ~bus /\ bus'
        BY <2>2, <2>8 DEF BusAlive
      <4> QED BY <2>1, <2>8, <4>1
           DEF Next, Task, BlueZ, Tray, DeviceFound, DeviceLost, Release, BusDies, Resolved,
         Unresolved, Records, Tracks, ReleaseBegins, Stores, ScanReturns, ScanFails, Degrade,
         Reaped, Halted, HaltFails, Stopped, CannotRegister, Stop, Retarget,
         RetargetForgets, RetargetTakes, RetargetDrops, RetargetCancels
    <3>3. resolving' = {} /\ alive' = {} /\ ~Midway'
      BY <2>2, <2>8, <3>2 DEF Register, Midway, taskVars, stepVars
    <3> QED BY <2>3, <2>4, <2>5, <3>3 DEF OrphanInv, Lasting, Held, Midway
  <2> QED BY <2>6, <2>7, <2>8
<1>2. CASE UNCHANGED svars
  BY <1>2 DEF svars, vars, taskVars, stepVars, trayVars, blueVars, shist, OrphanInv, Lasting,
              Held, Midway, BusAlive
<1> QED BY <1>1, <1>2

LEMMA OrphanAlways == SSpec => []OrphanInv
<1>1. SInit => OrphanInv
  BY DEF SInit, Init, OrphanInv, Lasting, Held, Midway, BusAlive
<1> QED BY <1>1, OrphanStep, HeldAlways, ScanTypeCorrect, PTL DEF SSpec

\* Over a live bus presence outlives the device only when the device was lost while
\* its address was being asked for, or by a keepalive that a retarget ran past.
THEOREM GhostsAreOrphans == SSpec => []PresenceUnlessOrphan
<1>1. STypeOK /\ HeldInv /\ OrphanInv => PresenceUnlessOrphan
  <2> SUFFICES ASSUME STypeOK, HeldInv, OrphanInv, tray = "idle", BusAlive,
                      NEW k \in alive \ strayed, Beating(k)
               PROVE  whose[k] \in inRange \cup orphan
    BY DEF PresenceUnlessOrphan
  <2>1. k \in Beat /\ Held(k) /\ k # taken
    BY Starters DEF STypeOK, TypeOK, Held, Beating
  <2> QED BY <2>1 DEF HeldInv, OrphanInv, Lasting
<1> QED BY <1>1, OrphanAlways, HeldAlways, ScanTypeCorrect, PTL

-----------------------------------------------------------------------------
(* Whom the fallback scans for. *)

\* What a handler of the loop does to the scans is for the address of the moment.
LEMMA FallbackFrame ==
  ASSUME TypeOK, Next, ~Tray
  PROVE  /\ address' = address /\ tray' = tray
         /\ fallback' \in {fallback, NoDevice} \cup {starting[by] : by \in Starter}
         /\ \A by \in Starter : starting'[by] \in {starting[by], address, NoDevice}
<1> USE Starters DEF TypeOK
<1>1. ASSUME NEW d \in Device, DeviceFound(d) \/ Resolved(d) \/ Unresolved(d)
      PROVE  UNCHANGED <<address, tray, fallback, starting>>
  BY <1>1 DEF DeviceFound, Resolved, Unresolved, trayVars
<1>2. ASSUME NEW d \in Device, DeviceLost(d)
      PROVE  /\ UNCHANGED <<address, tray, fallback>>
             /\ \A by \in Starter : starting'[by] \in {starting[by], NoDevice}
  BY <1>2 DEF DeviceLost, Cancelled, trayVars
<1>3. CASE Release
  BY <1>3 DEF Release, Cancelled, trayVars
<1>4. CASE ReleaseBegins
  BY <1>4 DEF ReleaseBegins, Begun, trayVars
<1>5. ASSUME NEW by \in Starter, ScanReturns(by)
      PROVE  UNCHANGED <<address, tray, fallback, starting>>
  BY <1>5 DEF ScanReturns, trayVars, taskVars
<1>6. ASSUME NEW by \in Starter, ScanFails(by)
      PROVE  /\ UNCHANGED <<address, tray, fallback>>
             /\ \A b \in Starter : starting'[b] \in {starting[b], NoDevice}
  BY <1>6 DEF ScanFails, Cancelled, trayVars
<1>7. CASE Stores
  <2>1. UNCHANGED <<address, tray>> /\ fallback' = starting[who] /\ who \in Starter
    BY <1>7 DEF Stores, trayVars
  <2>2. \A by \in Starter : starting'[by] \in {starting[by], NoDevice}
    BY <1>7 DEF Stores, Cancelled
  <2> QED BY <2>1, <2>2
<1>8. CASE Register
  BY <1>8 DEF Register, trayVars, taskVars
<1>9. CASE CannotRegister
  BY <1>9 DEF CannotRegister, Begun, trayVars
<1>10. CASE Stop
  BY <1>10 DEF Stop, LetGo, trayVars
<1>11. CASE Reaped
  BY <1>11 DEF Reaped, LetGo, trayVars, taskVars
<1>12. CASE Halted \/ HaltFails \/ Stopped \/ BusDies
  BY <1>12 DEF Halted, HaltFails, Stopped, BusDies, trayVars, taskVars
<1>13. ASSUME NEW k \in Beat, Degrade(k)
       PROVE  /\ UNCHANGED <<address, tray, fallback>>
              /\ \A by \in Starter : starting'[by] \in {starting[by], address, NoDevice}
  BY <1>13 DEF Degrade, Begun, Cancelled, trayVars
<1>14. CASE Records \/ Tracks
  BY <1>14 DEF Records, Tracks, trayVars, taskVars
<1> QED
  BY <1>1, <1>2, <1>3, <1>4, <1>5, <1>6, <1>7, <1>8, <1>9, <1>10, <1>11, <1>12, <1>13, <1>14
     DEF Next, Task, BlueZ

LEMMA FallbackStep ==
  ASSUME STypeOK, FallbackInv, [SNext]_svars
  PROVE  FallbackInv'
<1>1. CASE SNext /\ ~Tray
  <2>1. /\ address' = address /\ tray' = tray
        /\ fallback' \in {fallback, NoDevice} \cup {starting[by] : by \in Starter}
        /\ \A by \in Starter : starting'[by] \in {starting[by], address, NoDevice}
    BY <1>1, FallbackFrame DEF SNext, STypeOK
  <2>2. missed' = missed
    BY <1>1, <2>1 DEF SNext, Retold
  <2> QED BY <2>1, <2>2 DEF FallbackInv
<1>2. CASE SNext /\ RetargetCancels
  BY <1>2 DEF RetargetCancels, SNext, Retold, FallbackInv
<1>3. CASE Tray /\ ~RetargetCancels
  BY <1>3 DEF Tray, Retarget, RetargetForgets, RetargetTakes, RetargetDrops, FallbackInv
<1>4. CASE UNCHANGED svars
  BY <1>4 DEF svars, vars, taskVars, trayVars, shist, FallbackInv
<1> QED BY <1>1, <1>2, <1>3, <1>4

\* Between two retargets the fallback scans for the chosen device, unless the last one
\* found it built and not yet recorded (advmonitor.py:300, 317-323).
THEOREM FallbackFollowsTarget == SSpec => []FallbackUnlessMissed
<1>1. SInit => FallbackInv
  BY DEF SInit, Init, FallbackInv
<1>2. FallbackInv => FallbackUnlessMissed
  BY DEF FallbackInv, FallbackUnlessMissed
<1> QED BY <1>1, <1>2, FallbackStep, ScanTypeCorrect, PTL DEF SSpec

-----------------------------------------------------------------------------
(* What stop() leaves behind. *)

\* The part of StopInv that speaks of the source alone.
Clean ==
  /\ IF phase = "aborted" THEN scanners \in 0..1 ELSE scanners = Owned
  /\ phase \in Stopping \cup {"stopped", "aborted"} => Idle /\ at = "idle"
  /\ phase \in {"halting", "unregistering", "stopped", "aborted"} => fallback = NoDevice

Closing == Stopping \cup {"stopped", "aborted"}

\* Once stop() has begun, and outside the races, only stop() itself and a retarget go on.
LEMMA ClosingStep ==
  ASSUME TypeOK, Clean, Next, phase \in Closing,
         ~(phase \in Stopping /\ (inRange' \ inRange # {} \/ (~called /\ called')))
  PROVE  Reaped \/ Halted \/ HaltFails \/ Stopped \/ Tray \/ BusDies
         \/ \E d \in Device : DeviceLost(d)
<1> USE DEF Clean, Closing, Idle
<1>1. ASSUME NEW d \in Device, DeviceFound(d) PROVE FALSE
  BY <1>1 DEF DeviceFound, Callable, Runs, Over
<1>2. ~Release
  BY DEF Release, Callable, Runs, Over
<1>3. ASSUME NEW d \in Device, Resolved(d) \/ Unresolved(d) PROVE FALSE
  BY <1>3 DEF Resolved, Unresolved
<1>4. ASSUME NEW by \in Starter, ScanReturns(by) \/ ScanFails(by) PROVE FALSE
  BY <1>4 DEF ScanReturns, ScanFails
<1>5. ASSUME NEW k \in Beat, Degrade(k) PROVE FALSE
  BY <1>5 DEF Degrade, Beating
<1>6. ~(Records \/ Tracks \/ Stores \/ ReleaseBegins)
  BY DEF Records, Tracks, Stores, ReleaseBegins
<1>7. ~(Register \/ CannotRegister \/ Stop)
  BY DEF Register, CannotRegister, Stop, Stopping
<1> QED BY <1>1, <1>2, <1>3, <1>4, <1>5, <1>6, <1>7 DEF Next, Task, BlueZ

LEMMA IdleStays ==
  ASSUME TypeOK, Idle, at = "idle",
         Reaped \/ Halted \/ HaltFails \/ Stopped \/ Tray \/ BusDies
         \/ \E d \in Device : DeviceLost(d)
  PROVE  Idle' /\ at' = "idle"
<1> USE DEF Idle
<1>1. CASE Reaped \/ Halted \/ HaltFails \/ Stopped \/ BusDies
  BY <1>1 DEF Reaped, Halted, HaltFails, Stopped, BusDies, taskVars, stepVars
<1>2. ASSUME NEW d \in Device, DeviceLost(d) PROVE Idle' /\ at' = "idle"
  BY <1>2 DEF DeviceLost, Untracked, Cancelled, stepVars
<1>3. CASE Tray
  BY <1>3 DEF Tray, Retarget, RetargetForgets, RetargetTakes, RetargetDrops, RetargetCancels,
              Cancelled, taskVars, stepVars
<1> QED BY <1>1, <1>2, <1>3

LEMMA CleanClosing ==
  ASSUME TypeOK, Clean, Next, phase \in Closing,
         ~(phase \in Stopping /\ (inRange' \ inRange # {} \/ (~called /\ called')))
  PROVE  Clean'
<1> USE DEF TypeOK, Owned, One
<1>1. Idle' /\ at' = "idle" /\ at = "idle"
  BY ClosingStep, IdleStays DEF Clean, Closing
<1>2. CASE Reaped
  BY <1>1, <1>2 DEF Reaped, LetGo, Clean, stepVars, Stopping
<1>3. CASE Halted
  BY <1>1, <1>3 DEF Halted, Clean, Stopping
<1>4. CASE HaltFails
  BY <1>1, <1>4 DEF HaltFails, Clean
<1>5. CASE Stopped
  BY <1>1, <1>5 DEF Stopped, Clean, Stopping
<1>6. CASE BusDies \/ \E d \in Device : DeviceLost(d)
  BY <1>1, <1>6 DEF BusDies, DeviceLost, Clean
<1>7. CASE Tray
  <2>1. phase' = phase /\ scanners' = scanners
    BY <1>7 DEF Tray, Retarget, RetargetForgets, RetargetTakes, RetargetDrops, RetargetCancels
  <2>2. fallback' = NoDevice <=> fallback = NoDevice
    BY <1>7, DeviceAssumption
       DEF Tray, Retarget, RetargetForgets, RetargetTakes, RetargetDrops, RetargetCancels
  <2> QED BY <1>1, <2>1, <2>2 DEF Clean
<1> QED BY <1>2, <1>3, <1>4, <1>5, <1>6, <1>7, ClosingStep

\* Before it, the scans alone are to be counted.
LEMMA CleanBefore ==
  ASSUME TypeOK, Clean, Next, phase \notin Closing, ~Stop,
         ~(at = "store" /\ at' = "idle" /\ fallback # NoDevice)
  PROVE  phase' \notin Closing /\ scanners' = Owned'
<1> USE DEF TypeOK, Owned, One, Clean, Closing, Stopping
<1>1. ASSUME NEW by \in Starter, ScanReturns(by)
      PROVE  phase' \notin Closing /\ scanners' = Owned'
  BY <1>1 DEF ScanReturns, Runs
<1>2. ASSUME NEW by \in Starter, ScanFails(by)
      PROVE  phase' \notin Closing /\ scanners' = Owned'
  BY <1>2 DEF ScanFails, stepVars
<1>3. CASE Stores
  <2>1. fallback = NoDevice /\ fallback' # NoDevice
    BY <1>3 DEF Stores
  <2> QED BY <1>3, <2>1 DEF Stores
<1>4. CASE Register \/ CannotRegister
  BY <1>4 DEF Register, CannotRegister, stepVars
<1>5. ~(Reaped \/ Halted \/ HaltFails \/ Stopped)
  BY DEF Reaped, Halted, HaltFails, Stopped
<1>6. CASE Release \/ ReleaseBegins \/ BusDies
  BY <1>6 DEF Release, ReleaseBegins, BusDies, stepVars
<1>7. ASSUME NEW d \in Device, DeviceFound(d) \/ DeviceLost(d) \/ Unresolved(d)
      PROVE  phase' \notin Closing /\ scanners' = Owned'
  BY <1>7 DEF DeviceFound, DeviceLost, Unresolved, stepVars
<1>8. ASSUME NEW d \in Device, Resolved(d)
      PROVE  phase' \notin Closing /\ scanners' = Owned'
  BY <1>8 DEF Resolved, Runs, stepVars
<1>9. CASE Records \/ Tracks
  BY <1>9 DEF Records, Tracks
<1>10. ASSUME NEW k \in Beat, Degrade(k)
       PROVE  phase' \notin Closing /\ scanners' = Owned'
  BY <1>10 DEF Degrade, stepVars
<1>11. CASE Tray
  BY <1>11, DeviceAssumption
     DEF Tray, Retarget, RetargetForgets, RetargetTakes, RetargetDrops, RetargetCancels,
         stepVars
<1> QED BY <1>1, <1>2, <1>3, <1>4, <1>5, <1>6, <1>7, <1>8, <1>9, <1>10, <1>11
        DEF Next, Task, BlueZ

LEMMA CleanStop ==
  ASSUME TypeOK, scanners >= Owned, Clean, Stop, alive' = {}, starting["start"] = NoDevice
  PROVE  Clean'
<1>1. TypeOK'
  BY LoopTypeStep DEF Stop, Runs, Midway
<1>2. Idle'
  <2>1. \A by \in Starter : starting'[by] = NoDevice
    BY <1>1, Starters DEF Stop, TypeOK
  <2> QED BY <2>1 DEF Stop, Idle
<1>3. at = "idle" /\ at' = "idle"
  BY DEF Stop, Runs, stepVars
<1>4. CASE phase' = "reaping"
  BY <1>2, <1>3, <1>4 DEF Stop, LetGo, Clean, Owned, One, Stopping
<1>5. CASE LetGo
  BY <1>2, <1>3, <1>5 DEF Stop, LetGo, Clean, Owned, One, Stopping
<1> QED BY <1>4, <1>5 DEF Stop

\* Only start() waits for the scan of its own.
LEMMA StartedStep ==
  ASSUME TypeOK, phase # "starting" => starting["start"] = NoDevice, Next
  PROVE  phase' # "starting" => starting'["start"] = NoDevice
<1> USE Starters DEF TypeOK
<1>1. CASE phase = "starting"
  <2>1. ASSUME NEW by \in Starter, ScanFails(by)
        PROVE  phase' # "starting" => starting'["start"] = NoDevice
    BY <1>1, <2>1 DEF ScanFails, Cancelled
  <2>2. CASE Stores
    BY <1>1, <2>2 DEF Stores, Cancelled
  <2>3. CASE Register
    BY <2>3 DEF Register, taskVars
  <2>4. ASSUME ~Stores, ~Register, ~\E by \in Starter : ScanFails(by)
        PROVE  phase' = "starting"
    BY <1>1, <2>4 DEF Next, Task, BlueZ, Tray, DeviceFound, DeviceLost, Release, BusDies,
       Resolved, Unresolved, Records, Tracks, ReleaseBegins, ScanReturns, Degrade, Reaped,
       Halted, HaltFails, Stopped, CannotRegister, Stop, Retarget, RetargetForgets,
       RetargetTakes, RetargetDrops, RetargetCancels
  <2> QED BY <2>1, <2>2, <2>3, <2>4
<1>2. CASE phase # "starting"
  <2>1. starting["start"] = NoDevice /\ "start" \in Starter /\ "start" \notin Beat
    BY <1>2
  <2>2. CASE ReleaseBegins \/ \E k \in Beat : Degrade(k)
    BY <2>1, <2>2 DEF ReleaseBegins, Degrade, Begun, Cancelled
  <2>3. CASE Stores
    BY <2>1, <2>3 DEF Stores, Cancelled
  <2>4. CASE RetargetCancels
    BY <2>1, <2>4 DEF RetargetCancels, Cancelled
  <2>5. CASE Release \/ Stop \/ (\E by \in Starter : ScanFails(by))
             \/ \E d \in Device : DeviceLost(d)
    BY <2>1, <2>5 DEF Release, Stop, ScanFails, DeviceLost, Cancelled
  <2>6. ASSUME ~(ReleaseBegins \/ Stores \/ RetargetCancels \/ Release \/ Stop),
               ~\E k \in Beat : Degrade(k), ~\E by \in Starter : ScanFails(by),
               ~\E d \in Device : DeviceLost(d)
        PROVE  starting' = starting
    BY <1>2, <2>6 DEF Next, Task, BlueZ, Tray, DeviceFound, BusDies, Resolved, Unresolved,
       Records, Tracks, ScanReturns, Reaped, Halted, HaltFails, Stopped, Register,
       CannotRegister, Retarget, RetargetForgets, RetargetTakes, RetargetDrops, taskVars
  <2> QED BY <2>1, <2>2, <2>3, <2>4, <2>5, <2>6
<1> QED BY <1>1, <1>2

LEMMA StopStep ==
  ASSUME STypeOK, StopInv, [SNext]_svars
  PROVE  StopInv'
<1>1. TypeOK /\ late \in BOOLEAN /\ (~late => Clean)
  BY DEF STypeOK, StopInv, Clean
<1>2. CASE SNext
  <2>1. phase' # "starting" => starting'["start"] = NoDevice
    BY <1>1, <1>2, StartedStep DEF StopInv, SNext
  <2>2. ASSUME ~late' PROVE Clean'
    <3>1. ~late /\ Next
          /\ ~(phase \in Stopping /\ (inRange' \ inRange # {} \/ (~called /\ called')))
          /\ ~(phase = "running" /\ phase' \in Stopping /\ alive' # {})
          /\ ~(at = "store" /\ at' = "idle" /\ fallback # NoDevice)
      BY <1>2, <2>2 DEF SNext, Retold
    <3>2. CASE phase \in Closing
      BY <1>1, <3>1, <3>2, CleanClosing
    <3>3. CASE Stop
      <4>1. phase = "running" /\ phase' \in Stopping
        BY <3>3 DEF Stop, LetGo, Stopping
      <4> QED BY <1>1, <3>1, <3>3, <4>1, CleanStop DEF StopInv, STypeOK
    <3>4. CASE phase \notin Closing /\ ~Stop
      <4>1. phase' \notin Closing /\ scanners' = Owned'
        BY <1>1, <3>1, <3>4, CleanBefore
      <4> QED BY <4>1 DEF Clean, Closing, Stopping
    <3> QED BY <3>2, <3>3, <3>4
  <2> QED BY <2>1, <2>2 DEF StopInv, Clean
<1>3. CASE UNCHANGED svars
  BY <1>3 DEF svars, vars, taskVars, stepVars, shist, StopInv, Owned, One, Idle
<1> QED BY <1>2, <1>3

\* A completed stop() has left no task, no keepalive and no scan running, unless a
\* callback came during its awaits, a keepalive was out of its reach or one scan had
\* replaced another; and a stop() that raised, no task (advmonitor.py:281-294, 411-419).
THEOREM StopIsClean == SSpec => []StopLeavesNothing
<1>1. SInit => StopInv
  <2> SUFFICES ASSUME SInit PROVE StopInv
    OBVIOUS
  <2>1. Owned = 0
    BY DEF SInit, Init, Owned, One
  <2> QED BY <2>1 DEF SInit, Init, StopInv, Stopping
<1>2. StopInv => StopLeavesNothing
  BY DEF StopInv, StopLeavesNothing, Owned, One
<1> QED BY <1>1, <1>2, StopStep, ScanTypeCorrect, PTL DEF SSpec

-----------------------------------------------------------------------------
(* When the source goes deaf. *)

DeafOnly ==
  phase = "running" /\ phase' = "running" /\ Watching /\ ~Watching'
    => BusDies \/ RetargetCancels \/ \E by \in Starter : ScanFails(by)

LEMMA WatchingStep ==
  ASSUME TypeOK, Next, phase = "running", phase' = "running", Watching
  PROVE  Watching' \/ BusDies \/ RetargetCancels \/ \E by \in Starter : ScanFails(by)
<1> USE DeviceAssumption, Starters DEF TypeOK, Watching, Beating
<1>1. ASSUME NEW d \in Device, DeviceFound(d) PROVE Watching'
  BY <1>1 DEF DeviceFound
\* The monitor that called is still there.
<1>2. ASSUME NEW d \in Device, DeviceLost(d) PROVE Watching'
  BY <1>2 DEF DeviceLost, Callable
\* The monitor goes, and a scan is started in its place unless there is one.
<1>3. CASE Release
  BY <1>3 DEF Release
<1>4. CASE ReleaseBegins
  <2>1. fallback' # NoDevice \/ starting'["release"] # NoDevice
    BY <1>4 DEF ReleaseBegins, Begun
  <2> QED BY <2>1
<1>5. ASSUME NEW d \in Device, Resolved(d) \/ Unresolved(d) PROVE Watching'
  BY <1>5 DEF Resolved, Unresolved, blueVars
<1>6. ASSUME NEW by \in Starter, ScanReturns(by) PROVE Watching'
  BY <1>6 DEF ScanReturns, taskVars, blueVars
<1>7. CASE Stores
  BY <1>7 DEF Stores
\* The keepalive goes, and so does a scan in its place.
<1>8. ASSUME NEW k \in Beat, Degrade(k) PROVE Watching'
  <2>1. fallback' # NoDevice \/ starting'[k] # NoDevice
    BY <1>8 DEF Degrade, Begun
  <2> QED BY <2>1
<1>9. CASE Records \/ Tracks
  BY <1>9 DEF Records, Tracks, taskVars, blueVars
<1>10. CASE Tray /\ ~RetargetCancels
  BY <1>10 DEF Tray, Retarget, RetargetForgets, RetargetTakes, RetargetDrops, taskVars,
               blueVars
<1>11. ~(Register \/ CannotRegister \/ Reaped \/ Halted \/ HaltFails \/ Stopped \/ Stop)
  BY DEF Register, CannotRegister, Reaped, Halted, HaltFails, Stopped, Stop, LetGo
<1> QED BY <1>1, <1>2, <1>3, <1>4, <1>5, <1>6, <1>7, <1>8, <1>9, <1>10, <1>11
        DEF Next, Task, BlueZ

\* A running source whose monitor is released, or whose bus dies under its keepalive,
\* has a scan started in its place: it goes deaf only when a scan cannot be started,
\* a retarget cancels its start, or the bus dies while nothing is tracked
\* (advmonitor.py:355-369, 382-395).
THEOREM DeafOnlyThen == SSpec => DeafOnlyIf
<1>1. STypeOK /\ [SNext]_svars => [DeafOnly]_svars
  BY WatchingStep DEF DeafOnly, SNext, STypeOK
<1> QED BY <1>1, ScanTypeCorrect, PTL DEF SSpec, DeafOnlyIf, DeafOnly

-----------------------------------------------------------------------------
(* The thresholds the controller is given. *)

\* A step of the logarithm takes the exponent off the signal.
LEMMA RssiFalls ==
  ASSUME NEW reference \in Int, NEW exponent \in Nat, NEW log \in Int
  PROVE  \E level \in Int : /\ RssiAt(reference, exponent, log) = level
                            /\ RssiAt(reference, exponent, log - 1) = level + exponent
<1> DEFINE steps == exponent * log
<1>1. steps \in Int /\ exponent * (log - 1) = steps - exponent
  OBVIOUS
<1>2. \A k \in Int : (k * 10) \div 10 = k
  OBVIOUS
<1> HIDE DEF steps
<1>3. RssiAt(reference, exponent, log) = reference - steps
  BY <1>1, <1>2 DEF RssiAt, StepsPerDecade, steps
<1>4. RssiAt(reference, exponent, log - 1) = reference - (steps - exponent)
  BY <1>1, <1>2 DEF RssiAt, StepsPerDecade
<1> QED BY <1>1, <1>3, <1>4

LEMMA RoundedIsMonotonic ==
  ASSUME NEW x \in Int, NEW y \in Int, x <= y
  PROVE  Rounded(x) \in Int /\ Rounded(y) \in Int /\ Rounded(x) <= Rounded(y)
BY DEF Rounded

\* A device that the controller reports as found is one that it would not report as lost
\* (advmonitor.py:164-190): for every model, however implausible, and every radius.
THEOREM FoundIsNotLost ==
  \A reference \in Int, exponent \in Nat, log \in Int :
    FoundIsInside(reference, exponent, log)
<1> SUFFICES ASSUME NEW reference \in Int, NEW exponent \in Nat, NEW log \in Int
             PROVE  FoundIsInside(reference, exponent, log)
  OBVIOUS
<1>1. PICK level \in Int : /\ RssiAt(reference, exponent, log) = level
                           /\ RssiAt(reference, exponent, log - 1) = level + exponent
  BY RssiFalls
<1>2. /\ Rounded(level) \in Int /\ Rounded(level + exponent) \in Int
      /\ Rounded(level) <= Rounded(level + exponent)
  BY RoundedIsMonotonic
<1> QED BY <1>1, <1>2
       DEF FoundIsInside, HighRssi, LowRssi, ClampDbm, HighestDbm, LowestDbm

\* The controller waits for no longer than the grace period before it reports a loss, and
\* for more than half of it by less than a second (advmonitor.py:175-190): for every grace
\* that validate accepts.
THEOREM ControllerIsPatient == \A grace \in Nat : grace >= 30 => PatienceIsWithin(grace)
BY DEF PatienceIsWithin, LowTimer
=============================================================================
