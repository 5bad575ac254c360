----------------------------- MODULE LifeProofs -----------------------------
(***************************************************************************)
(* Proofs about LifeCycle: what a process leaves in the configuration      *)
(* file, which device its monitors track, and what becomes of an armed     *)
(* monitor that dies, for any number of monitors, devices and kinds of     *)
(* file found.                                                             *)
(***************************************************************************)
EXTENDS LifeCycle, TLAPS

\* The types the arguments below rest on.
Typed ==
  /\ memory \in Config /\ disk \in Config
  /\ pc \in [Monitor -> {"unused", "building"} \cup Live \cup Over]
  /\ tracks \in [Monitor -> Device \cup {NoDevice}]
  /\ opened \subseteq Monitor
  /\ saved \in BOOLEAN /\ blamed \in BOOLEAN

\* Only the window waits for its threads.
Waits == {"joining", "leaving", "leavingScan"}

\* A process knows its command as soon as it does anything, and only the window makes
\* another monitor than the first.
Commanded ==
  /\ main = "none" <=> front = "none"
  /\ front = "none" => \A m \in Monitor : pc[m] = "unused"
  /\ front \notin {"none", "gui"} => \A m \in Monitor \ {Its} : pc[m] = "unused"
  /\ main \in Waits => front = "gui"

\* A configuration that only lacks its device.
Sound(config) == config.bounds /\ (config.autoUnlock => config.paired)

\* The tray goes on with what it has accepted, the window with anything sound, and its
\* wizard calibrates a device that was chosen.
InMemory ==
  /\ front = "tray" /\ main # "exited" => Accepted(memory)
  /\ front = "gui" => Sound(memory) \/ blamed
  /\ dialog = "wizard" => front = "gui" /\ memory.device # NoDevice

-----------------------------------------------------------------------------
(* What a step may do to the configuration. *)

\* The steps after which the configuration or the command is another.
Reconfigures ==
  \/ \E config \in Config : SetupSaves(config)
  \/ \E paired \in BOOLEAN : Pairs(paired)
  \/ \E command \in {"cli", "tray"}, withLocker \in BOOLEAN :
       Refuses(command, withLocker) \/ Runs(command, withLocker)
  \/ \E device \in Device : Switch(device) \/ SwitchFails(device)
  \/ WindowOpens
  \/ \E device \in Device : UseDevice(device)
  \/ SaveSettings \/ WizardAccepted

Keeps == UNCHANGED <<memory, disk, front>> /\ (main = "exited" => main' = "exited")

LEMMA CommandKeeps == CommandNext => Reconfigures \/ Keeps
<1> SUFFICES ASSUME CommandNext PROVE Reconfigures \/ Keeps
  OBVIOUS
<1>1. CASE CliBuilt   BY <1>1 DEF CliBuilt, Keeps, settingsVars, commandVars
<1>2. CASE NotBuilt   BY <1>2 DEF NotBuilt, Keeps, settingsVars
<1>3. CASE CliEnds    BY <1>3 DEF CliEnds, Keeps, settingsVars
<1>4. CASE Interrupts BY <1>4 DEF Interrupts, Keeps, settingsVars
<1>5. CASE Answers    BY <1>5 DEF Answers, Keeps, settingsVars
<1> QED BY <1>1, <1>2, <1>3, <1>4, <1>5 DEF CommandNext, Reconfigures

LEMMA TrayKeeps == TrayNext => Reconfigures \/ Keeps
<1> SUFFICES ASSUME TrayNext PROVE Reconfigures \/ Keeps
  OBVIOUS
<1>1. CASE TrayOpens  BY <1>1 DEF TrayOpens, Keeps, settingsVars
<1>2. CASE ShowsError BY <1>2 DEF ShowsError, Keeps, settingsVars, commandVars
<1>3. CASE TrayQuits  BY <1>3 DEF TrayQuits, InMenu, Keeps, settingsVars
<1> QED BY <1>1, <1>2, <1>3 DEF TrayNext, Reconfigures

LEMMA WindowKeeps == WindowNext => Reconfigures \/ Keeps
<1> SUFFICES ASSUME WindowNext PROVE Reconfigures \/ Keeps
  OBVIOUS
<1> USE DEF Keeps, settingsVars, commandVars, elsewhere, shellVars, InLoop, InWindow
<1>1. CASE \E m \in Monitor : StartDryRun(m) \/ Confirms(m)
  BY <1>1 DEF StartDryRun, Confirms, StartMonitor
<1>2. CASE \E m \in Monitor : Reports(m) \/ StaysSilent(m) \/ StoppedArrives(m)
  BY <1>2 DEF Reports, StaysSilent, StoppedArrives
<1>3. CASE Asks \/ Declines \/ StopsCurrent \/ StoppedJoined
  BY <1>3 DEF Asks, Declines, StopsCurrent, StoppedJoined
<1>4. CASE ScanStarts \/ ScanEnds \/ SampleStarts \/ SampleEnds
  BY <1>4 DEF ScanStarts, ScanEnds, SampleStarts, SampleEnds
<1>5. CASE WizardOpens \/ WizardCancelled
  BY <1>5 DEF WizardOpens, WizardCancelled
<1>6. CASE Leaves \/ MonitorJoined \/ Leaving \/ StaysInTray
  BY <1>6 DEF Leaves, MonitorJoined, Leaving, StaysInTray, Exits
<1> QED BY <1>1, <1>2, <1>3, <1>4, <1>5, <1>6 DEF WindowNext, Reconfigures

LEMMA StepKeeps == Step => Reconfigures \/ Keeps
<1>1. \A m \in Monitor : SessionOpens(m) \/ SessionFails(m) => Keeps
  BY DEF SessionOpens, SessionFails, Keeps, settingsVars, commandVars
<1> QED BY <1>1, CommandKeeps, TrayKeeps, WindowKeeps DEF Step

LEMMA DialogStep == Step => dialog' \in {dialog, "none", "confirm"} \/ WizardOpens
<1> SUFFICES ASSUME Step PROVE dialog' \in {dialog, "none", "confirm"} \/ WizardOpens
  OBVIOUS
<1> USE DEF windowVars, helpers
<1>1. CASE UNCHANGED windowVars
  BY <1>1
<1>2. CASE WindowOpens \/ \E device \in Device : UseDevice(device)
  BY <1>2 DEF WindowOpens, UseDevice
<1>3. CASE \E m \in Monitor :
             StartDryRun(m) \/ Confirms(m) \/ Reports(m) \/ StaysSilent(m) \/ StoppedArrives(m)
  BY <1>3 DEF StartDryRun, Confirms, Reports, StaysSilent, StoppedArrives
<1>4. CASE Asks \/ Declines \/ StopsCurrent \/ StoppedJoined
  BY <1>4 DEF Asks, Declines, StopsCurrent, StoppedJoined
<1>5. CASE ScanStarts \/ ScanEnds \/ SampleStarts \/ SampleEnds \/ SaveSettings
  BY <1>5 DEF ScanStarts, ScanEnds, SampleStarts, SampleEnds, SaveSettings
<1>6. CASE WizardCancelled \/ WizardAccepted
  BY <1>6 DEF WizardCancelled, WizardAccepted
<1>7. CASE Leaves \/ MonitorJoined \/ Leaving \/ StaysInTray
  BY <1>7 DEF Leaves, MonitorJoined, Leaving, StaysInTray
<1>8. CASE \E m \in Monitor : SessionOpens(m) \/ SessionFails(m)
  BY <1>8 DEF SessionOpens, SessionFails
<1> QED BY <1>1, <1>2, <1>3, <1>4, <1>5, <1>6, <1>7, <1>8 DEF Step, WindowNext

-----------------------------------------------------------------------------
(* What is saved is accepted. *)

LEMMA SavedStep ==
  ASSUME Typed, Commanded, InMemory, SavedIsAccepted, Next
  PROVE  InMemory' /\ SavedIsAccepted'
<1> USE NoDeviceAssumption
    DEF Typed, Commanded, InMemory, SavedIsAccepted, Remember, LetsIn, Accepted, Sound,
        Config, Keep
<1>0. Remember
  BY DEF Next
<1>d. dialog' = "wizard" => dialog = "wizard" \/ WizardOpens
  BY DialogStep DEF Next
<1>o. WizardOpens => front = "gui" /\ memory.device # NoDevice
  BY DEF WizardOpens, InWindow, InLoop
<1>1. CASE Keeps
  BY <1>0, <1>1, <1>d, <1>o DEF Keeps
<1>s. SUFFICES ASSUME ~Keeps PROVE InMemory' /\ SavedIsAccepted'
  BY <1>1
<1>w. dialog' = "wizard" => dialog = "wizard"
  BY <1>s, <1>d DEF WizardOpens, Keeps, elsewhere, settingsVars, commandVars
<1>2. ASSUME NEW config \in Config, SetupSaves(config)
      PROVE  InMemory' /\ SavedIsAccepted'
  BY <1>0, <1>2, <1>w DEF SetupSaves
<1>3. ASSUME NEW paired \in BOOLEAN, Pairs(paired)
      PROVE  InMemory' /\ SavedIsAccepted'
  BY <1>0, <1>3, <1>w DEF Pairs
<1>4. ASSUME NEW command \in {"cli", "tray"}, NEW withLocker \in BOOLEAN,
             Refuses(command, withLocker) \/ Runs(command, withLocker)
      PROVE  InMemory' /\ SavedIsAccepted'
  BY <1>0, <1>4, <1>w DEF Refuses, Runs, Exits, settingsVars
<1>5. ASSUME NEW device \in Device, Switch(device) \/ SwitchFails(device)
      PROVE  InMemory' /\ SavedIsAccepted'
  BY <1>0, <1>5, <1>w DEF Switch, SwitchFails, KeepFails, InMenu, commandVars
<1>6. CASE WindowOpens
  <2>1. front = "none" /\ front' = "gui" /\ disk' = disk
    BY <1>6 DEF WindowOpens
  <2>2. dialog # "wizard" /\ dialog' # "wizard"
    BY <2>1, <1>w
  <2>3. memory' # Default /\ ~Accepted(memory') => blamed'
    BY <1>0, <2>1
  <2>4. Sound(memory') \/ blamed'
    BY <2>3 DEF Default
  <2>5. saved' = saved /\ (blamed /\ ~Accepted(disk) => blamed')
    BY <1>0, <2>1
  <2> QED BY <2>1, <2>2, <2>4, <2>5
<1>7. ASSUME NEW device \in Device, UseDevice(device)
      PROVE  InMemory' /\ SavedIsAccepted'
  BY <1>0, <1>7, <1>w DEF UseDevice, InWindow, InLoop, commandVars
<1>8. CASE SaveSettings
  BY <1>0, <1>8, <1>w DEF SaveSettings, InWindow, InLoop, commandVars
<1>9. CASE WizardAccepted
  <2> PICK bounds \in BOOLEAN : memory' = [memory EXCEPT !.bounds = bounds]
    BY <1>9 DEF WizardAccepted
  <2>1. front = "gui" /\ front' = "gui" /\ disk' = memory' /\ memory' \in Config
    BY <1>9 DEF WizardAccepted, InLoop, commandVars
  <2>2. blamed' <=> \/ memory.bounds /\ ~bounds
                    \/ blamed /\ ~Accepted(memory')
    BY <1>0, <1>9, <2>1 DEF WizardAccepted
  <2>3. Sound(memory') \/ blamed'
    BY <2>1, <2>2
  <2>4. memory'.device # NoDevice
    BY <1>9 DEF WizardAccepted
  <2>5. Accepted(disk') \/ blamed'
    BY <2>1, <2>3, <2>4
  <2> QED BY <2>1, <2>3, <2>4, <2>5
<1> QED BY <1>s, StepKeeps, <1>2, <1>3, <1>4, <1>5, <1>6, <1>7, <1>8, <1>9
  DEF Next, Reconfigures

-----------------------------------------------------------------------------
(* Types, and who may have made which monitor. *)

\* The command line ends its session.
CliOver ==
  /\ pc[Its] \in Live
  /\ \/ IsOver(Its, "ended", pc[Its] = "running")
     \/ IsOver(Its, "cut", FALSE)

\* What a step does to the monitors.
MonitorStep ==
  \/ UNCHANGED <<pc, tracks, opened>>
  \/ main = "none" /\ front' # "none" /\ Begins(Its)
  \/ front = "gui" /\ \E m \in Monitor : Begins(m)
  \/ /\ \E m \in Monitor : Built(m) /\ (front = "tray" => main = "session" /\ main' = "menu")
     /\ UNCHANGED <<memory, disk>>
  \/ /\ \E m \in Monitor :
          SourceStarts(m) \/ BuildFails(m) \/ MonitorEnds(m)
     /\ UNCHANGED <<memory, disk>>
  \/ \E device \in Device : Switch(device)
  \/ CliOver /\ UNCHANGED <<memory, disk>>

LEMMA ItsIsMonitor == Its \in Monitor
BY MonitorAssumption DEF Its

LEMMA CommandMoves == CommandNext => MonitorStep
<1> SUFFICES ASSUME CommandNext PROVE MonitorStep
  OBVIOUS
<1> USE ItsIsMonitor DEF MonitorStep, monitorVars, settingsVars
<1>1. CASE \E config \in Config : SetupSaves(config)
  BY <1>1 DEF SetupSaves
<1>2. CASE \E paired \in BOOLEAN : Pairs(paired)
  BY <1>2 DEF Pairs
<1>3. CASE \E command \in {"cli", "tray"}, withLocker \in BOOLEAN :
             Refuses(command, withLocker) \/ Runs(command, withLocker)
  BY <1>3 DEF Refuses, Runs
<1>4. CASE CliBuilt \/ NotBuilt \/ Answers
  BY <1>4 DEF CliBuilt, NotBuilt, Answers
<1>5. CASE CliEnds
  BY <1>5 DEF CliEnds, CliOver, IsOver, Live
<1>6. CASE Interrupts
  BY <1>6 DEF Interrupts, CliOver
<1> QED BY <1>1, <1>2, <1>3, <1>4, <1>5, <1>6 DEF CommandNext

LEMMA TrayMoves == TrayNext => MonitorStep
<1> SUFFICES ASSUME TrayNext PROVE MonitorStep
  OBVIOUS
<1> USE ItsIsMonitor DEF MonitorStep, monitorVars, settingsVars
<1>1. CASE TrayOpens \/ ShowsError \/ TrayQuits
  BY <1>1 DEF TrayOpens, ShowsError, TrayQuits
<1>2. CASE \E device \in Device : Switch(device) \/ SwitchFails(device)
  BY <1>2 DEF Switch, SwitchFails
<1> QED BY <1>1, <1>2 DEF TrayNext

LEMMA WindowMoves == WindowNext => MonitorStep
<1> SUFFICES ASSUME WindowNext PROVE MonitorStep
  OBVIOUS
<1> USE DEF MonitorStep, monitorVars, settingsVars, elsewhere
<1>1. CASE WindowOpens \/ SaveSettings \/ \E device \in Device : UseDevice(device)
  BY <1>1 DEF WindowOpens, SaveSettings, UseDevice
<1>2. CASE \E m \in Monitor : StartDryRun(m) \/ Confirms(m)
  BY <1>2 DEF StartDryRun, Confirms, StartMonitor, InLoop
<1>3. CASE \E m \in Monitor : Reports(m) \/ StaysSilent(m) \/ StoppedArrives(m)
  BY <1>3 DEF Reports, StaysSilent, StoppedArrives
<1>4. CASE Asks \/ Declines \/ StopsCurrent \/ StoppedJoined
  BY <1>4 DEF Asks, Declines, StopsCurrent, StoppedJoined
<1>5. CASE ScanStarts \/ ScanEnds \/ SampleStarts \/ SampleEnds
  BY <1>5 DEF ScanStarts, ScanEnds, SampleStarts, SampleEnds
<1>6. CASE WizardOpens \/ WizardCancelled \/ WizardAccepted
  BY <1>6 DEF WizardOpens, WizardCancelled, WizardAccepted
<1>7. CASE Leaves \/ MonitorJoined \/ Leaving \/ StaysInTray
  BY <1>7 DEF Leaves, MonitorJoined, Leaving, StaysInTray
<1> QED BY <1>1, <1>2, <1>3, <1>4, <1>5, <1>6, <1>7 DEF WindowNext

LEMMA StepMoves == Step => MonitorStep
<1>1. \A m \in Monitor : SessionOpens(m) \/ SessionFails(m) => MonitorStep
  BY DEF SessionOpens, SessionFails, MonitorEnds, MonitorStep, settingsVars
<1> QED BY <1>1, CommandMoves, TrayMoves, WindowMoves DEF Step

LEMMA TypedStep ==
  ASSUME Typed, Next
  PROVE  Typed'
<1>1. memory' \in Config /\ disk' \in Config
  <2> USE DEF Typed, Config, Keep, KeepFails, settingsVars
  <2>1. CASE Keeps
    BY <2>1 DEF Keeps
  <2>2. CASE \E config \in Config : SetupSaves(config)
    BY <2>2 DEF SetupSaves
  <2>3. CASE \E paired \in BOOLEAN : Pairs(paired)
    BY <2>3 DEF Pairs
  <2>4. CASE \E command \in {"cli", "tray"}, withLocker \in BOOLEAN :
               Refuses(command, withLocker) \/ Runs(command, withLocker)
    BY <2>4 DEF Refuses, Runs
  <2>5. CASE \E device \in Device : Switch(device) \/ SwitchFails(device)
    BY <2>5 DEF Switch, SwitchFails
  <2>6. CASE WindowOpens
    BY <2>6 DEF WindowOpens, Default
  <2>7. CASE \E device \in Device : UseDevice(device)
    BY <2>7 DEF UseDevice
  <2>8. CASE SaveSettings
    BY <2>8 DEF SaveSettings
  <2>9. CASE WizardAccepted
    BY <2>9 DEF WizardAccepted
  <2> QED BY StepKeeps, <2>1, <2>2, <2>3, <2>4, <2>5, <2>6, <2>7, <2>8, <2>9
    DEF Next, Reconfigures
<1>2. /\ pc' \in [Monitor -> {"unused", "building"} \cup Live \cup Over]
      /\ tracks' \in [Monitor -> Device \cup {NoDevice}]
      /\ opened' \subseteq Monitor
  BY StepMoves, ItsIsMonitor DEF Next, Typed, Config, MonitorStep, Goes, IsOver, Live, Over,
    Begins, Built, SourceStarts, BuildFails, MonitorEnds, SourceFails, Stops, Dies, StopRaises,
    CliOver, Switch, Retargets
<1>3. saved' \in BOOLEAN /\ blamed' \in BOOLEAN
  BY DEF Next, Remember, Typed
<1> QED BY <1>1, <1>2, <1>3 DEF Typed

\* What a step does to the command and its main thread.
ShellStep ==
  \/ UNCHANGED <<front, main>>
  \/ /\ UNCHANGED front /\ main # "none" /\ main' \in Waits \cup {"loop", "exited"}
     /\ main' \in Waits => front = "gui" \/ main \in Waits
  \/ TrayOpens
  \/ main = "none" /\ front' # "none" /\ main' \in {"loop", "exited"}
  \/ \E command \in {"cli", "tray"}, withLocker \in BOOLEAN : Runs(command, withLocker)

LEMMA StepShell == Step => ShellStep
<1> SUFFICES ASSUME Step PROVE ShellStep
  OBVIOUS
<1> USE DEF ShellStep, Waits, commandVars, elsewhere, shellVars, Exits
<1>1. CASE CommandNext
  <2> USE <1>1
  <2>1. CASE \E config \in Config : SetupSaves(config)
    BY <2>1 DEF SetupSaves
  <2>2. CASE \E paired \in BOOLEAN : Pairs(paired)
    BY <2>2 DEF Pairs
  <2>3. CASE \E command \in {"cli", "tray"}, withLocker \in BOOLEAN :
               Refuses(command, withLocker)
    BY <2>3 DEF Refuses
  <2>4. CASE CliBuilt \/ NotBuilt \/ CliEnds
    BY <2>4 DEF CliBuilt, NotBuilt, CliEnds
  <2>5. CASE Interrupts \/ Answers
    BY <2>5 DEF Interrupts, Answers
  <2> QED BY <2>1, <2>2, <2>3, <2>4, <2>5 DEF CommandNext
<1>2. CASE TrayNext
  BY <1>2 DEF TrayNext, ShowsError, TrayQuits, InMenu, Switch, SwitchFails
<1>3. CASE WindowNext
  <2> USE DEF InLoop, InWindow
  <2>1. CASE WindowOpens \/ SaveSettings \/ \E device \in Device : UseDevice(device)
    BY <2>1 DEF WindowOpens, SaveSettings, UseDevice
  <2>2. CASE \E m \in Monitor : StartDryRun(m) \/ Confirms(m)
    BY <2>2 DEF StartDryRun, Confirms, StartMonitor
  <2>3. CASE \E m \in Monitor : Reports(m) \/ StaysSilent(m) \/ StoppedArrives(m)
    BY <2>3 DEF Reports, StaysSilent, StoppedArrives
  <2>4. CASE Asks \/ Declines \/ StopsCurrent \/ StoppedJoined
    BY <2>4 DEF Asks, Declines, StopsCurrent, StoppedJoined
  <2>5. CASE ScanStarts \/ ScanEnds \/ SampleStarts \/ SampleEnds
    BY <2>5 DEF ScanStarts, ScanEnds, SampleStarts, SampleEnds
  <2>6. CASE WizardOpens \/ WizardCancelled \/ WizardAccepted
    BY <2>6 DEF WizardOpens, WizardCancelled, WizardAccepted
  <2>7. CASE Leaves \/ MonitorJoined \/ Leaving \/ StaysInTray
    BY <2>7 DEF Leaves, MonitorJoined, Leaving, StaysInTray
  <2> QED BY <1>3, <2>1, <2>2, <2>3, <2>4, <2>5, <2>6, <2>7 DEF WindowNext
<1>4. CASE \E m \in Monitor : SessionOpens(m) \/ SessionFails(m)
  BY <1>4 DEF SessionOpens, SessionFails
<1> QED BY <1>1, <1>2, <1>3, <1>4 DEF Step

LEMMA CommandedStep ==
  ASSUME Typed, Commanded, Next
  PROVE  Commanded'
<1>1. /\ main' = "none" <=> front' = "none"
      /\ front' = front \/ main = "none"
      /\ front' = "none" => front = "none"
  BY StepShell DEF Next, ShellStep, Commanded, Waits, TrayOpens, Runs
<1>2. ASSUME NEW m \in Monitor, pc[m] = "unused", front # "gui"
      PROVE  pc'[m] = "unused" \/ (m = Its /\ main = "none" /\ front' # "none")
  <2> USE StepMoves, ItsIsMonitor, <1>2
      DEF Next, MonitorStep, Typed, Live, Goes, IsOver, CliOver
  <2>1. CASE UNCHANGED <<pc, tracks, opened>> \/ \E device \in Device : Switch(device)
    BY <2>1 DEF Switch, Retargets
  <2>2. CASE main = "none" /\ front' # "none" /\ Begins(Its)
    BY <2>2 DEF Begins
  <2>3. CASE \E n \in Monitor : Built(n)
    BY <2>3 DEF Built
  <2>4. CASE \E n \in Monitor : SourceStarts(n) \/ BuildFails(n) \/ MonitorEnds(n)
    BY <2>4 DEF SourceStarts, BuildFails, MonitorEnds, SourceFails, Stops, Dies, StopRaises
  <2> QED BY <2>1, <2>2, <2>3, <2>4
<1>3. front' = "none" => \A m \in Monitor : pc'[m] = "unused"
  <2> SUFFICES ASSUME front' = "none", NEW m \in Monitor PROVE pc'[m] = "unused"
    OBVIOUS
  <2> QED BY <1>1, <1>2 DEF Commanded
<1>4. front' \notin {"none", "gui"} => \A m \in Monitor \ {Its} : pc'[m] = "unused"
  BY <1>1, <1>2 DEF Commanded
<1>5. main' \in Waits => front' = "gui"
  BY StepShell DEF Next, ShellStep, Commanded, Waits, TrayOpens, Runs
<1> QED BY <1>1, <1>3, <1>4, <1>5 DEF Commanded

-----------------------------------------------------------------------------
(* The monitors track what was chosen. *)

\* What the monitor of the tray tracks is in the file, whatever became of the settings.
TrayKnows ==
  front = "tray" =>
    /\ main = "session" => memory = disk /\ pc[Its] \notin Live
    /\ main = "menu" /\ pc[Its] \in Live => tracks[Its] = disk.device

LEMMA InTrayMenu ==
  ASSUME front = "tray", main \in {"session", "menu"}, Reconfigures, ~Keeps
  PROVE  main = "menu" /\ \E device \in Device : Switch(device) \/ SwitchFails(device)
BY DEF Reconfigures, SetupSaves, Pairs, Refuses, Runs, WindowOpens, UseDevice, SaveSettings,
  WizardAccepted, InLoop, InWindow, Switch, SwitchFails, InMenu

LEMMA TrayKnowsStep ==
  ASSUME Typed, Commanded, TrayKnows, Next
  PROVE  TrayKnows'
<1> SUFFICES ASSUME front' = "tray", main' \in {"session", "menu"}
             PROVE  /\ main' = "session" => memory' = disk' /\ pc'[Its] \notin Live
                    /\ main' = "menu" /\ pc'[Its] \in Live => tracks'[Its] = disk'.device
  BY DEF TrayKnows
<1> USE ItsIsMonitor DEF Typed
<1>1. CASE TrayOpens
  BY <1>1 DEF TrayOpens, TrayKnows, Built, settingsVars
<1>2. CASE \E command \in {"cli", "tray"}, withLocker \in BOOLEAN : Runs(command, withLocker)
  BY <1>2 DEF Runs, Begins, Goes, Live
<1>3. CASE UNCHANGED <<front, main>>
  <2>1. CASE \E device \in Device : Switch(device)
    <3>1. PICK device \in Device : Switch(device)
      BY <2>1
    <3>2. main' = "menu" /\ disk' = [memory EXCEPT !.device = device]
      BY <1>3, <3>1 DEF Switch, InMenu, Keep
    <3>3. disk'.device = device
      BY <3>2 DEF Config
    <3>4. tracks'[Its] = device
      BY <3>1 DEF Switch, Retargets
    <3> QED BY <3>2, <3>3, <3>4
  <2>2. CASE \E device \in Device : SwitchFails(device)
    BY <1>3, <2>2 DEF SwitchFails, InMenu, KeepFails, monitorVars, TrayKnows
  <2>3. ASSUME UNCHANGED <<memory, disk>>, ~\E device \in Device : Switch(device)
        PROVE  /\ main' = "session" => memory' = disk' /\ pc'[Its] \notin Live
               /\ main' = "menu" /\ pc'[Its] \in Live => tracks'[Its] = disk'.device
    <3>1. CASE UNCHANGED <<pc, tracks, opened>>
      BY <1>3, <2>3, <3>1 DEF TrayKnows
    <3>2. CASE \E n \in Monitor : SourceStarts(n) \/ BuildFails(n) \/ MonitorEnds(n)
      BY <1>3, <2>3, <3>2 DEF TrayKnows, SourceStarts, BuildFails, MonitorEnds, SourceFails,
        Stops, Dies, StopRaises, Goes, IsOver, Live, Over
    <3>3. CASE CliOver
      BY <1>3, <2>3, <3>3 DEF TrayKnows, CliOver, Goes, IsOver, Live
    <3> QED BY <1>3, <2>3, <3>1, <3>2, <3>3, StepMoves DEF Next, MonitorStep, Commanded
  <2> QED BY <1>3, <2>1, <2>2, <2>3, StepKeeps, InTrayMenu DEF Next, Keeps
<1> QED BY <1>1, <1>2, <1>3, StepShell DEF Next, ShellStep, Waits

LEMMA ReconfiguresAlive == Reconfigures => main # "exited"
BY DEF Reconfigures, SetupSaves, Pairs, Refuses, Runs, WindowOpens, UseDevice, SaveSettings,
  WizardAccepted, InLoop, InWindow, Switch, SwitchFails, InMenu

LEMMA ChosenStep ==
  ASSUME Typed, Commanded, TrayKnows, MonitorsChosen, Next
  PROVE  MonitorsChosen'
<1> SUFFICES ASSUME NEW m \in Monitor, pc'[m] \in Live, main' # "exited",
                    m \notin drifted'
             PROVE  tracks'[m] = memory'.device
  BY DEF MonitorsChosen
<1> USE ItsIsMonitor DEF Typed
<1>1. m \notin Drifts
  BY DEF Next, Remember
<1>2. CASE UNCHANGED <<memory, disk>> /\ ~\E device \in Device : Switch(device)
  <2>1. Drifts = drifted
    BY <1>2 DEF Drifts
  <2>2. pc[m] \in Live => tracks[m] = memory.device
    <3>1. pc[m] \in Live => m \notin drifted
      BY <1>1, <2>1
    <3> QED BY <3>1, StepKeeps, ReconfiguresAlive DEF MonitorsChosen, Next, Keeps
  <2>3. CASE UNCHANGED <<pc, tracks, opened>>
    BY <1>2, <2>2, <2>3
  <2>4. CASE \E n \in Monitor : Begins(n) \/ Built(n)
    BY <1>2, <2>2, <2>4 DEF Begins, Built, Goes, Live
  <2>5. CASE \E n \in Monitor : SourceStarts(n) \/ BuildFails(n) \/ MonitorEnds(n)
    BY <1>2, <2>2, <2>5 DEF SourceStarts, BuildFails, MonitorEnds, SourceFails, Stops, Dies,
      StopRaises, Goes, IsOver, Live, Over
  <2>6. CASE CliOver
    BY <1>2, <2>2, <2>6 DEF CliOver, Goes, IsOver, Live
  <2> QED BY <1>2, <2>3, <2>4, <2>5, <2>6, StepMoves DEF Next, MonitorStep
<1>3. CASE \E device \in Device : Switch(device)
  <2>1. front = "tray" /\ \A n \in Monitor \ {Its} : pc'[n] = "unused"
    BY <1>3 DEF Switch, InMenu, Commanded, Retargets
  <2>2. m = Its
    BY <2>1 DEF Live
  <2> QED BY <1>3, <2>2 DEF Switch, Retargets, Config
<1>4. CASE \E device \in Device : SwitchFails(device)
  <2>1. front = "tray" /\ main = "menu" /\ UNCHANGED <<pc, tracks, disk>>
    BY <1>4 DEF SwitchFails, InMenu, KeepFails, monitorVars
  <2>2. m = Its /\ tracks[m] = disk.device
    BY <2>1 DEF Commanded, TrayKnows, Live
  <2>3. CASE memory'.device = memory.device
    BY <1>1, <2>1, <2>3 DEF MonitorsChosen, Drifts
  <2>4. CASE memory'.device # memory.device
    BY <1>1, <2>1, <2>2, <2>4 DEF Drifts
  <2> QED BY <2>3, <2>4
<1>5. CASE \E command \in {"cli", "tray"}, withLocker \in BOOLEAN : Runs(command, withLocker)
  BY <1>5 DEF Runs, Commanded, Begins, Goes, Live
<1>6. CASE WindowOpens
  BY <1>6 DEF WindowOpens, Commanded, monitorVars, Live
<1>7. CASE SaveSettings \/ WizardAccepted \/ \E device \in Device : UseDevice(device)
  <2>1. front = "gui" /\ main # "exited" /\ UNCHANGED <<pc, tracks>>
    BY <1>7 DEF SaveSettings, WizardAccepted, UseDevice, InWindow, InLoop, monitorVars
  <2>2. memory'.device = memory.device
    BY <1>1, <2>1 DEF Drifts
  <2> QED BY <1>1, <2>1, <2>2 DEF MonitorsChosen, Drifts
<1>8. CASE \/ \E config \in Config : SetupSaves(config)
           \/ \E paired \in BOOLEAN : Pairs(paired)
           \/ \E command \in {"cli", "tray"}, withLocker \in BOOLEAN :
                Refuses(command, withLocker)
  BY <1>8 DEF SetupSaves, Pairs, Refuses, Exits
<1> QED BY <1>2, <1>3, <1>4, <1>5, <1>6, <1>7, <1>8, StepKeeps DEF Next, Keeps, Reconfigures

-----------------------------------------------------------------------------
(* An armed monitor that dies is answered. *)

LEMMA DeathStep ==
  ASSUME Typed, Commanded, ArmedDeathLocks, Next
  PROVE  ArmedDeathLocks'
<1> SUFFICES ASSUME main' = "exited", locker', pc'[Its] \in Dead, front' = "cli"
             PROVE  precaution' # "none"
  BY DEF ArmedDeathLocks
<1> USE ItsIsMonitor DEF Typed, Exits, Dead
<1>1. CASE CommandNext
  <2>1. CASE \/ \E config \in Config : SetupSaves(config)
             \/ \E paired \in BOOLEAN : Pairs(paired)
    BY <2>1 DEF SetupSaves, Pairs
  <2>2. CASE \E command \in {"cli", "tray"}, withLocker \in BOOLEAN :
               Refuses(command, withLocker) \/ Runs(command, withLocker)
    BY <2>2 DEF Refuses, Runs, Commanded, monitorVars
  <2>3. CASE CliBuilt
    BY <2>3 DEF CliBuilt, commandVars
  <2>4. CASE NotBuilt \/ CliEnds \/ Interrupts
    BY <2>4 DEF NotBuilt, CliEnds, Interrupts, BuildFails, IsOver, Goes
  <2>5. CASE Answers
    BY <2>5 DEF Answers
  <2> QED BY <1>1, <2>1, <2>2, <2>3, <2>4, <2>5 DEF CommandNext
<1>2. CASE TrayNext
  BY <1>2 DEF TrayNext, TrayOpens, ShowsError, TrayQuits, Switch, SwitchFails, InMenu,
    commandVars
<1>3. CASE WindowNext
  <2> USE DEF InLoop, InWindow, elsewhere, shellVars, commandVars, monitorVars
  <2>1. CASE WindowOpens \/ SaveSettings \/ \E device \in Device : UseDevice(device)
    BY <2>1 DEF WindowOpens, SaveSettings, UseDevice
  <2>2. CASE \E m \in Monitor : StartDryRun(m) \/ Confirms(m)
    BY <2>2 DEF StartDryRun, Confirms, StartMonitor
  <2>3. CASE \E m \in Monitor : Reports(m) \/ StaysSilent(m) \/ StoppedArrives(m)
    BY <2>3 DEF Reports, StaysSilent, StoppedArrives
  <2>4. CASE Asks \/ Declines \/ StopsCurrent \/ StoppedJoined
    BY <2>4 DEF Asks, Declines, StopsCurrent, StoppedJoined
  <2>5. CASE ScanStarts \/ ScanEnds \/ SampleStarts \/ SampleEnds
    <3>1. UNCHANGED <<main, locker, pc, front, precaution>>
      BY <2>5 DEF ScanStarts, ScanEnds, SampleStarts, SampleEnds
    <3>2. main = "exited" /\ locker /\ pc[Its] \in Dead /\ front = "cli"
      BY <3>1
    <3>3. precaution # "none"
      BY <3>2 DEF ArmedDeathLocks
    <3> QED BY <3>1, <3>3
  <2>6. CASE WizardOpens \/ WizardCancelled \/ WizardAccepted
    BY <2>6 DEF WizardOpens, WizardCancelled, WizardAccepted
  <2>7. CASE Leaves \/ MonitorJoined \/ Leaving \/ StaysInTray
    BY <2>7 DEF Leaves, MonitorJoined, Leaving, StaysInTray, Commanded, Waits
  <2> QED BY <1>3, <2>1, <2>2, <2>3, <2>4, <2>5, <2>6, <2>7 DEF WindowNext
<1>4. CASE \E m \in Monitor : SessionOpens(m) \/ SessionFails(m)
  BY <1>4 DEF SessionOpens, SessionFails, commandVars
<1> QED BY <1>1, <1>2, <1>3, <1>4 DEF Next, Step

-----------------------------------------------------------------------------
(* Nothing is left behind. *)

\* What a monitor opened is open from its construction to its end, and after its end
\* only if its loop had not begun, or its source.stop() did not return.
Closed ==
  \A m \in opened :
    /\ pc[m] \notin {"unused", "building"}
    /\ pc[m] \in Over => m \in unstarted \/ pc[m] \in {"aborted", "cut"}

\* The window knows the monitor that is not over, unless it lost sight of it by starting
\* another; and it has let go of it when it waits for nothing but its helpers.
Held ==
  front = "gui" =>
    /\ ~doubled => \A m \in Monitor : pc[m] \in {"building"} \cup Live => m = current
    /\ main \in {"leavingScan", "exited"} => current = NoMonitorYet

\* The threads of the scan and the wizard are the window's, and end before it does.
Helped == scanning \/ sampling => front = "gui" /\ main # "exited"

\* The command line exits with its monitor, and any other command without one.
Gone ==
  main = "exited" /\ front \notin {"gui", "tray"} => pc[Its] \in Over \cup {"unused"}

LEMMA ClosedStep ==
  ASSUME Typed, Closed, Next
  PROVE  Closed'
<1> USE ItsIsMonitor DEF Typed, Closed, Live, Over
<1>0. unstarted' =
        unstarted \cup {m \in Monitor : pc[m] \in {"building", "starting"} /\ pc'[m] \in Over}
  BY DEF Next, Remember
<1>1. CASE UNCHANGED <<pc, tracks, opened>>
  BY <1>0, <1>1
<1>2. CASE \E m \in Monitor : Begins(m) \/ Built(m)
  BY <1>0, <1>2 DEF Begins, Built, Goes
<1>3. CASE \E m \in Monitor : SourceStarts(m)
  BY <1>0, <1>3 DEF SourceStarts, Goes
<1>4. CASE \E m \in Monitor : BuildFails(m)
  BY <1>0, <1>4 DEF BuildFails, Goes
<1>5. CASE \E m \in Monitor : SourceFails(m)
  BY <1>0, <1>5 DEF SourceFails, IsOver, Goes
<1>6. CASE \E m \in Monitor : Stops(m) \/ Dies(m) \/ StopRaises(m)
  BY <1>0, <1>6 DEF Stops, Dies, StopRaises, IsOver, Goes
<1>7. CASE \E device \in Device : Switch(device)
  BY <1>0, <1>7 DEF Switch, Retargets
<1>8. CASE CliOver
  BY <1>0, <1>8 DEF CliOver, IsOver, Goes
<1> QED BY <1>1, <1>2, <1>3, <1>4, <1>5, <1>6, <1>7, <1>8, StepMoves
        DEF Next, MonitorStep, MonitorEnds

\* A step of a process that has exited changes none of what it leaves.
LEMMA ExitedStays ==
  ASSUME main = "exited", Commanded, Step
  PROVE  /\ UNCHANGED <<front, main, pc, current>>
         /\ (scanning' => scanning) /\ (sampling' => sampling)
<1> USE DEF windowVars, monitorTab, helpers, elsewhere, shellVars, commandVars, monitorVars,
            InLoop, InWindow, InMenu
<1>1. ~CommandNext
  BY DEF CommandNext, SetupSaves, Pairs, Refuses, Runs, CliBuilt, NotBuilt, CliEnds,
    Interrupts, Answers
<1>2. ~TrayNext
  BY DEF TrayNext, TrayOpens, ShowsError, TrayQuits, Switch, SwitchFails
<1>3. \A m \in Monitor :
        ~(SessionOpens(m) \/ SessionFails(m) \/ StartDryRun(m) \/ Confirms(m) \/ Reports(m)
            \/ StaysSilent(m) \/ StoppedArrives(m))
  BY DEF SessionOpens, SessionFails, StartDryRun, Confirms, Reports, StaysSilent,
    StoppedArrives
<1>4. ~(WindowOpens \/ Asks \/ Declines \/ StopsCurrent \/ StoppedJoined \/ SaveSettings)
  BY DEF WindowOpens, Asks, Declines, StopsCurrent, StoppedJoined, SaveSettings
<1>5. ~(WizardOpens \/ WizardCancelled \/ WizardAccepted \/ Leaves \/ MonitorJoined \/ Leaving
          \/ StaysInTray)
  BY DEF WizardOpens, WizardCancelled, WizardAccepted, Leaves, MonitorJoined, Leaving,
    StaysInTray
<1>6. ~(ScanStarts \/ SampleStarts \/ \E device \in Device : UseDevice(device))
  BY DEF ScanStarts, SampleStarts, UseDevice
<1>7. ScanEnds \/ SampleEnds
  BY <1>1, <1>2, <1>3, <1>4, <1>5, <1>6 DEF Step, WindowNext
<1> QED BY <1>7 DEF ScanEnds, SampleEnds

LEMMA WindowOnly ==
  ASSUME Commanded, Step, front' = "gui"
  PROVE  WindowNext \/ \E m \in Monitor : SessionOpens(m)
<1>1. ~CommandNext
  BY DEF Commanded, CommandNext, SetupSaves, Pairs, Refuses, Runs, CliBuilt, NotBuilt, CliEnds,
    Interrupts, Answers, commandVars
<1>2. ~TrayNext
  BY DEF TrayNext, TrayOpens, ShowsError, TrayQuits, Switch, SwitchFails, InMenu, commandVars
<1>3. \A m \in Monitor : ~SessionFails(m)
  BY DEF SessionFails, commandVars
<1> QED BY <1>1, <1>2, <1>3 DEF Step

LEMMA HeldStep ==
  ASSUME Typed, Commanded, Held, Next
  PROVE  Held'
<1> SUFFICES ASSUME front' = "gui" PROVE Held'
  BY DEF Held
<1> USE NoMonitorYetAssumption
    DEF Typed, Held, Live, Over, Goes, windowVars, monitorTab, helpers, elsewhere, shellVars,
        commandVars, monitorVars, InLoop, InWindow
<1>0. doubled' = (doubled \/ (current' # current /\ NoMonitorYet \notin {current, current'}))
  BY DEF Next, Remember
<1>1. CASE main = "exited"
  BY <1>0, <1>1, ExitedStays DEF Next
<1>2. CASE WindowOpens
  BY <1>0, <1>2 DEF WindowOpens, Commanded
<1>3. ASSUME NEW m \in Monitor, SessionOpens(m)
      PROVE  Held'
  BY <1>0, <1>3 DEF SessionOpens, Built, SourceStarts
<1>4. ASSUME NEW m \in Monitor, StartDryRun(m) \/ Confirms(m)
      PROVE  Held'
  <2>1. /\ Begins(m) /\ current' = m /\ main = "loop" /\ main' = "loop" /\ front = "gui"
    BY <1>4 DEF StartDryRun, Confirms, StartMonitor
  <2> QED BY <1>0, <2>1 DEF Begins
<1>5. ASSUME NEW m \in Monitor, Reports(m) \/ StaysSilent(m)
      PROVE  Held'
  BY <1>0, <1>5 DEF Reports, StaysSilent, MonitorEnds, Stops, Dies, SourceFails, StopRaises,
    BuildFails, IsOver
<1>6. ASSUME NEW m \in Monitor, StoppedArrives(m)
      PROVE  Held'
  BY <1>0, <1>6 DEF StoppedArrives
<1>7. CASE StoppedJoined \/ MonitorJoined
  BY <1>0, <1>7 DEF StoppedJoined, MonitorJoined, CanBeJoined
<1>8. CASE Leaving \/ StaysInTray
  BY <1>0, <1>8 DEF Leaving, StaysInTray
<1>9. CASE Asks \/ Declines \/ StopsCurrent \/ Leaves
  BY <1>0, <1>9 DEF Asks, Declines, StopsCurrent, Leaves
<1>10. CASE SaveSettings \/ \E device \in Device : UseDevice(device)
  BY <1>0, <1>10 DEF SaveSettings, UseDevice
<1>11. CASE ScanStarts \/ ScanEnds \/ SampleStarts \/ SampleEnds
  BY <1>0, <1>11 DEF ScanStarts, ScanEnds, SampleStarts, SampleEnds
<1>12. CASE WizardOpens \/ WizardCancelled \/ WizardAccepted
  BY <1>0, <1>12 DEF WizardOpens, WizardCancelled, WizardAccepted
<1> QED BY <1>1, <1>2, <1>3, <1>4, <1>5, <1>6, <1>7, <1>8, <1>9, <1>10, <1>11, <1>12,
           WindowOnly DEF Next, WindowNext

LEMMA HelpedStep ==
  ASSUME Typed, Commanded, Helped, Next
  PROVE  Helped'
<1> SUFFICES ASSUME scanning' \/ sampling' PROVE front' = "gui" /\ main' # "exited"
  BY DEF Helped
<1> USE DEF Helped, windowVars, helpers, elsewhere, shellVars, commandVars, InLoop, InWindow
<1>1. CASE main = "exited"
  BY <1>1, ExitedStays DEF Next
<1>2. front = "gui"
  <2>1. CASE UNCHANGED windowVars
    BY <2>1
  <2>2. CASE ScanStarts \/ ScanEnds \/ SampleStarts \/ SampleEnds
    BY <2>2 DEF ScanStarts, ScanEnds, SampleStarts, SampleEnds
  <2>3. UNCHANGED windowVars \/ UNCHANGED helpers
          \/ ScanStarts \/ ScanEnds \/ SampleStarts \/ SampleEnds
    <3>1. CASE WindowOpens \/ SaveSettings \/ \E device \in Device : UseDevice(device)
      BY <3>1 DEF WindowOpens, SaveSettings, UseDevice
    <3>2. CASE \E m \in Monitor : StartDryRun(m) \/ Confirms(m)
      BY <3>2 DEF StartDryRun, Confirms, StartMonitor
    <3>3. CASE \E m \in Monitor : Reports(m) \/ StaysSilent(m) \/ StoppedArrives(m)
      BY <3>3 DEF Reports, StaysSilent, StoppedArrives
    <3>4. CASE Asks \/ Declines \/ StopsCurrent \/ StoppedJoined
      BY <3>4 DEF Asks, Declines, StopsCurrent, StoppedJoined
    <3>5. CASE WizardOpens \/ WizardCancelled \/ WizardAccepted
      BY <3>5 DEF WizardOpens, WizardCancelled, WizardAccepted
    <3>6. CASE Leaves \/ MonitorJoined \/ Leaving \/ StaysInTray
      BY <3>6 DEF Leaves, MonitorJoined, Leaving, StaysInTray
    <3>7. CASE \E m \in Monitor : SessionOpens(m) \/ SessionFails(m)
      BY <3>7 DEF SessionOpens, SessionFails
    <3> QED BY <3>1, <3>2, <3>3, <3>4, <3>5, <3>6, <3>7 DEF Next, Step, WindowNext
  <2> QED BY <2>1, <2>2, <2>3
<1>3. front' = "gui"
  BY <1>2, StepShell DEF Next, ShellStep, Commanded, TrayOpens, Runs
<1>4. ASSUME main' = "exited", main # "exited"
      PROVE  FALSE
  <2>1. ~\E m \in Monitor : SessionOpens(m) \/ StartDryRun(m) \/ Confirms(m) \/ Reports(m)
                            \/ StaysSilent(m) \/ StoppedArrives(m)
    BY <1>4 DEF SessionOpens, StartDryRun, Confirms, Reports, StaysSilent, StoppedArrives,
      StartMonitor
  <2>2. ~(WindowOpens \/ Asks \/ Declines \/ StopsCurrent \/ StoppedJoined \/ SaveSettings)
    BY <1>4 DEF WindowOpens, Asks, Declines, StopsCurrent, StoppedJoined, SaveSettings
  <2>3. ~(WizardOpens \/ WizardCancelled \/ WizardAccepted \/ Leaves \/ MonitorJoined
            \/ StaysInTray)
    BY <1>4 DEF WizardOpens, WizardCancelled, WizardAccepted, Leaves, MonitorJoined,
      StaysInTray
  <2>4. ~(ScanStarts \/ ScanEnds \/ SampleStarts \/ SampleEnds
            \/ \E device \in Device : UseDevice(device))
    BY <1>4 DEF ScanStarts, ScanEnds, SampleStarts, SampleEnds, UseDevice
  <2>5. ~Leaving
    BY DEF Leaving
  <2> QED BY <1>3, <2>1, <2>2, <2>3, <2>4, <2>5, WindowOnly DEF Next, WindowNext
<1> QED BY <1>1, <1>3, <1>4

\* Nothing but the window exits by a step of the window.
LEMMA NotInWindow ==
  ASSUME Commanded, main # "exited", main' = "exited", front' # "gui"
  PROVE  ~WindowNext
<1> USE DEF InLoop, InWindow, elsewhere, shellVars, commandVars
<1>1. ~(WindowOpens \/ SaveSettings \/ \E device \in Device : UseDevice(device))
  BY DEF WindowOpens, SaveSettings, UseDevice
<1>2. ~\E m \in Monitor : StartDryRun(m) \/ Confirms(m)
  BY DEF StartDryRun, Confirms, StartMonitor
<1>3. ~\E m \in Monitor : Reports(m) \/ StaysSilent(m) \/ StoppedArrives(m)
  BY DEF Reports, StaysSilent, StoppedArrives
<1>4. ~(Asks \/ Declines \/ StopsCurrent \/ StoppedJoined)
  BY DEF Asks, Declines, StopsCurrent, StoppedJoined
<1>5. ~(ScanStarts \/ ScanEnds \/ SampleStarts \/ SampleEnds)
  BY DEF ScanStarts, ScanEnds, SampleStarts, SampleEnds
<1>6. ~(WizardOpens \/ WizardCancelled \/ WizardAccepted)
  BY DEF WizardOpens, WizardCancelled, WizardAccepted
<1>7. ~(Leaves \/ MonitorJoined \/ Leaving \/ StaysInTray)
  BY DEF Leaves, MonitorJoined, Leaving, StaysInTray, Commanded, Waits
<1> QED BY <1>1, <1>2, <1>3, <1>4, <1>5, <1>6, <1>7 DEF WindowNext

LEMMA GoneStep ==
  ASSUME Typed, Commanded, Gone, Next
  PROVE  Gone'
<1> SUFFICES ASSUME main' = "exited", front' \notin {"gui", "tray"}
             PROVE  pc'[Its] \in Over \cup {"unused"}
  BY DEF Gone
<1> USE ItsIsMonitor DEF Typed
<1>1. CASE main = "exited"
  BY <1>1, ExitedStays DEF Next, Gone
<1>2. CASE main = "none"
  <2>1. front = "none" /\ front' # "none"
    BY <1>2, StepShell DEF Next, ShellStep, Commanded, TrayOpens, Runs, Waits
  <2>2. CASE CommandNext
    <3>1. ~(CliBuilt \/ NotBuilt \/ CliEnds \/ Interrupts \/ Answers)
      BY <1>2 DEF CliBuilt, NotBuilt, CliEnds, Interrupts, Answers
    <3>2. ~\E command \in {"cli", "tray"}, withLocker \in BOOLEAN : Runs(command, withLocker)
      BY DEF Runs
    <3>3. UNCHANGED pc
      BY <2>2, <3>1, <3>2 DEF CommandNext, SetupSaves, Pairs, Refuses, monitorVars
    <3>4. pc[Its] = "unused"
      BY <2>1 DEF Commanded
    <3> QED BY <3>3, <3>4
  <2>3. ~TrayNext
    BY <1>2 DEF TrayNext, TrayOpens, ShowsError, TrayQuits, Switch, SwitchFails, InMenu
  <2>4. ~\E m \in Monitor : SessionOpens(m) \/ SessionFails(m)
    BY <2>1 DEF SessionOpens, SessionFails, commandVars
  <2>5. ~WindowNext
    BY <1>2, NotInWindow
  <2> QED BY <2>2, <2>3, <2>4, <2>5 DEF Next, Step
<1>3. CASE main \notin {"none", "exited"}
  <2>1. CASE CommandNext
    <3>1. ~\E config \in Config : SetupSaves(config)
      BY <1>3 DEF SetupSaves
    <3>2. ~\E paired \in BOOLEAN : Pairs(paired)
      BY <1>3 DEF Pairs
    <3>3. ~\E command \in {"cli", "tray"}, withLocker \in BOOLEAN :
             Refuses(command, withLocker) \/ Runs(command, withLocker)
      BY <1>3 DEF Refuses, Runs
    <3>4. CASE CliBuilt
      BY <1>3, <3>4 DEF CliBuilt, commandVars
    <3>5. CASE NotBuilt \/ CliEnds \/ Interrupts \/ Answers
      BY <3>5 DEF NotBuilt, CliEnds, Interrupts, Answers, BuildFails, IsOver, Goes, Over, Dead,
        monitorVars
    <3> QED BY <2>1, <3>1, <3>2, <3>3, <3>4, <3>5 DEF CommandNext
  <2>2. ~TrayNext
    BY <1>3 DEF TrayNext, TrayOpens, ShowsError, TrayQuits, Switch, SwitchFails, InMenu,
      commandVars
  <2>3. ~WindowNext
    BY <1>3, NotInWindow
  <2>4. ~\E m \in Monitor : SessionOpens(m) \/ SessionFails(m)
    BY <1>3 DEF SessionOpens, SessionFails, commandVars
  <2> QED BY <2>1, <2>2, <2>3, <2>4 DEF Next, Step
<1> QED BY <1>1, <1>2, <1>3

-----------------------------------------------------------------------------
(* Types. *)

\* What has a type besides the configuration and the monitors.
Threads ==
  /\ stop \subseteq Monitor
  /\ file \in {"none", "unreadable", "garbled", "config"}
  /\ \A m \in Monitor : pc[m] \in Live => m \in opened

Shell ==
  /\ front \in {"none", "setup", "pair", "cli", "tray", "gui"}
  /\ main \in
       {"none", "session", "menu", "loop", "joining", "leaving", "leavingScan", "exited"}
  /\ exit \in {Ok, Failed, Refused, Aborted, Interrupted}
  /\ locker \in BOOLEAN /\ precaution \in {"none", "locked", "warned"}
  /\ status \in {"none", "starting", "error"}

Kinds == Threads /\ Shell /\ WindowTypeOK

LEMMA CommandKinds ==
  ASSUME Typed, Kinds, CommandNext, UNCHANGED <<trayVars, windowVars>>
  PROVE  Kinds'
<1> USE ItsIsMonitor
    DEF Typed, Kinds, Threads, Shell, WindowTypeOK, Keep, Exits, Goes, IsOver, Live, Over,
        settingsVars, monitorVars, commandVars, trayVars, windowVars, monitorTab, helpers
<1>1. CASE \E config \in Config : SetupSaves(config)
  BY <1>1 DEF SetupSaves
<1>2. CASE \E paired \in BOOLEAN : Pairs(paired)
  BY <1>2 DEF Pairs
<1>3. CASE \E command \in {"cli", "tray"}, withLocker \in BOOLEAN :
             Refuses(command, withLocker)
  BY <1>3 DEF Refuses
<1>4. CASE \E command \in {"cli", "tray"}, withLocker \in BOOLEAN : Runs(command, withLocker)
  BY <1>4 DEF Runs, Begins
<1>5. CASE CliBuilt
  BY <1>5 DEF CliBuilt, Built
<1>6. CASE NotBuilt
  BY <1>6 DEF NotBuilt, BuildFails
<1>7. CASE CliEnds
  BY <1>7 DEF CliEnds
<1>8. CASE Interrupts
  BY <1>8 DEF Interrupts
<1>9. CASE Answers
  BY <1>9 DEF Answers
<1> QED BY <1>1, <1>2, <1>3, <1>4, <1>5, <1>6, <1>7, <1>8, <1>9 DEF CommandNext

LEMMA TrayKinds ==
  ASSUME Typed, Kinds, TrayNext, UNCHANGED windowVars
  PROVE  Kinds'
<1> USE ItsIsMonitor
    DEF Typed, Kinds, Threads, Shell, WindowTypeOK, Keep, Exits, InMenu, Live,
        settingsVars, monitorVars, commandVars, windowVars, monitorTab, helpers
<1>1. CASE TrayOpens
  BY <1>1 DEF TrayOpens, Built, Goes
<1>2. CASE \E device \in Device : Switch(device)
  BY <1>2 DEF Switch, Retargets
<1>3. CASE \E device \in Device : SwitchFails(device)
  BY <1>3 DEF SwitchFails, KeepFails
<1>4. CASE ShowsError
  BY <1>4 DEF ShowsError
<1>5. CASE TrayQuits
  BY <1>5 DEF TrayQuits, AskToStop
<1> QED BY <1>1, <1>2, <1>3, <1>4, <1>5 DEF TrayNext

LEMMA WindowKinds ==
  ASSUME Typed, Kinds, WindowNext
  PROVE  Kinds'
<1> USE NoMonitorYetAssumption
    DEF Typed, Kinds, Threads, Shell, WindowTypeOK, Keep, Exits, InLoop, InWindow,
        settingsVars, monitorVars, commandVars, trayVars, shellVars, elsewhere,
        windowVars, monitorTab, helpers
<1>1. CASE WindowOpens
  BY <1>1 DEF WindowOpens
<1>2. ASSUME NEW m \in Monitor, StartDryRun(m) \/ Confirms(m)
      PROVE  Kinds'
  <2>1. /\ Begins(m) /\ current' = m /\ startable' = FALSE /\ dialog' \in {dialog, "none"}
        /\ UNCHANGED <<settingsVars, commandVars, trayVars, reports, helpers>>
    BY <1>2 DEF StartDryRun, Confirms, StartMonitor
  <2>2. Threads'
    BY <2>1 DEF Begins, Goes, Live, Over
  <2>3. Shell'
    BY <2>1
  <2>4. WindowTypeOK'
    BY <2>1
  <2> QED BY <2>2, <2>3, <2>4
<1>3. ASSUME NEW m \in Monitor, Reports(m)
      PROVE  Kinds'
  BY <1>3 DEF Reports, MonitorEnds, Stops, Dies, SourceFails, StopRaises, IsOver, Goes, Live,
    Over
<1>4. ASSUME NEW m \in Monitor, StaysSilent(m)
      PROVE  Kinds'
  BY <1>4 DEF StaysSilent, BuildFails, Goes, Live, Over
<1>5. ASSUME NEW m \in Monitor, StoppedArrives(m)
      PROVE  Kinds'
  BY <1>5 DEF StoppedArrives
<1>6. CASE Asks \/ Declines \/ StopsCurrent \/ StoppedJoined
  BY <1>6 DEF Asks, Declines, StopsCurrent, StoppedJoined, AskToStop
<1>7. CASE SaveSettings \/ \E device \in Device : UseDevice(device)
  <2>1. /\ file' \in {file, "config"}
        /\ UNCHANGED <<monitorVars, commandVars, trayVars, windowVars>>
    BY <1>7 DEF SaveSettings, UseDevice
  <2> QED BY <2>1
<1>8. CASE ScanStarts \/ ScanEnds \/ SampleStarts \/ SampleEnds
  <2>1. UNCHANGED <<elsewhere, monitorTab, dialog>>
    BY <1>8 DEF ScanStarts, ScanEnds, SampleStarts, SampleEnds
  <2>2. scanning' \in BOOLEAN /\ sampling' \in BOOLEAN
    BY <1>8, Zenon DEF ScanStarts, ScanEnds, SampleStarts, SampleEnds
  <2>3. Threads' /\ Shell'
    BY <2>1
  <2>4. WindowTypeOK'
    BY <2>1, <2>2
  <2> QED BY <2>3, <2>4
<1>9. CASE WizardOpens \/ WizardCancelled \/ WizardAccepted
  BY <1>9 DEF WizardOpens, WizardCancelled, WizardAccepted
<1>10. CASE Leaves
  BY <1>10 DEF Leaves, AskToStop
<1>11. CASE MonitorJoined \/ Leaving \/ StaysInTray
  BY <1>11 DEF MonitorJoined, Leaving, StaysInTray
<1> QED BY <1>1, <1>2, <1>3, <1>4, <1>5, <1>6, <1>7, <1>8, <1>9, <1>10, <1>11 DEF WindowNext

LEMMA SessionKinds ==
  ASSUME Typed, Kinds, NEW m \in Monitor, SessionOpens(m) \/ SessionFails(m)
  PROVE  Kinds'
<1> USE DEF Typed, Kinds, Threads, Shell, WindowTypeOK, Live, Over, Goes, settingsVars,
            commandVars, trayVars, windowVars, monitorTab, helpers
<1>1. CASE SessionOpens(m)
  BY <1>1 DEF SessionOpens, Built, SourceStarts
<1>2. CASE SessionFails(m)
  BY <1>2 DEF SessionFails, SourceFails, Dies, StopRaises, IsOver
<1> QED BY <1>1, <1>2

LEMMA KindsStep ==
  ASSUME Typed, Kinds, Next
  PROVE  Kinds'
BY CommandKinds, TrayKinds, WindowKinds, SessionKinds DEF Next, Step

-----------------------------------------------------------------------------
(* The theorems. *)

LifeInv ==
  /\ Typed /\ Commanded /\ InMemory /\ TrayKnows
  /\ SavedIsAccepted /\ MonitorsChosen /\ ArmedDeathLocks
  /\ Closed /\ Held /\ Helped /\ Gone

LEMMA InitIsGood == Init => LifeInv
<1> SUFFICES ASSUME Init PROVE LifeInv
  OBVIOUS
<1> USE DEF Init, NewSettings, NoMonitor, NoCommand, NoTray, NoWindow
<1>1. Typed
  <2>1. Default \in Config
    BY DEF Default, Config
  <2>2. memory \in Config /\ disk \in Config
    BY <2>1, FoundAssumption
  <2>3. /\ pc \in [Monitor -> {"unused", "building"} \cup Live \cup Over]
        /\ tracks \in [Monitor -> Device \cup {NoDevice}]
        /\ opened \subseteq Monitor
    OBVIOUS
  <2> QED BY <2>2, <2>3 DEF Typed
<1>2. Commanded /\ InMemory /\ TrayKnows
  BY DEF Commanded, Waits, InMemory, TrayKnows
<1>3. SavedIsAccepted /\ MonitorsChosen /\ ArmedDeathLocks
  BY DEF SavedIsAccepted, MonitorsChosen, ArmedDeathLocks, Live, Dead
<1>4. Closed /\ Held /\ Helped /\ Gone
  BY DEF Closed, Held, Helped, Gone
<1> QED BY <1>1, <1>2, <1>3, <1>4 DEF LifeInv

LEMMA StepIsGood == LifeInv /\ [Next]_vars => LifeInv'
<1> SUFFICES ASSUME LifeInv, [Next]_vars PROVE LifeInv'
  OBVIOUS
<1> USE DEF LifeInv
<1>1. CASE Next
  BY <1>1, TypedStep, CommandedStep, SavedStep, TrayKnowsStep, ChosenStep, DeathStep,
    ClosedStep, HeldStep, HelpedStep, GoneStep
<1>2. CASE UNCHANGED vars
  BY <1>2 DEF vars, lifeVars, elsewhere, settingsVars, monitorVars, commandVars, trayVars,
    windowVars, monitorTab, helpers, history, Typed, Commanded, InMemory, TrayKnows,
    SavedIsAccepted, MonitorsChosen, ArmedDeathLocks, Closed, Held, Helped, Gone
<1> QED BY <1>1, <1>2

LEMMA LifeIsGood == Spec => []LifeInv
BY InitIsGood, StepIsGood, PTL DEF Spec

\* Type correctness of a process, whatever its command.
THEOREM LifeTypeCorrect == Spec => []TypeOK
<1> DEFINE Good ==
             /\ Typed /\ Kinds
             /\ doubled \in BOOLEAN /\ drifted \subseteq Monitor /\ unstarted \subseteq Monitor
<1>1. Init => Good
  <2> SUFFICES ASSUME Init PROVE Good
    OBVIOUS
  <2>1. Typed
    BY InitIsGood DEF LifeInv
  <2>2. Kinds
    BY DEF Init, NewSettings, NoMonitor, NoCommand, NoTray, NoWindow, Kinds, Threads, Shell,
      WindowTypeOK, Live
  <2> QED BY <2>1, <2>2 DEF Init
<1>2. Good /\ [Next]_vars => Good'
  <2> SUFFICES ASSUME Good, [Next]_vars PROVE Good'
    OBVIOUS
  <2>1. CASE Next
    <3>1. Typed' /\ Kinds'
      BY <2>1, TypedStep, KindsStep
    <3>2. doubled' \in BOOLEAN /\ drifted' \subseteq Monitor /\ unstarted' \subseteq Monitor
      BY <2>1 DEF Next, Remember
    <3> QED BY <3>1, <3>2
  <2>2. CASE UNCHANGED vars
    BY <2>2 DEF vars, lifeVars, elsewhere, settingsVars, monitorVars, commandVars, trayVars,
      windowVars, monitorTab, helpers, history, Typed, Kinds, Threads, Shell, WindowTypeOK
  <2> QED BY <2>1, <2>2
<1>3. Good => TypeOK
  BY DEF TypeOK, SettingsTypeOK, MonitorTypeOK, Typed, Kinds, Threads, Shell
<1> QED BY <1>1, <1>2, <1>3, PTL DEF Spec

\* What setup, pairing, the tray and the window leave in the file is what the next run
\* accepts, but for the known ways of LetsIn (config/settings.py, cli.py:288, app.py).
THEOREM SavedIsAcceptedAlways == Spec => []SavedIsAccepted
<1>1. LifeInv => SavedIsAccepted
  BY DEF LifeInv
<1> QED BY <1>1, LifeIsGood, PTL

\* A monitor tracks the device in the settings, unless it was not told of a choice
\* (tray.py:128, app.py:713).
THEOREM MonitorsAreChosen == Spec => []MonitorsChosen
<1>1. LifeInv => MonitorsChosen
  BY DEF LifeInv
<1> QED BY <1>1, LifeIsGood, PTL

\* An armed monitor of the command line that dies is answered with a lock or a warning
\* (cli.py:348-365).
THEOREM ArmedDeathIsAnswered == Spec => []ArmedDeathLocks
<1>1. LifeInv => ArmedDeathLocks
  BY DEF LifeInv
<1> QED BY <1>1, LifeIsGood, PTL

\* A monitor that is over has closed what it opened, unless it ended before its loop
\* began (session.py:80-110, :195, outside the try of 201) or its source.stop() did not
\* return (:326, before the closing); and a process that has exited left no thread behind,
\* except the tray's monitor, and one that another was started over (app.py:943-955).
THEOREM NothingIsLeftBehind == Spec => []NothingLeftBehind
<1>1. LifeInv => NothingLeftBehind
  <2> SUFFICES ASSUME LifeInv PROVE NothingLeftBehind
    OBVIOUS
  <2> USE NoMonitorYetAssumption DEF LifeInv, Typed, NothingLeftBehind
  <2>1. \A m \in opened : pc[m] \in {"ended", "died"} => m \in unstarted
    BY DEF Closed, Over
  <2>2. ASSUME main = "exited", front # "tray", ~doubled, NEW m \in Monitor
        PROVE  pc[m] \in Over \cup {"unused"}
    <3>1. CASE front = "gui"
      BY <2>2, <3>1 DEF Held
    <3>2. CASE front # "gui"
      BY <2>2, <3>2 DEF Gone, Commanded
    <3> QED BY <3>1, <3>2
  <2>3. main = "exited" => ~scanning /\ ~sampling
    BY DEF Helped
  <2> QED BY <2>1, <2>2, <2>3
<1> QED BY <1>1, LifeIsGood, PTL

-----------------------------------------------------------------------------
(* The numbers of a configuration: what its bounds, the widgets and a NaN come to. *)

LEMMA WholeIsWhole ==
  ASSUME NEW x \in Int
  PROVE  Whole(x) \in Int /\ ToWhole(x) \in Int
BY DEF Whole, ToWhole

LEMMA ClampsInto ==
  ASSUME NEW x \in Int, NEW low \in Int, NEW high \in Int, low <= high
  PROVE  /\ Clamp(x, low, high) \in Int
         /\ low <= Clamp(x, low, high) /\ Clamp(x, low, high) <= high
BY DEF Clamp

LEMMA BoundsOf ==
  ASSUME NEW x
  PROVE  /\ AcceptedIn("radius_m", x) <=> Within(x, 10, 100)
         /\ AcceptedIn("grace_seconds", x) <=> ~Below(x, 30)
         /\ AcceptedIn("path_loss_exponent", x) <=> Within(x, 12, 45)
         /\ AcceptedIn("rssi_at_1m", x) <=> Within(x, -1000, 0)
         /\ AcceptedIn("auto_unlock_strict_ratio", x) <=> Within(x, 1, 10)
         /\ AcceptedIn("integration_presence_max_age", x) <=> ~Below(x, 0)
         /\ \A field \in IntField : AcceptedIn(field, x) <=> ~Below(x, 10)
         /\ \A field \in {"breaker_window_seconds", "breaker_cooldown_seconds",
                          "auto_unlock_dwell_seconds"} : AcceptedIn(field, x) <=> ~Below(x, 1)
<1>1. AcceptedIn("radius_m", x) <=> Within(x, 10, 100)
  BY DEF AcceptedIn, IntField
<1>2. AcceptedIn("grace_seconds", x) <=> ~Below(x, 30)
  BY DEF AcceptedIn, IntField
<1>3. AcceptedIn("path_loss_exponent", x) <=> Within(x, 12, 45)
  BY DEF AcceptedIn, IntField
<1>4. AcceptedIn("rssi_at_1m", x) <=> Within(x, -1000, 0)
  BY DEF AcceptedIn, IntField
<1>5. AcceptedIn("auto_unlock_strict_ratio", x) <=> Within(x, 1, 10)
  BY DEF AcceptedIn, IntField
<1>6. AcceptedIn("integration_presence_max_age", x) <=> ~Below(x, 0)
  BY DEF AcceptedIn, IntField
<1>7. ASSUME NEW field \in IntField PROVE AcceptedIn(field, x) <=> ~Below(x, 10)
  BY DEF AcceptedIn, IntField
<1>8. ASSUME NEW field \in {"breaker_window_seconds", "breaker_cooldown_seconds",
                          "auto_unlock_dwell_seconds"}
      PROVE AcceptedIn(field, x) <=> ~Below(x, 1)
  BY DEF AcceptedIn, IntField
<1> QED BY <1>1, <1>2, <1>3, <1>4, <1>5, <1>6, <1>7, <1>8

\* Whatever the window shows of a number, and then saves, is accepted (app.py:829-830,
\* viewmodel.py:96-105): for every number, within its bounds or not.
THEOREM WidgetsKeepBounds == ShownAreAccepted(Int)
<1> SUFFICES ASSUME NEW field \in InWidgets, NEW x \in Int
             PROVE  AcceptedIn(field, Shown(field, x))
  BY DEF ShownAreAccepted
<1> DEFINE y == Shown(field, x)
<1>1. CASE field = "radius_m"
  <2>1. y = Clamp(ToWhole(x), 10, 100)
    BY <1>1 DEF Shown
  <2>2. y \in Int /\ 10 <= y /\ y <= 100
    BY <2>1, ClampsInto, WholeIsWhole
  <2>3. Within(y, 10, 100)
    BY <2>2, NaNAssumption DEF Within
  <2> QED BY <1>1, <2>3, BoundsOf
<1>2. CASE field = "grace_seconds"
  <2>1. y = Clamp(x, 30, 600)
    BY <1>2 DEF Shown
  <2>2. y \in Int /\ 30 <= y
    BY <2>1, ClampsInto
  <2>3. ~Below(y, 30)
    BY <2>2 DEF Below
  <2> QED BY <1>2, <2>3, BoundsOf
<1>3. CASE field = "breaker_max_locks"
  <2>1. y = Clamp(x, 10, 1000)
    BY <1>3 DEF Shown
  <2>2. y \in Int /\ 10 <= y
    BY <2>1, ClampsInto
  <2>3. ~Below(y, 10)
    BY <2>2 DEF Below
  <2> QED BY <1>3, <2>3, BoundsOf DEF IntField
<1>4. CASE field \in {"breaker_window_seconds", "breaker_cooldown_seconds"}
  <2>1. y = Clamp(x, 10, 36000)
    BY <1>4 DEF Shown
  <2>2. y \in Int /\ 10 <= y
    BY <2>1, ClampsInto
  <2>3. ~Below(y, 1)
    BY <2>2 DEF Below
  <2> QED BY <1>4, <2>3, BoundsOf
<1> QED BY <1>1, <1>2, <1>3, <1>4 DEF InWidgets

\* Whatever number load and validate let through, a session can work with.
THEOREM AcceptedNumbersAreUsable == AcceptedAreUsable(Int)
<1> SUFFICES ASSUME NEW field \in Field, NEW x \in Int, RunsWith(field, x)
             PROVE  UsableIn(field, Coerced(field, x))
  BY DEF AcceptedAreUsable
<1> DEFINE y == Coerced(field, x)
<1>1. y \in Int /\ y # NaN /\ AcceptedIn(field, y)
  BY WholeIsWhole, NaNAssumption DEF Coerced, RunsWith
<1>2. \A low, high \in Int : Within(y, low, high) => low <= y /\ y <= high
  BY DEF Within
<1>3. \A low \in Int : ~Below(y, low) => low <= y
  BY <1>1 DEF Below
<1> HIDE DEF y
<1>4. CASE field = "rssi_at_1m"
  <2>1. y <= 0
    BY <1>1, <1>2, <1>4, BoundsOf
  <2> QED BY <1>4, <2>1 DEF UsableIn, y
<1>5. CASE field = "integration_presence_max_age"
  <2>1. y >= 0
    BY <1>1, <1>3, <1>5, BoundsOf
  <2> QED BY <1>5, <2>1 DEF UsableIn, y
<1>6. CASE field \notin {"rssi_at_1m", "integration_presence_max_age"}
  <2>1. \/ field = "radius_m" \/ field = "grace_seconds" \/ field = "path_loss_exponent"
        \/ field = "auto_unlock_strict_ratio" \/ field \in IntField
        \/ field \in {"breaker_window_seconds", "breaker_cooldown_seconds",
                      "auto_unlock_dwell_seconds"}
    BY <1>6 DEF Field, FloatField
  <2>2. Within(y, 10, 100) \/ Within(y, 12, 45) \/ Within(y, 1, 10)
          \/ ~Below(y, 30) \/ ~Below(y, 10) \/ ~Below(y, 1)
    BY <1>1, <2>1, BoundsOf
  <2>3. y >= 1
    BY <1>1, <1>2, <1>3, <2>2
  <2> QED BY <1>6, <2>3 DEF UsableIn, y
<1> QED BY <1>4, <1>5, <1>6

\* Exactly the fields with a bound on one side run with a NaN in the file
\* (settings.py:85-127): the grace period and the times of the breaker among them.
THEOREM NaNPassesOneSided == {field \in Field : RunsWith(field, NaN)} = OneSided
<1>1. \A low, high \in Int : ~Within(NaN, low, high) /\ ~Below(NaN, low)
  BY DEF Within, Below
<1>2. ASSUME NEW field \in Field PROVE RunsWith(field, NaN) <=> field \in OneSided
  <2>1. CASE field \in IntField
    BY <2>1 DEF RunsWith, Coercible, IntField, OneSided
  <2>2. CASE field \notin IntField
    <3>1. RunsWith(field, NaN) <=> AcceptedIn(field, NaN)
      BY <2>2 DEF RunsWith, Coercible, Coerced
    <3>2. CASE field \in {"radius_m", "path_loss_exponent", "rssi_at_1m",
                          "auto_unlock_strict_ratio"}
      <4>1. ~AcceptedIn(field, NaN)
        BY <1>1, <3>2, BoundsOf
      <4> QED BY <3>1, <3>2, <4>1 DEF OneSided
    <3>3. CASE field \in OneSided
      <4>1. AcceptedIn(field, NaN)
        BY <1>1, <3>3, BoundsOf DEF OneSided
      <4> QED BY <3>1, <3>3, <4>1
    <3> QED BY <2>2, <3>2, <3>3 DEF Field, FloatField, OneSided
  <2> QED BY <2>1, <2>2
<1>3. OneSided \subseteq Field
  BY DEF OneSided, Field, FloatField
<1> QED BY <1>2, <1>3
=============================================================================
