# A TLA+ model of stavau

stavau locks the screen when a trusted Bluetooth device goes out of range, and
optionally unlocks it again. This directory holds TLA+ specifications of its
code, TLC configurations that check them on small instances, and proofs, checked
by TLAPS, of what holds for every value of the constants. Paths below are
relative to the repository (`core/session.py` is `src/stavau/core/session.py`).

## Inventory

| part | state | operations | what is hard | what makes it correct |
|---|---|---|---|---|
| monitor session (`core/session.py`) | lock pending since, cached radio reading, the machines below | one tick a second; `retarget` from the tray thread | readings taken before an await and used after it; a lock the OS carries out late; retries | no departure without its lock, no lock without a departure |
| presence machine (`core/presence.py`) | near / leaving / away / returning, one timer | `update(distance, now)` | hysteresis and two dwell times | the timer runs exactly in the timed states |
| lock circuit breaker (`core/breaker.py`) | instants of recent locks, end of the pause | `is_paused`, `register_lock` | clean slate after a pause, inclusive window edge | a bounded number of locks per window |
| auto-unlock policy (`core/autounlock.py`) | origin of the lock, an expectation, a dwell clock | `note_stavau_lock`, `note_lock_observed`, `decide` | who locked is guessed from the order of observations | never undo someone else's lock, never without the dwell |
| advertisement monitor (`core/advmonitor.py`) | bus, found path, keepalive task, resolver tasks, fallback scan | `start`, `stop`, `retarget`, found / lost / release callbacks | every await is a point where a callback or a stop can come, and every statement one where the tray's thread can retarget | presence only for the chosen device while it is there; not deaf; nothing left after `stop` |
| tracker and scan source (`core/monitor.py`) | last samples and when the last came | `push` from the scanner thread, `smoothed`, `reset` | two threads, a staleness window | a stale or foreign sample never counts |
| GATT link (`core/gattlink.py`), Classic link (`core/classic.py`) | client, back-off, generation; poll task | connect, poll, back off, `retarget`, `stop` | a read in flight across a retarget, slow commands, a bounded wait in `stop` | a sample belongs to the chosen device; slowness is no absence |
| external presence and MQTT (`core/integration.py`) | latch of the last message and its time | message, disconnect, poll | retained messages, reconnects, a client thread | a latch never outlives its maximum age |
| lock observers (`platform/lockstate_*.py`) | cached lock state, a bus, a window or a run loop | connect, signals, `current`, `close` | a query before a subscription, a dead bus, a thread slow to register | says locked only of a locked screen; leaves nothing open |
| radio probe (`core/radiostate.py`) | none | asks an external tool | timeouts | unknown on any doubt |
| lock and unlock commands (`platform/*`) | none | one OS call | accepted is not done | errors are reported |
| command line, tray, window (`cli.py`, `ui/*`) | a worker or thread per run, the settings they share | setup, pair, start, stop, switch device, save, quit | a run that ends by an exception, threads joined at quit, a second start | the screen is locked when the guard dies; what is saved is accepted; nothing is left behind |
| settings, event log (`config/settings.py`, `core/events.py`) | files | validate, load, save, append, rotate | bad values, rotation | only validated values reach a session |
| algorithms (`core/distance.py`, `calibrate.py`, `deviceid.py`, `strategy.py`) | none | path loss, medians, classification, choice of a source | boundary values | agree with their definitions |

How they interact: a proximity source pushes samples into the tracker, from the
event loop or from a scanner's thread; once a second the session reads the
tracker and the lock observer, drives the presence machine, and asks the breaker
before it calls the OS lock; the auto-unlock policy is fed by the observer and by
the session's own locks. The tray and the window retarget the session. The
screen is shared with the user and with the OS, which accepts a lock long before
it carries it out.

`PROJECT.json` lists every part with what is modelled of it, and the hazards of
the code at their lines.

## Modules

The guard: from a distance to a lock.

- `Clock` - time. The code stores instants and compares `now - instant` with
  thresholds; the modules store that difference, the *age*, saturated at the
  largest threshold it is compared with (one more where the comparison is `<=`).
  Saturation changes no comparison, so time needs no bound.
- `Presence`, `Breaker`, `AutoUnlock`, `RadioWatch` - one module per machine the
  session drives, with its state and one operator per branch of its methods. The
  breaker's deque is a set of ages: the session registers at most one lock per
  tick and ticks have different instants. `RadioWatch.Available` is the answer of
  `radiostate.py` by platform, tool and adapters.
- `Session` - extends those four with the loop of `MonitorSession.run`. A tick
  is `Poll` (lines 202-228), an optional `Probe` (the await of the radio probe)
  and one of `NothingDue`, `Suppressed`, `SkippedLocked`, `LockSucceeds`,
  `LockFails` (lines 230-324), each with the unlock decision and the second
  `is_paused` of the `on_tick` report, which every front end passes. The user,
  the OS and the tray's `Retarget` move between those steps, so what `Poll` read
  can be stale when it is used. `request` is a lock the OS has accepted and not
  carried out: it takes effect or is lost, later or never. A dry run is a run
  whose every request is lost.
- `LockHistory`, `UnlockHistory` - the session beside history variables, which
  watch its steps and never guard one, and the properties stated over them.
- `ProximityLock` - the abstract specification of the guard: a departure, told by a
  device that was far for the grace period, is answered once, by a lock or by finding
  the screen locked, and nothing else is; locks keep to a budget; the program opens a
  screen only if it last saw it locked. It knows no machine, breaker, policy or retry.
  `LockHistory` implements it (`Promise`) with `departure`, `far` and `recent` from the
  history and `seen <- observed = "locked"`.

The sources: from the radio to the tracker.

- `Devices` and `Tracker` - `RssiTracker` as every source meets it: whose samples
  have been pushed since the smoother was made, and the age of the latest.
- `AdvMonitor` - `AdvMonitorSource`, on two threads: the callbacks and tasks run on the
  session's event loop (the thread `stavau-monitor`, `tray.py:158`), from await to
  await; `retarget` runs in the thread of the tray menu (`tray.py:124-129`), one
  statement at a time: the address (298), the path (372), the task to cancel (373), the
  record of it (374), and the cancellation with the fallback (376, 300-301). A handler
  of the loop is split where a retarget can tell its statements apart: the comparison of
  a resolver, its record of the path and its keepalive (342, 344, 346-347); the return
  of a scan's start and its record (322, 323). `ScanHistory` adds the history of the
  races and the properties, which speak of the time between two retargets.
- `GattLink` - `GattLinkSource` and the thread of the tray menu, which calls `retarget`
  while the event loop runs the task. There an action is one statement that reads or
  writes what the other thread shares: the address and the generation are taken in two
  steps and replaced in two. The backoff is four statements: the comparison (276), the
  rest it takes (281), the read of `_backoff` it doubles (282), and the write of that
  with the sleep. `wanted` is the address the task took; instead of the generation
  counter there are the answers to the two comparisons the code makes with it
  (`turned`, `outdated`). `GattHistory` adds the history of the three races, and the
  properties.
- `ExternalPresence` - `ExternalPresenceSource` over `MqttPresenceBackend`: the
  client's thread sets the latch and its stamp in two steps, the task looks and
  pushes in two. `PresenceHistory` adds what was reported when, and the properties.
- `RadioTracker` - the tracker of a source that `MonitorSession.retarget` moves to
  another device from another thread: the address is stored, then the tracker is
  reset. `ScanSource` (`BleProximitySource`, whose scanner's thread compares an
  address and then pushes) and `ClassicLink` (the loop, and the one or two commands
  of a read) extend it.
- `Strategy` - which source `build_source` yields for a strategy on a platform, and
  the strategy `classify` recommends for a device.
- `SourceHistory` - the composition: the source of the effective strategy, of the
  external one, the scan and the Classic link, the history, and the properties.

The observers: from the desktop to "locked".

- `LockScreen` - what the three share: the cached word, and the notices on their
  way. `LinuxObserver` (a coroutine, the three subscriptions in their order, the
  matches the bus adds later, the death of the bus), `WindowsObserver` (a thread,
  its window, the five seconds it is waited for, `WM_QUIT`) and `MacObserver` (the
  run loop and the notification centre) extend it, and `LockObserver` is the one of
  the platform, with the history and the properties.
- `LockReport` - the abstract specification: an observer repeats the words it was
  told, in the order it was told them, drops some, or says that it does not know.
  `LockObserver` implements it with `report <- state, pending <- notices`.

The life of a process.

- `Settings` - the configuration in memory and in the file, by what `validate` asks
  of it; and the bounds of its numbers, with what `load` and the widgets make of them.
- `MonitorThread` - a session as its owner sees it: built, starting, running, over. It
  may be over in five ways: a constructor that raised, with or without an observer it
  had opened; a source that did not start; the end of the loop with everything closed;
  and a `source.stop()` that raised or was cancelled (`aborted`, `cut`), after which
  the rest of the `finally` is not reached. A file may be `garbled`: `load` raises
  something other than the `ConfigError` that its callers answer.
- `CommandLine` (`setup`, `pair`, `run`, the exit codes and the precautionary lock),
  `TrayApp` and `DesktopWindow` extend each other in this order, and `LifeCycle` is a
  process of the program over the file an earlier one has left, with the history and
  the properties.

Algorithms without state: `DistanceModel` (smoothing, the fit, its fallback, the
controller's thresholds), `LockCommands` (the platform's commands in their order),
and the parts of `Strategy`, `Settings` and `RadioWatch` named above. What is checked
of them are the `ASSUME`s of the instances.

`MCLock`, `MCPresence` and `MCLife` are the instances for TLC that need definitions
of their own; the other configurations give `ScanHistory`, `GattHistory`,
`UnlockHistory` and `LockObserver` their constants directly. `SessionProofs`,
`LockProofs`, `ScanProofs`, `GattProofs`, `ObserverProofs`, `SourceProofs` and
`LifeProofs` hold the theorems and their proofs.

An operator whose comment says *fault variant* is a plausible mistake in the
definition that follows it. No specification uses one: each shows that some
property notices the mistake.

Abstractions. Distances are a few values on each side of the thresholds, since `update`
and `decide` only compare them. Log entries, MQTT notifications and the fields of a
`Tick` are left out. `Session` takes the observer to answer the truth or unknown;
`LockObserver` says when it does. A retarget does not fall inside `Act`. In
`AdvMonitor` a device and its D-Bus path are one value, callbacks start when the
registration has been answered, two resolver tasks for one device count as one, and a
scan whose start is cancelled is taken not to run. `_stop_tracking` is one step when
the loop runs it, since a retarget between its statements reads and cancels the same
task; and the cancellation of a retarget is one step with the passing on of the choice,
since what the loop does between the two it could do before both, or after. The sample
that a beat or a resolver under way still pushes for the old device is left to
`Session`, whose retarget resets the tracker and whose readings may be of any distance;
that `_fallback` may be reset by `stop` between its two readings in lines 300 and 301,
an `AttributeError` in the tray's thread, is not modelled. A `HaltFails` leaves the bus
with the monitor, and nobody takes its callbacks any more. In `GattLink` the last two
statements of `retarget` (246-247) are one step, as a list of readings that is cleared
later costs a few more polls at the fast pace, and so are the append, the push and the
choice of the interval after a reading; no cancellation is absorbed; a reading ends
within `ReadTimeout`, which the reader of Linux ensures (5 s, and 2 s to kill
`hcitool`) and the one of macOS does not. In `ExternalPresence`, `ScanSource` and
`RadioTracker` a thread stays less than a second between two statements, a broken
connection is noticed at once, and the broker does not keep the subscription of a
broken connection. In `ClassicLink` the tick of the event loop and the executor cost no
time beyond their commands. In `LifeCycle` the numbers of a configuration are within
their bounds or not; the window's writes succeed, and the tray's may fail; a worker's
`stopped` is its last act; the await of `source.stop()` is one step with the end of the
loop; quitting closes an open dialog, and the wizard joins its thread when it closes.

## Runs

| run | shows |
|---|---|
| `lock` | `AtMostMaxLocksPerWindow`: the breaker's budget over every half-open window. `LockAnswersDeparture`: each lock command answers a departure that is still owed. `OwedLockPending`, `OwedLockFires`: a failed or suppressed lock is not forgotten and lands in the end. `AnsweredDepartureIsLocked`: a skipped or issued lock leaves the screen locked, or a lock on its way, unless someone undid it. `PromiseIsKept`: the refinement of `ProximityLock`. |
| `unlock` | `ForeignLockKept` and `DwellUnlessBlind`: exactly when a lock of the user's, or a dwell with gaps, can still lead to an unlock. `OwnLockReleased`: the owner who stays close is let in. |
| `scan` | `PresenceIsTarget`, `PresenceUnlessOrphan`, `FallbackUnlessMissed`: whom presence is synthesized for. `DeafOnlyIf`, `Rescans`: when the source stops listening, and that it otherwise comes to scan. `StopLeavesNothing`. |
| `gatt` | `TrackerIsTarget`, `AtMostOneStray`: whose samples the tracker averages, with retargets between any two statements. `SteadyIsFresh`: the relaxed pace never looks like an absence. `FastAfterContact`: the first rest after a contact or a retarget is a short one. `StopDisconnects`: whatever `stop` interrupts. `FollowsChoice`: the source comes to try the chosen device. |
| `external` | `HeldByEvidence`, `DeniedGoesSilent`: how long external presence can last without a message that supports it. `LiveIsHeard`: a supported one is never taken for an absence. `LeftBehindFades`: a device that is no longer the chosen one leaves the tracker of a scan or a Classic link in a bounded time, whatever was in flight. `AnsweredIsNotAway`: one that answers a slow Classic link is not taken for away. |
| `observers` | `LockedIsTrue`: when "locked" can be said of an open screen. `RepeatsWhatIsSaid`: the refinement of `LockReport`. `LockedIsTakenBack`: a "locked" that has become wrong is corrected. `ReleasedInTheEnd`: what `close` and the giving up of `make_observer` leave open. |
| `life` | `ArmedDeathLocks`: the monitor of the command line does not die without a lock or a warning. `MonitorsChosen`: the device that is tracked is the one in the settings. `SavedIsAccepted`: the next run accepts what this one saved. `NothingLeftBehind`, `QuitEnds`: observers and threads are closed and joined, and waiting for them ends. |
| `lock_forgotten` | fails, see below |
| `unlock_blind` | fails, see below |
| `unlock_foreign` | fails, see below |
| `scan_ghost` | fails, see below |
| `gatt_torn` | fails, see below |

Five runs check what the code's own comments and documents say of it, and find
it does not hold:

1. A pending lock is dropped by one reading within the return threshold, and the
   way back from RETURNING to AWAY does not make it due again (`lock_forgotten`).
2. The dwell of auto-unlock is not continuous over ticks whose observation is
   unknown, because `decide` is not called on them (`unlock_blind`).
3. A lock the user makes unseen, just before one of stavau's own, counts as
   stavau's (`unlock_foreign`).
4. A device lost while its address is being resolved is tracked from the moment
   the answer arrives (`scan_ghost`).
5. A retarget that falls between the task's readings of the address and of the
   generation goes unnoticed, and the old device stays connected (`gatt_torn`).

The passing runs state the strongest form that does hold, with these windows
spelled out as history variables (`blipped`, `blind`, `confused`, `orphan`,
`torn`). Other windows have no run of their own and are excused the same way:

- a reading past its guard when the device is switched (`overtaken` of `GattHistory`),
  and a rest that the task took from the backoff before a retarget reset it
  (`outpaced`): the chosen device is then tried only after the long rest of the old
  one. The write of line 282 can also undo that reset; this lengthens the second rest,
  of which the property says nothing;
- a retarget between a resolver's comparison and its keepalive (`overtaken` of
  `ScanHistory`), or a record of a keepalive between a retarget's reading of it and its
  reset: the keepalive beats on (`strayed`), for the old device or out of everyone's
  reach;
- a retarget that finds a fallback scan built and not yet recorded, whether its start is
  awaited or has returned (`missed`);
- a callback during the awaits of `stop`, a keepalive that `stop` does not find recorded
  and a second scan that replaces a running one (`late`);
- a change of the screen that nobody told the observer of (`missed` of `LockObserver`):
  between the query and the match, over a bus that died, on a desktop that does not
  keep `LockedHint`. `_state` then keeps its last word, where the docstring of
  `lockstate_linux.py` speaks of unknown on any failure; and a request to lock is taken
  for the lock (`asked`);
- a bus that is open when `_connect_and_listen` fails or is cancelled, and a Windows
  thread that registers after it was given up (`abandoned`);
- a session that ends before its loop begins: a constructor that raises once it has the
  observer (`session.py:80-110`, a grace of NaN, say) and a source that fails to start
  (`:195`), and nobody closes what is open (`unstarted`); and one whose `source.stop()`
  does not return (`:326`, the ends `aborted` and `cut`). `session.py:77` says the
  observer is closed when `run()` ends;
- a monitor of the window started over one that runs (`doubled`): the confirmation of
  an armed start is a dialog with an event loop, in which the tray menu can start
  another, contrary to `app.py:423-426`;
- a device chosen in the window while a monitor runs, or in the tray where saving it
  failed (`drifted`); and a configuration that the next run refuses, by a pairing that
  failed where it is required, by the fit of the wizard, or because the user had made
  it so (`blamed`).

Of the tray and the window `ArmedDeathLocks` says nothing: they show that the monitor
died and lock nothing, where I1 of `docs/agent-team-plan.md:81-83` asks for a lock. A
constructor that raises is outside the `try` of `cli.py:346` and outside the property:
no monitor has run.

### What the assumptions of the instances check

TLC evaluates these over bounded inputs, whenever it runs the instance. `MCLock`:
`OneSpikeIsRejected` and `MediansAreBounded` (the smoother), `FitIsExact` and
`CalibrationFits` (the fit, and that its fallback always fits), `FoundAreInside` (the
threshold of "found" is never below that of "lost"), `PatienceIsWithinGrace` (the
controller's patience is at most the grace, and half of it but for the rounding:
`advmonitor.py:177-180` says "at most half", and a grace of 3 seconds gives 2),
`AnyCommandLocks` (one working command is enough, unless one before it raises
`OSError`, which `lock` does not handle), `OffIsCertain` (the radio is called off only
on evidence). `MCPresence`: `BlinkIsNoDeparture` (the second by which a slow Classic
read outlasts the tracker is below the least grace), `FallsBackToScanning`,
`ChosenByPrecedence`. `MCLife`: `AcceptedIsUsable`, `OnlyOneSidedIsNaN` (the fields
whose check a NaN passes, the grace among them), `ShownIsAccepted` (what the widgets
show and save is valid: they silently clamp a valid number beyond their range).
`FoundAreInside`, `PatienceIsWithinGrace` and the three of `MCLife` are also proved for
every number, of the same definitions.

### Bounds

`MCLock`: readings of 1, 2, 3 or none with return threshold and radius 2, so there is
one value on each side of both thresholds and one on the edge; ticks 1 or 2 seconds
apart, so a threshold can be hit exactly or passed; grace 2, return dwell 1, retry 2,
two locks per window of 7 and a cooldown of 7, so three departures with a retarget
between them fit in a window, the breaker trips, and the pause outlasts several retries
and ends. The radio is probed every other tick. Auto-unlock is off. `MCUnlock.cfg`: a
strictly close, a near and a far reading; a dwell of 2 against ticks of 1 or 2; an
expectation that expires between ticks; a breaker that trips at every lock.
`MCScan.cfg`: two devices, the chosen one and another, with no bound on callbacks or
retargets; two keepalives alive at once (`Beat`), the recorded one and one that was
dropped; a retarget may begin while the source starts and while it runs (`Choosing`), and
end at any time, in the awaits of `stop` too. The theorems hold for any `Beat` and
`Choosing`. `MCGatt.cfg`: two devices and any number of retargets; sleeps of 1 or 2
seconds and a reading of at most 1 against a window of 3, so that the relaxed pace just
fits (as 6 and 7 of 15 do in the code); a backoff that doubles once. `MCPresence`: the
code's numbers for the tracker and the Classic link (`StaleSeconds` 15, `ClassicPoll`
4, `CommandLimit` 5, `KillLimit` 2), so that a read just outlasts the window; for the
external signal an interval of 2 and a signal that counts for 17, so that a sample can
outlive its signal and the window. Three devices, so that one can be left for another
and that for a third. They are interchangeable, but for the one the external source
stands for (`SymmetricDevices`). `MCObserver.cfg`: three notices on their way at once
(`MaxNotices`), enough for two changes with a request between them, so that an order
that is not kept shows. `MCLife`: one process; two monitors (`Monitor`), so that a
second can be started over a first, or after it; the three kinds of file of `MCFound`,
beside none and an unreadable one; two devices. No other quantity is bounded.

`lock` and `unlock` deadlock never. A source ends after `stop` or a failed start, an
observer after `close` and a process when it exits, so the configurations of `scan`,
`gatt`, `external`, `observers` and `life` do not ask for a next step.

### Fairness

The runs with liveness properties assume weak fairness of the event loop: a tick
(`WF(Tick)`) or a task of the source (`WF(Task)`) that can go on does. For
`FollowsChoice` time passes too and `stop` goes on (`WF(Second)`, `WF(Stopping)`); the
awaits of the GATT task have timeouts except its `disconnect()`, which is taken to
return. In `LockObserver` the handler takes what has arrived and a cleanup that was
begun goes on: both are steps of a running event loop, message pump or run loop. In
`LifeCycle` a thread that runs goes on, a running monitor looks at its stop event (its
loop does so every tick), and a wait whose thread has ended returns; a quit whose waits
are over is carried out, or refused: Qt 6 closes the windows first, and `closeEvent`
ignores that while the tray icon is visible (`StaysInTray`); a scan and a sample have
time limits. Nothing is assumed of the user, the tray, the bus, the desktop or the OS.
That the lock command works when it is tried often enough is a hypothesis inside
`OwedLockFires` (`LockWorks`), and the same of the unlock command inside
`OwnLockReleased`.

## Proofs

The theorems hold for every value of the constants that satisfies the named
assumptions (`PresenceAssumption` and so on: what `Settings.validate` enforces,
with thresholds in whole units of time and distance).

- `SessionProofs`: `TypeCorrect`. The induction needs more than types: the timer
  is set exactly while leaving or returning, and a breaker with `MaxLocks` locks
  has tripped, without which one more lock could be registered. The cardinality
  lemmas are that ageing maps a set of locks onto one no larger, and that
  `Recent` adds at most one.
- `LockProofs`: `LocksWithinBudget` by `BudgetInv`: the issued locks of the last
  window are all among those the breaker holds, and none is younger than the one
  that tripped it, so a clean slate after a cooldown no shorter than the window
  forgets no lock that still counts. `OwedLocksStayPending` and
  `LocksAnswerDepartures` by `TrackInv`: the machine's state and timer say the
  same as the history of readings does, and a lock is pending exactly for an owed
  departure. `AnsweredDeparturesAreLocked` by `AnsweredInv`: an observation
  "locked" is stale only after an unlock. `SessionKeepsPromise`: every step of the
  session, with auto-unlock or without, is a step of `ProximityLock` or a stutter. It
  rests on the same invariants: `TrackInv` makes a due lock an owed one, and `BudgetInv`
  leaves room for it in the budget, by a count over the issued locks alone.
  `ForeignLocksAreKept` and `UnlocksFollowADwell` by `UnlockInv`, of the session with
  auto-unlock: `TakenIsConfused` says that a lock of the user's which the policy takes,
  or is about to take, for stavau's is one of the excused kind, and `DwellIsClose` that
  the dwell clock of the policy is no older than the spell of close readings, unless
  there was a tick that observed nothing.
- `ScanProofs`: type correctness of the advertisement-monitor source, its four safety
  invariants, and `DeafOnlyThen`. `HeldInv` follows a keepalive through the five
  statements of a retarget: while it is neither strayed nor ending it is recorded for
  the chosen device, or is the one the retarget has taken and will cancel; `OrphanInv`
  and `FallbackInv` say the same of its path and of the scans. `DeafOnlyThen` goes by
  the steps that could take away the monitor or the scan a source listens with.
  `StopLeavesNothing` needs that, outside the excused races, the number of running
  scans is the number the source knows of. `FoundIsNotLost` and `ControllerIsPatient`
  are about the controller's thresholds and its patience, for every distance model and
  every accepted grace.
- `GattProofs`: the safety properties of `gatt`. `FollowInv` says that a connection to
  another device than the chosen one is outdated, about to be, or torn, and that only a
  reading past its guard can still come from it; `SteadyInv` bounds the age of the
  latest sample at each point of the polling round; `FastInv` says that the backoff is
  the initial one until the first rest, unless the retarget that reset it came between
  the statements of the loop; `LinkInv` is about the recorded client.
- `ObserverProofs`: `LockedIsTrueAlways` by `TrueInv`: `LockedIsTrue` speaks of the
  last word on its way, not of the cached one, and is inductive for that once a bus
  disconnected by `close` is known to be one of a closed observer. `ObserversReport`
  shows that every step of every platform is a step of `LockReport` or a stutter, so no
  observer reports a word that nobody said, or two in another order.
- `SourceProofs`: the safety properties of the external source and of the other two.
  `EvidenceInv` bounds the age of the evidence by that of the stamp and of the latest
  sample; `DenialInv` says a sample younger than a denial was about to be pushed as it
  came; `LiveInv` that a latch live for longer than the sleep under way was live when
  the task last looked. `LeftDeviceFades` by `LeftInv`, which bounds the age of a stray
  sample by that of the choice and of the read in flight, and `AnsweringDeviceStays` by
  `AnsweredInv`, which follows the age of the latest sample through the two commands
  and the sleep. `SourcesCompose`: the composition keeps the specification of each of
  its parts, so all of these hold of it.
- `LifeProofs`: `SavedIsAcceptedAlways`, `MonitorsAreChosen` and `ArmedDeathIsAnswered`
  by `LifeInv`. Of some forty actions few touch the configuration, and few a monitor:
  `StepKeeps`, `StepMoves` and `StepShell` say which, and the inductive steps split on
  that. `InMemory` adds that the tray holds an accepted configuration, and the window
  one that is sound or blamed on a known step; `TrayKnows` that the tray's monitor
  tracks the device in the file even where the settings have gone astray.
  `NothingIsLeftBehind` adds four parts to it: `Closed` (what a session opened is
  closed where its loop ended and `source.stop()` returned), `Held` (the window knows
  the only session that is not over, and has let go of it when it waits for nothing
  else), `Helped` (scan and sample end before the window does) and `Gone` (any other
  command exits with its session). `LifeTypeCorrect` is its type correctness.
  `WidgetsKeepBounds`, `AcceptedNumbersAreUsable` and `NaNPassesOneSided` are about the
  numbers of a configuration, field by field from `BoundsOf`.

Every inductive invariant was model-checked before it was proved. Only
model-checked: the liveness properties (`OwedLockFires`, `OwnLockReleased`,
`Rescans`, `FollowsChoice`, `LockedIsTakenBack`, `ReleasedInTheEnd`, `QuitEnds`), which
are out of the prover's reach; and the assumptions about the smoother, the fit, the
lock commands, the radio's answers and the choice of a source. The first two are
recursive in their input; the others speak of small finite domains, which TLC exhausts.

## Not modelled, and the plan

Next:

1. The session's promises under an observer that only keeps `LockReport`, which may
   report late: which of `ForeignLockKept` and `PromiseIsKept` survive.
2. An abstract specification of a proximity source, which the scan, the GATT and the
   external source implement with their excused windows.

Not modelled:

- `MqttNotifier` (`core/integration.py`): it only sends. Its blocking first connect is
  a matter of how long a call takes, and is listed as a hazard.
- The event log (`core/events.py`): nothing reads it back into a decision. Rotation is
  a check and then an act, and two processes that rotate at once lose entries; the
  module's docstring has one process append, while the tray and the window append too.
- Widgets, pictures, texts and translations (`ui/gui/theme.py`, `i18n`), the parsing of
  external tools' output, and the D-Bus objects that carry a monitor's thresholds: they
  keep no state that a decision reads.
