------------------------------ MODULE GattLink ------------------------------
(***************************************************************************)
(* GattLinkSource (src/stavau/core/gattlink.py): a task that holds a       *)
(* connection to the device, reads its signal at an adaptive pace into the *)
(* tracker, and reconnects with a backoff.                                 *)
(*                                                                         *)
(* The task runs on the event loop; the tray menu retargets from a thread  *)
(* of its own (tray.py, session.retarget), so an action is what the task   *)
(* does between two points at which that thread may be seen.               *)
(***************************************************************************)
EXTENDS Tracker

CONSTANTS NoDevice,         \* None
          BasePoll, RelaxedPoll, StrongStreak,
          ReadTimeout,      \* the longest a reading takes: 5 s of hcitool, 2 s to kill it
          BackoffInitial, BackoffMax

ASSUME GattAssumption ==
  /\ NoDevice \notin Device
  /\ BasePoll \in Nat /\ RelaxedPoll \in Nat /\ BasePoll <= RelaxedPoll
  /\ StrongStreak \in Nat \ {0}
  /\ ReadTimeout \in Nat
  /\ BackoffInitial \in Nat /\ BackoffMax \in Nat /\ BackoffInitial <= BackoffMax

VARIABLES
  phase,     \* where start() and stop() are
  pc,        \* where the task is
  address,   \* _address
  wanted,    \* the task's `address`
  turned,    \* _generation # generation_before
  outdated,  \* _generation # generation
  client,    \* the device of _client
  backoff,   \* _backoff
  strong,    \* how many readings at the end of _recent are strong, at most StrongStreak
  delay,     \* the task's `delay`: the length of its sleep
  doubled,   \* what line 282 has read and doubled, before it is stored
  elapsed,   \* seconds since the task began its sleep or its reading
  tray,      \* the statement the tray's thread has reached in retarget()
  linked     \* external: the radio link to `wanted` is up

loopVars == <<pc, wanted, turned, outdated, client, delay, doubled, elapsed>>
vars == <<tvars, phase, loopVars, address, backoff, strong, tray, linked>>

Sleeping == {"polling", "resting"}
Awaits == {"connecting", "reading", "dropping"} \cup Sleeping
BackingOff == {"delay", "double", "store"}
Statements == {"top", "address", "generation", "check", "push", "after"} \cup BackingOff

TypeOK ==
  /\ TrackerTypeOK
  /\ phase \in {"new", "running", "cancelled", "disconnecting", "stopped"}
  /\ pc \in {"none", "done"} \cup Statements \cup Awaits
  /\ address \in Device /\ wanted \in Device
  /\ turned \in BOOLEAN /\ outdated \in BOOLEAN /\ linked \in BOOLEAN
  /\ client \in {NoDevice, wanted}
  /\ backoff \in BackoffInitial .. BackoffMax /\ doubled \in BackoffInitial .. BackoffMax
  /\ strong \in 0 .. StrongStreak
  /\ delay \in Nat /\ elapsed \in Nat
  /\ pc \in Sleeping => elapsed <= delay
  /\ pc = "reading" => elapsed <= ReadTimeout
  /\ tray \in {"idle", "generation", "forget", "reset"}
  /\ phase = "new" <=> pc = "none"
  /\ phase \in {"disconnecting", "stopped"} => pc = "done"
  /\ phase = "cancelled" => pc \in {"dropping", "done"}
  /\ pc \in {"check", "reading", "push", "polling", "dropping"} => client = wanted
  /\ pc \in BackingOff \cup {"none", "top", "address", "generation", "connecting", "after",
                           "resting"}
       => client = NoDevice

Init ==
  /\ NewTracker
  /\ phase = "new" /\ pc = "none"
  /\ address \in Device /\ wanted = address
  /\ turned = FALSE /\ outdated = FALSE
  /\ client = NoDevice /\ backoff = BackoffInitial /\ strong = 0
  /\ delay = 0 /\ doubled = backoff /\ elapsed = 0
  /\ tray = "idle" /\ linked = FALSE

-----------------------------------------------------------------------------
(* _run_loop() and _connect_and_poll(). *)

Start ==
  /\ phase = "new" /\ phase' = "running" /\ pc' = "top"
  /\ UNCHANGED <<tvars, address, wanted, turned, outdated, client, backoff, strong,
                 delay, doubled, elapsed, tray, linked>>

Begin ==
  /\ pc = "top" /\ pc' = "address" /\ turned' = FALSE
  /\ UNCHANGED <<tvars, phase, address, wanted, outdated, client, backoff, strong,
                 delay, doubled, elapsed, tray, linked>>

TakeAddress ==
  /\ pc = "address" /\ pc' = "generation" /\ wanted' = address
  /\ UNCHANGED <<tvars, phase, address, turned, outdated, client, backoff, strong,
                 delay, doubled, elapsed, tray, linked>>

TakeGeneration ==
  /\ pc = "generation" /\ pc' = "connecting" /\ outdated' = FALSE
  /\ UNCHANGED <<tvars, phase, address, wanted, turned, client, backoff, strong, delay,
                 doubled, elapsed, tray, linked>>

\* Fault variant: a connection does not end the backoff.
ConnectedStillBackingOff ==
  /\ pc = "connecting" /\ pc' = "check"
  /\ client' = wanted /\ linked' = TRUE
  /\ strong' = 0
  /\ UNCHANGED <<tvars, phase, address, wanted, turned, outdated, backoff, delay,
                 doubled, elapsed, tray>>

Connected ==
  /\ pc = "connecting" /\ pc' = "check"
  /\ client' = wanted /\ linked' = TRUE
  /\ backoff' = BackoffInitial /\ strong' = 0
  /\ UNCHANGED <<tvars, phase, address, wanted, turned, outdated, delay, doubled,
                 elapsed, tray>>

\* Refused, or timed out.
ConnectFails ==
  /\ pc = "connecting" /\ pc' = "after"
  /\ UNCHANGED <<tvars, phase, address, wanted, turned, outdated, client, backoff,
                 strong, delay, doubled, elapsed, tray, linked>>

\* The condition of the polling loop.
Check ==
  /\ pc = "check"
  /\ pc' = IF ~outdated /\ linked THEN "reading" ELSE "dropping"
  /\ elapsed' = 0
  /\ UNCHANGED <<tvars, phase, address, wanted, turned, outdated, client, backoff,
                 strong, delay, doubled, tray, linked>>

\* Fault variant: the generation is not compared after the await.
ReadsUnguarded ==
  /\ pc = "reading" /\ pc' = "push"
  /\ UNCHANGED <<tvars, phase, address, wanted, turned, outdated, client, backoff,
                 strong, delay, doubled, elapsed, tray, linked>>

\* The awaited reading is a number ...
Reads ==
  /\ pc = "reading"
  /\ pc' = IF outdated THEN "dropping" ELSE "push"
  /\ UNCHANGED <<tvars, phase, address, wanted, turned, outdated, client, backoff,
                 strong, delay, doubled, elapsed, tray, linked>>

\* ... or None, or an exception.
ReadsNothing ==
  /\ pc = "reading"
  /\ IF outdated
     THEN pc' = "dropping" /\ UNCHANGED <<strong, delay>>
     ELSE pc' = "polling" /\ strong' = 0 /\ delay' = BasePoll
  /\ elapsed' = 0
  /\ UNCHANGED <<tvars, phase, address, wanted, turned, outdated, client, backoff,
                 doubled, tray, linked>>

\* choose_poll_interval
PollInterval(streak) == IF streak >= StrongStreak THEN RelaxedPoll ELSE BasePoll

Streak(isStrong) ==
  IF ~isStrong THEN 0 ELSE IF strong < StrongStreak THEN strong + 1 ELSE strong

\* Fault variant: the sample is stamped with the time at which the reading began.
SampleStampedEarly(isStrong) ==
  /\ pc = "push" /\ pc' = "polling"
  /\ strong' = Streak(isStrong)
  /\ PushStamped(wanted, elapsed)
  /\ delay' = PollInterval(strong') /\ elapsed' = 0
  /\ UNCHANGED <<phase, address, wanted, turned, outdated, client, backoff, doubled,
                 tray, linked>>

Sample(isStrong) ==
  /\ pc = "push" /\ pc' = "polling"
  /\ strong' = Streak(isStrong)
  /\ Push(wanted)
  /\ delay' = PollInterval(strong') /\ elapsed' = 0
  /\ UNCHANGED <<phase, address, wanted, turned, outdated, client, backoff, doubled,
                 tray, linked>>

Wakes ==
  /\ pc \in Sleeping /\ elapsed = delay
  /\ pc' = IF pc = "polling" THEN "check" ELSE "top"
  /\ UNCHANGED <<tvars, phase, address, wanted, turned, outdated, client, backoff,
                 strong, delay, doubled, elapsed, tray, linked>>

\* Fault variant: the client stays recorded after its disconnect.
DroppedKeepsClient ==
  /\ pc = "dropping"
  /\ pc' = IF phase = "running" THEN "after" ELSE "done"
  /\ linked' = FALSE
  /\ UNCHANGED <<tvars, phase, address, wanted, turned, outdated, client, backoff,
                 strong, delay, doubled, elapsed, tray>>

\* The finally clause: its disconnect() returns, or raises and is suppressed.  A
\* cancelled task ends here.
Dropped ==
  /\ pc = "dropping"
  /\ pc' = IF phase = "running" THEN "after" ELSE "done"
  /\ client' = NoDevice /\ linked' = FALSE
  /\ UNCHANGED <<tvars, phase, address, wanted, turned, outdated, backoff, strong,
                 delay, doubled, elapsed, tray>>

\* The generation is compared ...
AfterAttempt ==
  /\ pc = "after"
  /\ pc' = IF turned THEN "top" ELSE "delay"
  /\ UNCHANGED <<tvars, phase, address, wanted, turned, outdated, client, backoff,
                 strong, delay, doubled, elapsed, tray, linked>>

\* ... the backoff is read for the sleep ...
TakeDelay ==
  /\ pc = "delay" /\ pc' = "double" /\ delay' = backoff
  /\ UNCHANGED <<tvars, phase, address, wanted, turned, outdated, client, backoff,
                 strong, doubled, elapsed, tray, linked>>

\* ... read once more and doubled ...
Double ==
  /\ pc = "double" /\ pc' = "store"
  /\ doubled' = IF backoff * 2 < BackoffMax THEN backoff * 2 ELSE BackoffMax
  /\ UNCHANGED <<tvars, phase, address, wanted, turned, outdated, client, backoff,
                 strong, delay, elapsed, tray, linked>>

\* ... and stored, over what the tray's thread may have written since: the task sleeps.
Rest ==
  /\ pc = "store" /\ pc' = "resting" /\ backoff' = doubled /\ elapsed' = 0
  /\ UNCHANGED <<tvars, phase, address, wanted, turned, outdated, client, strong, delay,
                 doubled, tray, linked>>

-----------------------------------------------------------------------------
(* retarget(), statement by statement, in the tray's thread. *)

Choose(d) ==
  /\ tray = "idle" /\ tray' = "generation"
  /\ address' = d
  /\ UNCHANGED <<tvars, phase, loopVars, backoff, strong, linked>>

\* Fault variant: the connection in use is not told.
NoNewGeneration ==
  /\ tray = "generation" /\ tray' = "forget"
  /\ UNCHANGED <<tvars, phase, loopVars, address, backoff, strong, linked>>

NewGeneration ==
  /\ tray = "generation" /\ tray' = "forget"
  /\ turned' = TRUE /\ outdated' = TRUE
  /\ UNCHANGED <<tvars, phase, pc, wanted, client, delay, doubled, elapsed, address,
                 backoff, strong, linked>>

Forget ==
  /\ tray = "forget" /\ tray' = "reset"
  /\ backoff' = BackoffInitial /\ strong' = 0
  /\ UNCHANGED <<tvars, phase, loopVars, address, linked>>

\* MonitorSession.retarget resets the tracker next.
ResetTracker ==
  /\ tray = "reset" /\ tray' = "idle"
  /\ Reset
  /\ UNCHANGED <<phase, loopVars, address, backoff, strong, linked>>

-----------------------------------------------------------------------------
(* stop() *)

\* The task is cancelled in its await: inside the polling loop the finally clause
\* still runs, and inside that clause it does not get past the disconnect().
Stop ==
  /\ phase \in {"new", "running"} /\ pc \in {"none"} \cup Awaits
  /\ phase' = "cancelled"
  /\ pc' = IF pc \in {"reading", "polling"} THEN "dropping" ELSE "done"
  /\ UNCHANGED <<tvars, address, wanted, turned, outdated, client, backoff, strong,
                 delay, doubled, elapsed, tray, linked>>

\* wait_for gives up after five seconds and cancels once more.
GiveUp ==
  /\ phase = "cancelled" /\ pc = "dropping" /\ pc' = "done"
  /\ UNCHANGED <<tvars, phase, address, wanted, turned, outdated, client, backoff,
                 strong, delay, doubled, elapsed, tray, linked>>

\* Fault variant: the client of a task cancelled while it disconnects is forgotten.
JoinedOnly ==
  /\ phase = "cancelled" /\ pc = "done" /\ phase' = "stopped"
  /\ client' = NoDevice
  /\ UNCHANGED <<tvars, pc, address, wanted, turned, outdated, backoff, strong, delay,
                 doubled, elapsed, tray, linked>>

Joined ==
  /\ phase = "cancelled" /\ pc = "done"
  /\ phase' = IF client = NoDevice THEN "stopped" ELSE "disconnecting"
  /\ client' = NoDevice
  /\ UNCHANGED <<tvars, pc, address, wanted, turned, outdated, backoff, strong, delay,
                 doubled, elapsed, tray, linked>>

Disconnected ==
  /\ phase = "disconnecting" /\ phase' = "stopped" /\ linked' = FALSE
  /\ UNCHANGED <<tvars, loopVars, address, backoff, strong, tray>>

-----------------------------------------------------------------------------

LinkLost ==
  /\ linked /\ linked' = FALSE
  /\ UNCHANGED <<tvars, phase, loopVars, address, backoff, strong, tray>>

\* A second passes: the task runs its statements at once, sleeps as long as it
\* asked to, and a reading that takes longer than its timeout is none.
Second ==
  /\ pc \notin Statements
  /\ pc \in Sleeping => elapsed < delay
  /\ pc = "reading" => elapsed < ReadTimeout
  /\ TrackerAges(1)
  /\ elapsed' = IF pc \in Sleeping \cup {"reading"} THEN elapsed + 1 ELSE elapsed
  /\ UNCHANGED <<phase, pc, wanted, turned, outdated, client, delay, doubled, address,
                 backoff, strong, tray, linked>>

Attempt == Begin \/ TakeAddress \/ TakeGeneration \/ Connected \/ ConnectFails
Poll == Check \/ Reads \/ ReadsNothing \/ (\E s \in BOOLEAN : Sample(s)) \/ Wakes
Backoff == AfterAttempt \/ TakeDelay \/ Double \/ Rest
Task == Attempt \/ Poll \/ Dropped \/ Backoff
Tray == (\E d \in Device : Choose(d)) \/ NewGeneration \/ Forget \/ ResetTracker
Stopping == GiveUp \/ Joined \/ Disconnected

Next == Start \/ Task \/ Tray \/ Stop \/ Stopping \/ LinkLost \/ Second

Spec == Init /\ [][Next]_vars

\* The event loop runs the task and stop() on, and time passes.  The awaits of the
\* task have timeouts, and disconnect() is taken to return.
Fairness == WF_vars(Task) /\ WF_vars(Stopping) /\ WF_vars(Second)
=============================================================================
