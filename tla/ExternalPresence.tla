-------------------------- MODULE ExternalPresence --------------------------
(***************************************************************************)
(* ExternalPresenceSource over MqttPresenceBackend                         *)
(* (src/stavau/core/integration.py): a presence signal from an MQTT topic  *)
(* is latched by the client's thread, and a task of the event loop turns a *)
(* latch that is set and fresh into samples of the tracker.                *)
(***************************************************************************)
EXTENDS Tracker

CONSTANTS Person,         \* whoever the sensor reports, in place of a device
          PollInterval,   \* _poll_interval
          MaxAge          \* _max_age; 0 lets a signal count for ever

ASSUME PresenceSourceAssumption ==
  /\ Person \in Device
  /\ PollInterval \in Nat \ {0} /\ MaxAge \in Nat

VARIABLES
  phase,      \* where start() and stop() are
  pc,         \* where the task is
  present,    \* _present: "unknown" is None
  presentAt,  \* age of _present_at
  callback,   \* the statement the client's thread has reached in _on_present
  elapsed,    \* seconds since the task began its sleep
  client,     \* _client is set
  subscribed  \* external: the broker delivers the topic to this connection

latchVars == <<present, presentAt, callback>>
vars == <<tvars, phase, pc, latchVars, elapsed, client, subscribed>>

Signal == {"yes", "no", "unknown"}

TypeOK ==
  /\ TrackerTypeOK
  /\ phase \in {"new", "running", "failed", "stopped"}
  /\ pc \in {"none", "look", "push", "sleeping", "done"}
  /\ present \in Signal
  /\ presentAt \in Age(MaxAge + 1)
  /\ callback \in {"idle", "stamp"}
  /\ elapsed \in 0 .. PollInterval
  /\ client \in BOOLEAN /\ subscribed \in BOOLEAN
  /\ subscribed => client
  /\ callback = "stamp" => present = "yes"
  /\ phase \in {"new", "failed"} <=> pc = "none"
  /\ phase = "running" <=> pc \in {"look", "push", "sleeping"}

\* _present_at is 0.0, the instant the machine was started.
Init ==
  /\ NewTracker
  /\ phase = "new" /\ pc = "none"
  /\ present = "unknown" /\ presentAt \in Age(MaxAge + 1) /\ callback = "idle"
  /\ elapsed = 0 /\ client = FALSE /\ subscribed = FALSE

-----------------------------------------------------------------------------
(* start(), stop() and the task. *)

Start ==
  /\ phase = "new" /\ phase' = "running" /\ pc' = "look"
  /\ client' = TRUE /\ subscribed' = TRUE
  /\ UNCHANGED <<tvars, latchVars, elapsed>>

\* paho is not installed: presence stays unknown.
StartWithoutClient ==
  /\ phase = "new" /\ phase' = "running" /\ pc' = "look"
  /\ UNCHANGED <<tvars, latchVars, elapsed, client, subscribed>>

\* connect() raises, out of start().
StartFails ==
  /\ phase = "new" /\ phase' = "failed" /\ client' = TRUE
  /\ UNCHANGED <<tvars, pc, latchVars, elapsed, subscribed>>

\* Fault variant: a signal that was present once counts for ever.
FreshForGood == TRUE

Fresh == MaxAge = 0 \/ presentAt <= MaxAge

Live == present = "yes" /\ Fresh

Look ==
  /\ pc = "look"
  /\ pc' = IF Live THEN "push" ELSE "sleeping"
  /\ elapsed' = 0
  /\ UNCHANGED <<tvars, phase, latchVars, client, subscribed>>

\* Fault variant: the sample is stamped with the time of the signal.
SampleOfSignal ==
  /\ pc = "push" /\ pc' = "sleeping"
  /\ PushStamped(Person, presentAt)
  /\ UNCHANGED <<phase, latchVars, elapsed, client, subscribed>>

Sample ==
  /\ pc = "push" /\ pc' = "sleeping"
  /\ Push(Person)
  /\ UNCHANGED <<phase, latchVars, elapsed, client, subscribed>>

Wakes ==
  /\ pc = "sleeping" /\ elapsed = PollInterval /\ pc' = "look"
  /\ UNCHANGED <<tvars, phase, latchVars, elapsed, client, subscribed>>

\* The task is cancelled in its sleep, or before it goes on; the backend joins the
\* client's thread and leaves the broker.
Stop ==
  /\ phase = "running" /\ pc \in {"look", "sleeping"} /\ callback = "idle"
  /\ phase' = "stopped" /\ pc' = "done"
  /\ client' = FALSE /\ subscribed' = FALSE
  /\ present' = IF client THEN "unknown" ELSE present
  /\ UNCHANGED <<tvars, presentAt, callback, elapsed>>

-----------------------------------------------------------------------------
(* The client's thread. *)

\* Fault variant: every signal renews the stamp.
MessageAlwaysStamps(signal) ==
  /\ subscribed /\ callback = "idle"
  /\ present' = signal /\ callback' = "stamp"
  /\ UNCHANGED <<tvars, phase, pc, presentAt, elapsed, client, subscribed>>

\* _handle_message, and the first statement of _on_present ...
Message(signal) ==
  /\ subscribed /\ callback = "idle"
  /\ present' = signal
  /\ callback' = IF signal = "yes" THEN "stamp" ELSE "idle"
  /\ UNCHANGED <<tvars, phase, pc, presentAt, elapsed, client, subscribed>>

\* ... and its second.
Stamp ==
  /\ callback = "stamp" /\ callback' = "idle"
  /\ presentAt' = 0
  /\ UNCHANGED <<tvars, phase, pc, present, elapsed, client, subscribed>>

\* Fault variant: the loss of the connection leaves the latch as it was.
ConnectionLostUnnoticed ==
  /\ subscribed /\ callback = "idle" /\ subscribed' = FALSE
  /\ UNCHANGED <<tvars, phase, pc, latchVars, elapsed, client>>

\* The client reconnects by itself, but subscribe() was called once: the broker
\* delivers nothing to the new connection.
ConnectionLost ==
  /\ subscribed /\ callback = "idle" /\ subscribed' = FALSE
  /\ present' = "unknown"
  /\ UNCHANGED <<tvars, phase, pc, presentAt, callback, elapsed, client>>

\* A second passes: neither thread stays that long between two statements.
Second ==
  /\ pc \notin {"look", "push"} /\ callback = "idle"
  /\ pc = "sleeping" => elapsed < PollInterval
  /\ TrackerAges(1)
  /\ presentAt' = Older(presentAt, 1, MaxAge + 1)
  /\ elapsed' = IF pc = "sleeping" THEN elapsed + 1 ELSE elapsed
  /\ UNCHANGED <<phase, pc, present, callback, client, subscribed>>

Next ==
  \/ Start \/ StartWithoutClient \/ StartFails
  \/ Look \/ Sample \/ Wakes \/ Stop
  \/ (\E signal \in Signal : Message(signal)) \/ Stamp \/ ConnectionLost
  \/ Second

Spec == Init /\ [][Next]_vars
=============================================================================
