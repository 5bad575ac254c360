---------------------------- MODULE MonitorThread ----------------------------
(***************************************************************************)
(* A MonitorSession from its construction to its end, as the program that  *)
(* holds it sees it (src/stavau/core/session.py): what it opens, which     *)
(* device it tracks, and how it ends.  What it does in between is the      *)
(* matter of module Session.                                               *)
(***************************************************************************)
EXTENDS Settings, FiniteSets

CONSTANT Monitor   \* bound: the sessions one process may make

ASSUME MonitorAssumption == IsFiniteSet(Monitor) /\ Monitor # {}

VARIABLES
  pc,       \* where each session is
  stop,     \* the sessions that go on although their stop event is set
  tracks,   \* the device the source of a session that goes on looks for
  opened    \* the sessions whose observer and notifier are open

monitorVars == <<pc, stop, tracks, opened>>

Live == {"starting", "running"}
\* The last two: source.stop(), which comes first in the finally, raised or was cancelled.
Over == {"ended", "died", "aborted", "cut"}
Dead == {"died", "aborted"}

MonitorTypeOK ==
  /\ pc \in [Monitor -> {"unused", "building"} \cup Live \cup Over]
  /\ stop \subseteq Monitor
  /\ tracks \in [Monitor -> Device \cup {NoDevice}]
  /\ opened \subseteq Monitor
  /\ \A m \in Monitor : pc[m] \in Live => m \in opened

NoMonitor ==
  /\ pc = [m \in Monitor |-> "unused"]
  /\ stop = {} /\ opened = {}
  /\ tracks = [m \in Monitor |-> NoDevice]

Goes(m, there) == pc' = [pc EXCEPT ![m] = there]

\* A session is about to be constructed.
Begins(m) ==
  /\ pc[m] = "unused" /\ Goes(m, "building")
  /\ UNCHANGED <<stop, tracks, opened>>

\* __init__: the observer, the source of the configured device, the notifier.
Built(m) ==
  /\ pc[m] = "building" /\ Goes(m, "starting")
  /\ tracks' = [tracks EXCEPT ![m] = memory.device]
  /\ opened' = opened \cup {m}
  /\ UNCHANGED stop

SourceStarts(m) ==
  /\ pc[m] = "starting" /\ Goes(m, "running")
  /\ UNCHANGED <<stop, tracks, opened>>

\* The session is over, and has closed what it opened or has not.
IsOver(m, how, closes) ==
  /\ Goes(m, how)
  /\ stop' = stop \ {m} /\ tracks' = [tracks EXCEPT ![m] = NoDevice]
  /\ opened' = IF closes THEN opened \ {m} ELSE opened

\* __init__ raises: the observer of macOS may, and then nothing is open; what comes after
\* the observer may, and nobody closes it.
BuildFails(m) ==
  /\ pc[m] = "building" /\ Goes(m, "ended")
  /\ stop' = stop \ {m} /\ opened' \in {opened, opened \cup {m}}
  /\ UNCHANGED tracks

\* source.start() raises, outside the try: nothing is closed.
SourceFails(m) == pc[m] = "starting" /\ IsOver(m, "died", FALSE)

\* The loop ends for the stop event, and for an exception, through its finally; the await
\* of source.stop() in it is part of the step.
Stops(m) == pc[m] = "running" /\ m \in stop /\ IsOver(m, "ended", TRUE)

\* Fault variant: an exception of the loop leaves what it opened.
DiesOpen(m) == pc[m] = "running" /\ IsOver(m, "died", FALSE)

Dies(m) == pc[m] = "running" /\ IsOver(m, "died", TRUE)

\* However the loop ended: source.stop() raises (advmonitor.py:288, monitor.py:242), and
\* the statements of the finally that follow it are not reached.
StopRaises(m) == pc[m] = "running" /\ IsOver(m, "aborted", FALSE)

AskToStop(m) == stop' = stop \cup {m}

\* MonitorSession.retarget, from another thread.
Retargets(m, device) ==
  /\ tracks' = [tracks EXCEPT ![m] = device]
  /\ UNCHANGED <<pc, stop, opened>>
=============================================================================
