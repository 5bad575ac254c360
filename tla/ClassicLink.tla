----------------------------- MODULE ClassicLink -----------------------------
(***************************************************************************)
(* ClassicLinkSource and its backends (src/stavau/core/classic.py): a task *)
(* that reads, pushes what it has read, and sleeps.  On Linux a read is    *)
(* two commands, each killed when its time is up; on Windows it is a call  *)
(* without a limit.                                                        *)
(***************************************************************************)
EXTENDS RadioTracker

CONSTANTS
  ClassicPoll,    \* _poll_interval
  CommandLimit,   \* the timeout of l2ping, and of hcitool
  KillLimit       \* the wait for a command that was killed

ASSUME ClassicAssumption ==
  ClassicPoll \in Nat /\ CommandLimit \in Nat /\ KillLimit \in Nat

VARIABLES
  backend,   \* "hcitool" or "winrt", when the source is this one
  stage,     \* where _poll_loop is
  about,     \* the device the read in flight is about
  spent      \* seconds since the command, or the sleep, began

classicVars == <<backend, stage, about, spent>>

StageLimit == ClassicPoll + CommandLimit + KillLimit   \* no stage lasts longer

ClassicTypeOK ==
  /\ backend \in {"none", "hcitool", "winrt"}
  /\ stage \in {"none", "ping", "rssi", "sleep", "done"}
  /\ about \in Device
  /\ spent \in 0 .. StageLimit + 1

NoClassic == backend = "none" /\ stage = "none" /\ about \in Device /\ spent = 0

Reaches(there) == stage' = there /\ spent' = 0

-----------------------------------------------------------------------------

ClassicStarts ==
  /\ backend # "none" /\ stage = "none"
  /\ Reaches("ping") /\ about' = address
  /\ UNCHANGED <<radioVars, backend>>

\* The device answers l2ping in time; on Windows it is connected, and that is a sample.
Answers ==
  /\ stage = "ping"
  /\ IF backend = "hcitool"
     THEN spent <= CommandLimit /\ Reaches("rssi") /\ UNCHANGED <<samples, freshness>>
     ELSE Reaches("sleep") /\ Feed!Push(about)
  /\ UNCHANGED <<address, choosing, backend, about>>

\* hcitool's reading, or the middle of the range where it gives none in time.
Measured ==
  /\ stage = "rssi" /\ Reaches("sleep")
  /\ Feed!Push(about)
  /\ UNCHANGED <<address, choosing, backend, about>>

\* The device does not answer, or the backend raises.
NoAnswer ==
  /\ stage \in {"ping", "rssi"} /\ Reaches("sleep")
  /\ UNCHANGED <<radioVars, backend, about>>

\* Fault variant: the next read is of the device of the read before.
WakesForSame ==
  /\ stage = "sleep" /\ spent = ClassicPoll
  /\ Reaches("ping") /\ UNCHANGED <<radioVars, backend, about>>

ClassicWakes ==
  /\ stage = "sleep" /\ spent = ClassicPoll
  /\ Reaches("ping") /\ about' = address
  /\ UNCHANGED <<radioVars, backend>>

ClassicStops ==
  /\ stage \in {"ping", "rssi", "sleep"} /\ stage' = "done"
  /\ UNCHANGED <<radioVars, backend, about, spent>>

\* Fault variant: a command that was killed is waited for without a limit.
TimeLeftWedged == stage = "sleep" => spent < ClassicPoll

\* _run: a command takes no longer than its timeout and the wait for its end.
TimeLeft ==
  /\ stage = "sleep" => spent < ClassicPoll
  /\ stage \in {"ping", "rssi"} /\ backend = "hcitool" => spent < CommandLimit + KillLimit

ClassicSecond ==
  /\ TimeLeft /\ ~choosing
  /\ Feed!TrackerAges(1)
  /\ spent' = IF stage \in {"none", "done"} THEN spent ELSE Older(spent, 1, StageLimit + 1)
  /\ UNCHANGED <<address, choosing, backend, stage, about>>

ClassicNext ==
  \/ ClassicStarts \/ Answers \/ Measured \/ NoAnswer
  \/ ClassicWakes \/ ClassicStops
  \/ ClassicSecond
=============================================================================
