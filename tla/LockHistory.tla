---------------------------- MODULE LockHistory ----------------------------
(***************************************************************************)
(* The promise of proximity locking, stated over a history of the session: *)
(* what the readings alone say about departures, and every lock issued.    *)
(* The history variables watch the steps of Session and never guard one.   *)
(***************************************************************************)
EXTENDS Session

VARIABLES
  farFor,     \* age of the first of the latest run of readings beyond the radius
  backFor,    \* age of the first of the latest run of readings within return
  departure,  \* what the readings say is due, see Departed below
  excused,    \* since that was answered the OS dropped the lock or someone unlocked
  issued      \* ages, below Window, of the locks issued

hist == <<farFor, backFor, departure, excused, issued>>
hvars == <<vars, hist>>

HInit ==
  /\ Init
  /\ farFor = None /\ backFor = None
  /\ departure = "home" /\ excused = FALSE /\ issued = {}

\* The run of readings for which `holds`, extended by the reading being acted on.
Run(since, holds) == IF ~holds THEN None ELSE IF since = None THEN 0 ELSE since

\* What this tick's reading makes of the departure:
\*   home      the device has not been away for Grace, or it came back for ReturnDwell
\*   owed      it left and a lock is due
\*   blipped   a lock is due and the device was within return for a moment
\*   answered  the lock was issued, or the screen was seen locked
Departed ==
  IF departure = "home"
  THEN IF Beyond(reading) /\ farFor # None /\ farFor >= Grace THEN "owed" ELSE "home"
  ELSE IF WithinReturn(reading) /\ backFor # None /\ backFor >= ReturnDwell THEN "home"
       ELSE IF departure = "owed" /\ WithinReturn(reading) THEN "blipped"
            ELSE departure

HPoll ==
  \E gap \in Gaps, seen \in Observation, d \in Reading :
    /\ Poll(gap, seen, d)
    /\ farFor' = OlderOrNone(farFor, gap, Grace)
    /\ backFor' = OlderOrNone(backFor, gap, ReturnDwell)
    /\ issued' = {a \in AgeLocks(issued, gap) : a < Window}
    /\ excused' = (excused /\ departure = "answered")
    /\ UNCHANGED departure

HProbe == (\E answer \in RadioState : Probe(answer)) /\ UNCHANGED hist

HRead ==
  /\ farFor' = Run(farFor, Beyond(reading))
  /\ backFor' = Run(backFor, WithinReturn(reading))

Opened == screen # "open" /\ screen' = "open"

HQuiet ==
  /\ NothingDue \/ Suppressed \/ LockFails
  /\ HRead /\ departure' = Departed
  /\ excused' = (excused \/ Opened) /\ UNCHANGED issued

HSkip ==
  /\ SkippedLocked
  /\ HRead /\ departure' = "answered"
  /\ excused' = (excused \/ Opened) /\ UNCHANGED issued

HLock ==
  /\ LockSucceeds
  /\ HRead /\ departure' = "answered"
  /\ issued' = issued \cup {0} /\ UNCHANGED excused

HScreen ==
  /\ UserLocks \/ UserUnlocks \/ LockTakesEffect \/ LockLost
  /\ excused' = (excused \/ Opened \/ (request /\ ~request' /\ UNCHANGED screen))
  /\ UNCHANGED <<farFor, backFor, departure, issued>>

HRetarget ==
  /\ Retarget
  /\ farFor' = None /\ backFor' = None
  /\ departure' = "home" /\ UNCHANGED <<excused, issued>>

HNext == HPoll \/ HProbe \/ HQuiet \/ HSkip \/ HLock \/ HScreen \/ HRetarget

HSpec == HInit /\ [][HNext]_hvars

\* The event loop always gets to its next step.
LoopFairness == WF_vars(Tick)

HFairSpec == HSpec /\ LoopFairness

-----------------------------------------------------------------------------
(* Properties. *)

HTypeOK ==
  /\ TypeOK
  /\ farFor \in AgeOrNone(Grace) /\ backFor \in AgeOrNone(ReturnDwell)
  /\ departure \in {"home", "owed", "blipped", "answered"}
  /\ excused \in BOOLEAN
  /\ issued \subseteq 0 .. Window - 1

\* Anti-runaway (breaker.py, threat T10): with a cooldown no shorter than the
\* window, any half-open window of time holds at most MaxLocks issued locks, the
\* clean slate after a cooldown and the retries of a suppressed lock included.
AtMostMaxLocksPerWindow == Cooldown >= Window => Cardinality(issued) <= MaxLocks

\* A lock command is issued, or tried again, only to answer a departure: the
\* device was beyond the radius for the whole grace period, has not been within
\* the return threshold since, and no earlier lock answered that departure.
LockAnswersDeparture ==
  [][LockSucceeds \/ LockFails => Departed = "owed"]_hvars

\* A departure whose lock failed or fell into a pause is never forgotten while
\* the device stays out of the return threshold (session.py:258-263).
OwedLockPending == pc = "poll" /\ departure = "owed" => pending # None

\* Once a departure counts as answered the screen is locked or the OS has
\* accepted a lock, unless after that tick's observation someone unlocked it or
\* the OS dropped the request: a skipped lock is never a missing one.
AnsweredDepartureIsLocked ==
  departure = "answered" => screen # "open" \/ request \/ excused

Promise == INSTANCE ProximityLock
             WITH seen <- observed = "locked",
                  far <- farFor # None /\ farFor >= Grace,
                  recent <- issued,
                  Limited <- Cooldown >= Window

\* README.md:56-57 and 69-70, whatever it takes to keep it: one lock for one departure,
\* so none outlives a return or a retarget; none of a screen seen locked; and no unlock
\* of one that was not.
PromiseIsKept == Promise!Spec

\* With a lock command that works when tried often enough, a pending lock is
\* issued or found done, or the device comes back, pauses of the breaker included.
LockWorks == SF_vars(LockSucceeds \/ SkippedLocked)
OwedLockFires ==
  LockWorks => (departure = "owed" ~> departure # "owed")

\* session.py:258-263 and presence.py:17 say it of every departure; the run
\* that checks it finds the one it does not hold for.
OwedLockRemembered ==
  pc = "poll" /\ pstate = "away" /\ Beyond(reading)
    /\ departure \in {"owed", "blipped"} => pending # None

-----------------------------------------------------------------------------
(* Why the safety properties hold: the inductive invariants of LockProofs. *)

\* Every lock of the last Window is one the breaker still holds, and none was
\* issued after the one that tripped it.
BudgetInv ==
  Cooldown >= Window =>
    /\ issued \subseteq lockTimes
    /\ tripped # None => \A a \in issued : a >= tripped

\* The machine's state and timer say what the readings say, and a lock is pending
\* exactly for a departure that is owed (or is about to be dropped by a retarget).
TrackInv ==
  /\ pstate = "near" => farFor = None
  /\ pstate = "leaving" => farFor = Older(timer, 0, Grace)
  /\ pstate = "away" => backFor = None
  /\ pstate = "returning" => backFor = Older(timer, 0, ReturnDwell)
  /\ departure = "home" <=> pstate \in {"near", "leaving"}
  /\ departure = "owed" => pstate = "away" /\ pending # None
  /\ pending # None => pstate = "near" \/ (pstate = "away" /\ departure = "owed")

\* An observation "locked" is stale only if someone has unlocked since.
AnsweredInv ==
  /\ AnsweredDepartureIsLocked
  /\ pc # "poll" /\ observed = "locked" => screen # "open" \/ excused
=============================================================================
