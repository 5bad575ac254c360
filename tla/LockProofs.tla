----------------------------- MODULE LockProofs -----------------------------
(***************************************************************************)
(* The safety half of the promises of the session, for every value of the  *)
(* thresholds.  Of proximity locking: the lock budget, the owed locks, what *)
(* a lock answers, and what an answered departure leaves on the screen.  Of *)
(* auto-unlock: whose lock it undoes, and after how long a dwell.          *)
(***************************************************************************)
EXTENDS LockHistory, UnlockHistory, SessionProofs

\* The history variables guard no step: LockHistory runs the session.
LEMMA HistoryStep == [HNext]_hvars => [Next]_vars
<1> SUFFICES ASSUME [HNext]_hvars PROVE [Next]_vars
  OBVIOUS
<1>1. CASE HPoll      BY <1>1 DEF HPoll, Next, Tick
<1>2. CASE HProbe     BY <1>2 DEF HProbe, Next, Tick
<1>3. CASE HQuiet     BY <1>3 DEF HQuiet, Next, Tick, Act
<1>4. CASE HSkip      BY <1>4 DEF HSkip, Next, Tick, Act
<1>5. CASE HLock      BY <1>5 DEF HLock, Next, Tick, Act
<1>6. CASE HScreen    BY <1>6 DEF HScreen, Next, Environment
<1>7. CASE HRetarget  BY <1>7 DEF HRetarget, Next, Environment
<1>8. CASE UNCHANGED hvars BY <1>8 DEF hvars
<1> QED BY <1>1, <1>2, <1>3, <1>4, <1>5, <1>6, <1>7, <1>8 DEF HNext

-----------------------------------------------------------------------------
(* Types. *)

HistoryTypeOK ==
  /\ farFor \in AgeOrNone(Grace) /\ backFor \in AgeOrNone(ReturnDwell)
  /\ departure \in {"home", "owed", "blipped", "answered"}
  /\ excused \in BOOLEAN
  /\ issued \subseteq 0 .. Window - 1

LEMMA RunType ==
  ASSUME NEW cap \in Nat, NEW since \in AgeOrNone(cap), NEW holds \in BOOLEAN
  PROVE  Run(since, holds) \in AgeOrNone(cap)
BY DEF Run, AgeOrNone, Age

LEMMA HReadType ==
  ASSUME HistoryTypeOK, HRead
  PROVE  farFor' \in AgeOrNone(Grace) /\ backFor' \in AgeOrNone(ReturnDwell)
<1>1. Beyond(reading) \in BOOLEAN /\ WithinReturn(reading) \in BOOLEAN
  BY DEF Beyond, WithinReturn
<1> QED BY <1>1, RunType, ConstantTypes DEF HistoryTypeOK, HRead

LEMMA DepartedType ==
  ASSUME HistoryTypeOK
  PROVE  Departed \in {"home", "owed", "blipped", "answered"}
BY DEF HistoryTypeOK, Departed

LEMMA HistoryTypeStep ==
  ASSUME TypeOK, HistoryTypeOK, [HNext]_hvars
  PROVE  HistoryTypeOK'
<1>1. CASE HPoll
  <2> PICK gap \in Gaps, seen \in Observation, d \in Reading :
        /\ Poll(gap, seen, d)
        /\ farFor' = OlderOrNone(farFor, gap, Grace)
        /\ backFor' = OlderOrNone(backFor, gap, ReturnDwell)
        /\ issued' = {a \in AgeLocks(issued, gap) : a < Window}
        /\ excused' = (excused /\ departure = "answered")
        /\ UNCHANGED departure
    BY <1>1 DEF HPoll
  <2>1. gap \in Nat
    BY ConstantTypes
  <2>2. farFor' \in AgeOrNone(Grace) /\ backFor' \in AgeOrNone(ReturnDwell)
    BY <2>1, OlderType, ConstantTypes DEF HistoryTypeOK
  <2>3. AgeLocks(issued, gap) \subseteq Nat
    <3>1. issued \subseteq Nat
      BY ConstantTypes DEF HistoryTypeOK
    <3>2. \A a \in issued : Older(a, gap, LockAgeCap) \in Nat
      BY <2>1, <3>1, CapNat DEF Older
    <3> QED BY <3>2 DEF AgeLocks
  <2>4. issued' \subseteq 0 .. Window - 1
    BY <2>3, ConstantTypes
  <2> QED BY <2>2, <2>4 DEF HistoryTypeOK
<1>2. CASE HProbe
  BY <1>2 DEF HProbe, hist, HistoryTypeOK
<1>3. CASE HQuiet
  BY <1>3, HReadType, DepartedType DEF HQuiet, HistoryTypeOK
<1>4. CASE HSkip
  BY <1>4, HReadType DEF HSkip, HistoryTypeOK
<1>5. CASE HLock
  <2>1. issued' \subseteq 0 .. Window - 1
    BY <1>5, ConstantTypes DEF HLock, HistoryTypeOK
  <2> QED BY <1>5, <2>1, HReadType DEF HLock, HistoryTypeOK
<1>6. CASE HScreen
  BY <1>6 DEF HScreen, HistoryTypeOK
<1>7. CASE HRetarget
  BY <1>7 DEF HRetarget, HistoryTypeOK, AgeOrNone
<1>8. CASE UNCHANGED hvars
  BY <1>8 DEF hvars, hist, HistoryTypeOK
<1> QED BY <1>1, <1>2, <1>3, <1>4, <1>5, <1>6, <1>7, <1>8 DEF HNext

\* Type correctness of the session with its history.
THEOREM HTypeCorrect == HSpec => []HTypeOK
<1>1. HInit => HTypeOK
  BY InitType, ConstantTypes DEF HInit, HTypeOK, AgeOrNone
<1>2. HTypeOK /\ [HNext]_hvars => HTypeOK'
  BY HistoryStep, NextType, HistoryTypeStep DEF HTypeOK, HistoryTypeOK
<1> QED BY <1>1, <1>2, PTL DEF HSpec

-----------------------------------------------------------------------------
(* The lock budget. *)

\* One tick later the breaker still holds every lock of the last Window.
LEMMA BudgetElapses ==
  ASSUME HTypeOK, BudgetInv, NEW gap \in Nat, Elapse(gap),
         issued' = {a \in AgeLocks(issued, gap) : a < Window}
  PROVE  BudgetInv'
<1> SUFFICES ASSUME Cooldown >= Window
             PROVE  /\ issued' \subseteq lockTimes'
                    /\ tripped' # None => \A a \in issued' : a >= tripped'
  BY DEF BudgetInv
<1>1. issued' \subseteq lockTimes'
  BY DEF BudgetInv, AgeLocks, Elapse
<1>2. ASSUME tripped' # None, NEW b \in issued' PROVE b >= tripped'
  <2>1. PICK a \in issued : b = Older(a, gap, LockAgeCap) /\ b < Window
    BY DEF AgeLocks
  <2>2. tripped # None /\ tripped' = Older(tripped, gap, Cooldown)
    BY <1>2 DEF Elapse, OlderOrNone
  <2>3. a \in Nat /\ tripped \in Nat /\ a >= tripped
    BY <2>2, ConstantTypes
       DEF BudgetInv, HTypeOK, TypeOK, BreakerTypeOK, AgeOrNone, Age
  <2> QED BY <2>1, <2>2, <2>3, ConstantTypes DEF Older, LockAgeCap
<1> QED BY <1>1, <1>2

\* When the cooldown is over, the breaker forgets no lock of the last Window.
LEMMA BudgetKept ==
  ASSUME HTypeOK, BudgetInv, Cooldown >= Window
  PROVE  /\ issued \subseteq KeptTimes
         /\ KeptTrip # None => \A a \in issued : a >= KeptTrip
<1>1. CASE CooldownOver
  <2>1. tripped \in Nat /\ tripped # None /\ tripped >= Cooldown
    BY <1>1, ConstantTypes
       DEF CooldownOver, HTypeOK, TypeOK, BreakerTypeOK, AgeOrNone, Age
  <2>2. ASSUME NEW a \in issued PROVE FALSE
    <3>1. a >= tripped /\ a \in 0 .. Window - 1
      BY <2>1 DEF BudgetInv, HTypeOK
    <3> QED BY <2>1, <3>1, ConstantTypes
  <2>3. issued = {}
    BY <2>2
  <2> QED BY <1>1, <2>3 DEF KeptTimes, KeptTrip
<1>2. CASE ~CooldownOver
  BY <1>2 DEF BudgetInv, KeptTimes, KeptTrip
<1> QED BY <1>1, <1>2

LEMMA BudgetStep ==
  ASSUME HTypeOK, BudgetInv, [HNext]_hvars
  PROVE  BudgetInv'
<1>1. CASE HPoll
  BY <1>1, BudgetElapses, ConstantTypes DEF HPoll, Poll
<1>2. CASE HProbe
  BY <1>2 DEF HProbe, Probe, hist, bvars, BudgetInv
<1>3. CASE HQuiet
  <2>1. IsPaused /\ UNCHANGED issued
    BY <1>3 DEF HQuiet, NothingDue, Suppressed, LockFails
  <2> QED BY <2>1, BudgetKept DEF IsPaused, BudgetInv
<1>4. CASE HSkip
  <2>1. IsPaused /\ UNCHANGED issued
    BY <1>4 DEF HSkip, SkippedLocked
  <2> QED BY <2>1, BudgetKept DEF IsPaused, BudgetInv
<1>5. CASE HLock
  <2>1. RegisterLock /\ ~Paused /\ issued' = issued \cup {0}
    BY <1>5 DEF HLock, LockSucceeds
  <2>2. SUFFICES ASSUME Cooldown >= Window
                 PROVE  /\ issued' \subseteq lockTimes'
                        /\ tripped' # None => \A a \in issued' : a >= tripped'
    BY DEF BudgetInv
  <2>3. issued \subseteq Recent(KeptTimes)
    BY BudgetKept, <2>2, ConstantTypes DEF Recent, HTypeOK
  <2>4. KeptTrip = None
    BY <2>1, ConstantTypes
       DEF Paused, KeptTrip, CooldownOver, HTypeOK, TypeOK, BreakerTypeOK, AgeOrNone, Age
  <2>5. \A a \in issued' : a >= 0
    BY <2>1, ConstantTypes DEF HTypeOK
  <2> QED BY <2>1, <2>3, <2>4, <2>5 DEF RegisterLock, Recent
<1>6. CASE HScreen
  BY <1>6 DEF HScreen, UserLocks, UserUnlocks, LockTakesEffect, LockLost, LoopIdle,
              bvars, BudgetInv
<1>7. CASE HRetarget
  BY <1>7 DEF HRetarget, Retarget, LoopIdle, bvars, BudgetInv
<1>8. CASE UNCHANGED hvars
  BY <1>8 DEF hvars, hist, vars, bvars, BudgetInv
<1> QED BY <1>1, <1>2, <1>3, <1>4, <1>5, <1>6, <1>7, <1>8 DEF HNext

LEMMA BudgetInvariant == HSpec => []BudgetInv
<1>1. HInit => BudgetInv
  BY DEF HInit, Init, NewBreaker, BudgetInv
<1>2. HTypeOK /\ BudgetInv /\ [HNext]_hvars => BudgetInv'
  BY BudgetStep
<1> QED BY <1>1, <1>2, HTypeCorrect, PTL DEF HSpec

LEMMA IssuedAreHeld ==
  ASSUME HTypeOK, BudgetInv, Cooldown >= Window
  PROVE  /\ Cardinality(issued) \in Nat /\ Cardinality(lockTimes) \in Nat
         /\ Cardinality(issued) <= Cardinality(lockTimes)
<1>1. issued \subseteq lockTimes /\ lockTimes \in SUBSET Age(LockAgeCap)
  BY DEF BudgetInv, HTypeOK, TypeOK, BreakerTypeOK
<1>2. IsFiniteSet(lockTimes)
  BY <1>1, CapNat, AgesFinite
<1>3. IsFiniteSet(issued) /\ Cardinality(issued) <= Cardinality(lockTimes)
  BY <1>1, <1>2, FS_Subset
<1> QED BY <1>2, <1>3, FS_CardinalityType

\* No half-open window of time ever holds more than MaxLocks issued locks (threat
\* T10), for every MaxLocks, Window and Cooldown >= Window: the locks of a window
\* are all held by the breaker, and the breaker never holds more than MaxLocks.
THEOREM LocksWithinBudget == HSpec => []AtMostMaxLocksPerWindow
<1>1. HTypeOK /\ BudgetInv => AtMostMaxLocksPerWindow
  <2> SUFFICES ASSUME HTypeOK, BudgetInv, Cooldown >= Window
               PROVE  Cardinality(issued) <= MaxLocks
    BY DEF AtMostMaxLocksPerWindow
  <2>1. Cardinality(lockTimes) <= MaxLocks
    BY DEF HTypeOK, TypeOK, BreakerTypeOK
  <2> QED BY <2>1, IssuedAreHeld, ConstantTypes
<1> QED BY <1>1, BudgetInvariant, HTypeCorrect, PTL

-----------------------------------------------------------------------------
(* What a pending lock is for. *)

LEMMA ReturnIsNotBeyond ==
  ASSUME NEW d \in Reading, WithinReturn(d)
  PROVE  ~Beyond(d)
BY ConstantTypes DEF WithinReturn, Beyond, Reading, None

\* The five outcomes of a tick, as far as the pending lock is concerned.
Outcome ==
  \/ ~LockDue /\ pending' = StillOwed /\ departure' = Departed
  \/ LockDue /\ pending' # None /\ departure' = Departed
  \/ LockDue /\ pending' = None /\ departure' = "answered"

LEMMA HActOutcome ==
  ASSUME TypeOK, HQuiet \/ HSkip \/ HLock
  PROVE  Update(reading) /\ HRead /\ Outcome
<1>1. CASE HQuiet /\ NothingDue
  BY <1>1 DEF HQuiet, NothingDue, ActBegins, Outcome
<1>2. CASE HQuiet /\ Suppressed
  <2>1. pending' # None
    BY <1>2 DEF Suppressed, None
  <2> QED BY <1>2, <2>1 DEF HQuiet, Suppressed, ActBegins, Outcome
<1>3. CASE HQuiet /\ LockFails
  <2>1. pending' # None
    BY <1>3 DEF LockFails, None
  <2> QED BY <1>3, <2>1 DEF HQuiet, LockFails, ActBegins, Outcome
<1>4. CASE HSkip
  BY <1>4 DEF HSkip, SkippedLocked, ActBegins, Outcome
<1>5. CASE HLock
  BY <1>5 DEF HLock, LockSucceeds, ActBegins, Outcome
<1> QED BY <1>1, <1>2, <1>3, <1>4, <1>5 DEF HQuiet

\* A lock that is due answers a departure that the readings say is owed.
LEMMA DueIsOwed ==
  ASSUME HTypeOK, TrackInv, Update(reading), LockDue
  PROVE  Departed = "owed" /\ pstate' = "away" /\ ~WithinReturn(reading)
<1>1. CASE MustLock(reading)
  <2>1. pstate = "leaving" /\ Beyond(reading) /\ timer >= Grace
    BY <1>1 DEF MustLock
  <2>2. timer \in Nat
    BY <2>1, ConstantTypes DEF HTypeOK, TypeOK, PresenceTypeOK, AgeOrNone, Age
  <2>3. farFor = Grace /\ departure = "home"
    BY <2>1, <2>2, ConstantTypes DEF TrackInv, Older
  <2>4. Departed = "owed"
    BY <2>1, <2>3, ConstantTypes DEF Departed, None
  <2>5. ~WithinReturn(reading)
    BY <2>1, ReturnIsNotBeyond DEF HTypeOK, TypeOK
  <2>6. Depart(reading)
    BY <2>1, <2>2, ConstantTypes
       DEF Update, Leave, ComeBack, Return, TurnAway, Settle, Hold
  <2> QED BY <2>4, <2>5, <2>6 DEF Depart
<1>2. CASE ~MustLock(reading)
  <2>1. pstate' = "away" /\ pending # None
    BY <1>2 DEF LockDue, StillOwed
  <2>2. ~Leave(reading) /\ ~ComeBack(reading) /\ ~Depart(reading)
        /\ ~Return(reading) /\ ~Settle(reading)
    BY <1>2, <2>1 DEF Leave, ComeBack, Depart, Return, Settle
  <2>3. pstate \in {"away", "returning"} /\ ~WithinReturn(reading)
    BY <2>1, <2>2 DEF Update, TurnAway, Hold, pvars
  <2>4. departure = "owed"
    BY <2>1, <2>3 DEF TrackInv
  <2> QED BY <2>1, <2>3, <2>4 DEF Departed
<1> QED BY <1>1, <1>2

\* One step lemma per transition of the machine; `answered` stands for a tick
\* that issued the lock or found the screen locked.
LEMMA TrackUpdate ==
  ASSUME HTypeOK, TrackInv, Update(reading), HRead, Outcome
  PROVE  TrackInv'
<1>1. reading \in Reading /\ Grace \in Nat \ {0} /\ ReturnDwell \in Nat
  BY ConstantTypes DEF HTypeOK, TypeOK
<1>2. WithinReturn(reading) => ~Beyond(reading)
  BY <1>1, ReturnIsNotBeyond
<1>3. timer \in AgeOrNone(TimerCap) /\ (timer = None <=> pstate \in {"near", "away"})
  BY DEF HTypeOK, TypeOK, PresenceTypeOK
<1>4. ~LockDue => StillOwed = None \/ StillOwed = pending
  BY DEF StillOwed
<1>5. LockDue => Departed = "owed" /\ pstate' = "away" /\ ~WithinReturn(reading)
  BY DueIsOwed
<1> USE <1>1, <1>2
<1>a. CASE Leave(reading)
  <2>1. pstate = "near" /\ Beyond(reading) /\ pstate' = "leaving" /\ timer' = 0
    BY <1>a DEF Leave
  <2>2. farFor' = 0
    BY <2>1 DEF TrackInv, HRead, Run
  <2>3. departure = "home" /\ farFor = None
    BY <2>1 DEF TrackInv
  <2>4. Departed = "home" /\ ~LockDue /\ StillOwed = None
    BY <2>1, <2>3, <1>5 DEF Departed, StillOwed
  <2> QED BY <2>1, <2>2, <2>4 DEF TrackInv, Outcome, Older
<1>b. CASE ComeBack(reading)
  <2>1. pstate = "leaving" /\ ~Beyond(reading) /\ pstate' = "near"
    BY <1>b DEF ComeBack
  <2>2. farFor' = None
    BY <2>1 DEF HRead, Run
  <2>3. Departed = "home" /\ ~LockDue /\ StillOwed = None
    BY <2>1, <1>5 DEF Departed, TrackInv, StillOwed
  <2> QED BY <2>1, <2>2, <2>3 DEF TrackInv, Outcome
<1>c. CASE Depart(reading)
  <2>1. LockDue /\ Beyond(reading) /\ pstate' = "away"
    BY <1>c DEF Depart, MustLock, LockDue
  <2>2. backFor' = None /\ Departed = "owed"
    BY <2>1, <1>5 DEF HRead, Run
  <2> QED BY <2>1, <2>2 DEF TrackInv, Outcome
<1>d. CASE Return(reading)
  <2>1. pstate = "away" /\ WithinReturn(reading) /\ pstate' = "returning" /\ timer' = 0
    BY <1>d DEF Return
  <2>2. backFor = None /\ departure # "home"
    BY <2>1 DEF TrackInv
  <2>3. backFor' = 0
    BY <2>1, <2>2 DEF HRead, Run
  <2>4. ~LockDue /\ StillOwed = None
    BY <2>1, <1>5 DEF StillOwed
  <2>5. Departed \notin {"home", "owed"}
    BY <2>1, <2>2 DEF Departed, None
  <2> QED BY <2>1, <2>3, <2>4, <2>5 DEF TrackInv, Outcome, Older
<1>e. CASE TurnAway(reading)
  <2>1. pstate = "returning" /\ ~WithinReturn(reading) /\ pstate' = "away"
    BY <1>e DEF TurnAway
  <2>2. backFor' = None
    BY <2>1 DEF HRead, Run
  <2>3. departure \notin {"home", "owed"} /\ pending = None
    BY <2>1 DEF TrackInv
  <2>4. Departed = departure /\ ~LockDue /\ StillOwed = None
    BY <2>1, <2>3, <1>5 DEF Departed, StillOwed
  <2> QED BY <2>1, <2>2, <2>3, <2>4 DEF TrackInv, Outcome
<1>f. CASE Settle(reading)
  <2>1. /\ pstate = "returning" /\ WithinReturn(reading) /\ timer >= ReturnDwell
        /\ pstate' = "near"
    BY <1>f DEF Settle
  <2>2. farFor' = None
    BY <2>1 DEF HRead, Run
  <2>3. timer \in Nat
    BY <2>1, <1>3 DEF AgeOrNone, Age
  <2>4. backFor = ReturnDwell
    BY <2>1, <2>3 DEF TrackInv, Older
  <2>5. Departed = "home"
    BY <2>1, <2>4 DEF TrackInv, Departed, None
  <2>6. ~LockDue /\ StillOwed = None
    BY <2>1, <1>5 DEF StillOwed
  <2> QED BY <2>1, <2>2, <2>5, <2>6 DEF TrackInv, Outcome
<1>g. CASE Hold(reading)
  <2>0. UNCHANGED pvars
    BY <1>g DEF Hold
  <2>1. CASE pstate = "near" /\ ~Beyond(reading)
    <3>1. farFor' = None /\ Departed = "home"
      BY <2>1 DEF HRead, Run, Departed, TrackInv
    <3>2. ~LockDue /\ StillOwed = None
      BY <2>0, <2>1, <1>5 DEF StillOwed, pvars
    <3> QED BY <2>0, <2>1, <3>1, <3>2 DEF TrackInv, Outcome, pvars
  <2>2. CASE pstate = "leaving" /\ Beyond(reading) /\ timer < Grace
    <3>1. timer \in Nat
      BY <2>2, <1>3 DEF AgeOrNone, Age
    <3>2. farFor = timer /\ farFor # None
      BY <2>2, <3>1 DEF TrackInv, Older, None
    <3>3. farFor' = farFor /\ Departed = "home"
      BY <2>2, <3>1, <3>2 DEF HRead, Run, Departed, TrackInv
    <3>4. ~LockDue /\ StillOwed = None
      BY <2>0, <2>2, <1>5 DEF StillOwed, pvars
    <3> QED BY <2>0, <2>2, <3>3, <3>4 DEF TrackInv, Outcome, pvars
  <2>3. CASE pstate = "away" /\ ~WithinReturn(reading)
    <3>1. backFor' = None
      BY <2>3 DEF HRead, Run
    <3>2. departure # "home" /\ Departed = departure /\ StillOwed = pending
      BY <2>0, <2>3 DEF TrackInv, Departed, StillOwed, pvars
    <3> QED BY <2>0, <2>3, <3>1, <3>2, <1>5 DEF TrackInv, Outcome, pvars
  <2>4. CASE pstate = "returning" /\ WithinReturn(reading) /\ timer < ReturnDwell
    <3>1. timer \in Nat
      BY <2>4, <1>3 DEF AgeOrNone, Age
    <3>2. backFor = timer /\ backFor # None
      BY <2>4, <3>1 DEF TrackInv, Older, None
    <3>3. backFor' = backFor
      BY <2>4, <3>2 DEF HRead, Run
    <3>4. departure \notin {"home", "owed"} /\ Departed = departure
      BY <2>4, <3>1, <3>2 DEF TrackInv, Departed
    <3>5. ~LockDue /\ StillOwed = None
      BY <2>0, <2>4, <1>5 DEF StillOwed, pvars
    <3> QED BY <2>0, <2>4, <3>3, <3>4, <3>5 DEF TrackInv, Outcome, pvars
  <2> QED BY <1>g, <2>1, <2>2, <2>3, <2>4 DEF Hold
<1> QED BY <1>a, <1>b, <1>c, <1>d, <1>e, <1>f, <1>g DEF Update

\* Ageing preserves what the timer and the history say of each other.
LEMMA TrackPoll ==
  ASSUME HTypeOK, TrackInv, HPoll
  PROVE  TrackInv'
<1> PICK gap \in Gaps, seen \in Observation, d \in Reading :
      /\ Poll(gap, seen, d)
      /\ farFor' = OlderOrNone(farFor, gap, Grace)
      /\ backFor' = OlderOrNone(backFor, gap, ReturnDwell)
      /\ issued' = {a \in AgeLocks(issued, gap) : a < Window}
      /\ excused' = (excused /\ departure = "answered")
      /\ UNCHANGED departure
  BY DEF HPoll
<1>1. gap \in Nat /\ Grace \in Nat /\ ReturnDwell \in Nat /\ Retry \in Nat
  BY ConstantTypes
<1>2. /\ timer' = OlderOrNone(timer, gap, TimerCap) /\ UNCHANGED pstate
      /\ pending' = OlderOrNone(pending, gap, Retry)
  BY DEF Poll, Elapse
<1>3. pending' = None <=> pending = None
  BY <1>1, <1>2, OlderType DEF HTypeOK, TypeOK
<1>4. /\ timer \in AgeOrNone(TimerCap) /\ (timer = None <=> pstate \in {"near", "away"})
      /\ TimerCap \in Nat /\ TimerCap >= Grace /\ TimerCap >= ReturnDwell
  BY ConstantTypes DEF HTypeOK, TypeOK, PresenceTypeOK, TimerCap
<1>5. pstate = "leaving" => farFor' = Older(timer', 0, Grace)
  <2> SUFFICES ASSUME pstate = "leaving" PROVE farFor' = Older(timer', 0, Grace)
    OBVIOUS
  <2>1. timer \in Nat
    BY <1>4 DEF AgeOrNone, Age
  <2>2. farFor = Older(timer, 0, Grace)
    BY DEF TrackInv
  <2> QED BY <1>1, <1>2, <1>4, <2>1, <2>2 DEF OlderOrNone, Older, None
<1>6. pstate = "returning" => backFor' = Older(timer', 0, ReturnDwell)
  <2> SUFFICES ASSUME pstate = "returning" PROVE backFor' = Older(timer', 0, ReturnDwell)
    OBVIOUS
  <2>1. timer \in Nat
    BY <1>4 DEF AgeOrNone, Age
  <2>2. backFor = Older(timer, 0, ReturnDwell)
    BY DEF TrackInv
  <2> QED BY <1>1, <1>2, <1>4, <2>1, <2>2 DEF OlderOrNone, Older, None
<1>7. (pstate = "near" => farFor' = None) /\ (pstate = "away" => backFor' = None)
  BY DEF TrackInv, OlderOrNone
<1> QED BY <1>2, <1>3, <1>5, <1>6, <1>7 DEF TrackInv

LEMMA TrackStep ==
  ASSUME HTypeOK, TrackInv, [HNext]_hvars
  PROVE  TrackInv'
<1>1. CASE HPoll
  BY <1>1, TrackPoll
<1>2. CASE HProbe
  BY <1>2 DEF HProbe, Probe, hist, pvars, TrackInv
<1>3. CASE HQuiet \/ HSkip \/ HLock
  BY <1>3, HActOutcome, TrackUpdate DEF HTypeOK
<1>4. CASE HScreen
  BY <1>4 DEF HScreen, UserLocks, UserUnlocks, LockTakesEffect, LockLost, LoopIdle,
              pvars, TrackInv
<1>5. CASE HRetarget
  BY <1>5 DEF HRetarget, Retarget, ResetMachine, LoopIdle, TrackInv
<1>6. CASE UNCHANGED hvars
  BY <1>6 DEF hvars, hist, vars, pvars, svars, TrackInv
<1> QED BY <1>1, <1>2, <1>3, <1>4, <1>5, <1>6 DEF HNext

LEMMA TrackInvariant == HSpec => []TrackInv
<1>1. HInit => TrackInv
  BY DEF HInit, Init, NewMachine, TrackInv
<1>2. HTypeOK /\ TrackInv /\ [HNext]_hvars => TrackInv'
  BY TrackStep
<1> QED BY <1>1, <1>2, HTypeCorrect, PTL DEF HSpec

\* A departure whose lock failed or was suppressed stays pending as long as the
\* device stays out of the return threshold (session.py:258-263).
THEOREM OwedLocksStayPending == HSpec => []OwedLockPending
<1>1. TrackInv => OwedLockPending
  BY DEF TrackInv, OwedLockPending
<1> QED BY <1>1, TrackInvariant, PTL

\* Every lock command, retries included, answers a departure that the readings
\* say is owed: grace served in full, not come back since, not answered before.
THEOREM LocksAnswerDepartures == HSpec => LockAnswersDeparture
<1>1. HTypeOK /\ TrackInv /\ [HNext]_hvars
        => [LockSucceeds \/ LockFails => Departed = "owed"]_hvars
  <2> SUFFICES ASSUME HTypeOK, TrackInv, LockSucceeds \/ LockFails
               PROVE  Departed = "owed"
    OBVIOUS
  <2>1. Update(reading) /\ LockDue
    BY DEF LockSucceeds, LockFails, ActBegins
  <2> QED BY <2>1, DueIsOwed
<1> QED BY <1>1, HTypeCorrect, TrackInvariant, PTL DEF HSpec, LockAnswersDeparture

-----------------------------------------------------------------------------
(* What an answered departure leaves on the screen. *)

\* Opening the screen within a tick excuses what that tick makes of the departure.
LEMMA UnlockExcuses ==
  ASSUME MayUnlock, excused' = (excused \/ Opened), screen # "open" \/ excused
  PROVE  screen' # "open" \/ excused'
BY DEF MayUnlock, NoUnlock, Unlocks, UnlockFails, Opened

LEMMA AnsweredStep ==
  ASSUME AnsweredInv, [HNext]_hvars
  PROVE  AnsweredInv'
<1> USE DEF AnsweredInv, AnsweredDepartureIsLocked
<1>1. CASE HPoll
  <2> PICK gap \in Gaps, seen \in Observation, d \in Reading :
        /\ Poll(gap, seen, d)
        /\ excused' = (excused /\ departure = "answered")
        /\ UNCHANGED departure
    BY <1>1 DEF HPoll
  <2>1. UNCHANGED <<screen, request>> /\ observed' = seen /\ seen \in Observable
    BY DEF Poll, Observe
  <2>2. observed' = "locked" => screen' # "open"
    BY <2>1 DEF Observable
  <2> QED BY <2>1, <2>2
<1>2. CASE HProbe
  BY <1>2 DEF HProbe, Probe, hist
<1>3. CASE HQuiet
  <2>1. pc' = "poll" /\ UNCHANGED request /\ excused' = (excused \/ Opened)
    BY <1>3 DEF HQuiet, NothingDue, Suppressed, LockFails, ActBegins
  <2>2. departure' = "answered" => departure = "answered"
    BY <1>3 DEF HQuiet, Departed
  <2>3. MayUnlock \/ UNCHANGED screen
    BY <1>3 DEF HQuiet, NothingDue, Suppressed, LockFails
  <2>4. screen # "open" \/ excused => screen' # "open" \/ excused'
    BY <2>1, <2>3, UnlockExcuses
  <2> QED BY <2>1, <2>2, <2>4
<1>4. CASE HSkip
  <2>1. pc' = "poll" /\ MayUnlock /\ excused' = (excused \/ Opened)
    BY <1>4 DEF HSkip, SkippedLocked, ActBegins
  <2>2. screen # "open" \/ excused
    BY <1>4 DEF HSkip, SkippedLocked, ActBegins
  <2> QED BY <2>1, <2>2, UnlockExcuses
<1>5. CASE HLock
  BY <1>5 DEF HLock, LockSucceeds, ActBegins
<1>6. CASE HScreen
  BY <1>6 DEF HScreen, UserLocks, UserUnlocks, LockTakesEffect, LockLost, LoopIdle, Opened
<1>7. CASE HRetarget
  BY <1>7 DEF HRetarget, Retarget, LoopIdle
<1>8. CASE UNCHANGED hvars
  BY <1>8 DEF hvars, hist, vars, svars
<1> QED BY <1>1, <1>2, <1>3, <1>4, <1>5, <1>6, <1>7, <1>8 DEF HNext

\* A departure counts as answered only while the screen is locked or the OS owes
\* an accepted lock, unless someone unlocked or the OS dropped the lock since: the
\* skip of a tick that saw the screen locked never leaves an open one unexplained.
THEOREM AnsweredDeparturesAreLocked == HSpec => []AnsweredDepartureIsLocked
<1>1. HInit => AnsweredInv
  BY DEF HInit, Init, AnsweredInv, AnsweredDepartureIsLocked
<1>2. AnsweredInv /\ [HNext]_hvars => AnsweredInv'
  BY AnsweredStep
<1>3. AnsweredInv => AnsweredDepartureIsLocked
  BY DEF AnsweredInv
<1> QED BY <1>1, <1>2, <1>3, PTL DEF HSpec

-----------------------------------------------------------------------------
(* The session keeps the promise of ProximityLock. *)

\* What the breaker lets through is within the budget before it is issued.
LEMMA RoomForALock ==
  ASSUME HTypeOK, BudgetInv, ~Paused, Cooldown >= Window
  PROVE  Cardinality(issued) < MaxLocks
<1>1. CASE tripped = None
  <2>1. Cardinality(lockTimes) <= MaxLocks /\ Cardinality(lockTimes) # MaxLocks
    BY <1>1 DEF HTypeOK, TypeOK, BreakerTypeOK
  <2> QED BY <2>1, IssuedAreHeld, ConstantTypes
<1>2. CASE tripped # None
  <2>1. tripped \in Nat /\ tripped >= Window
    BY <1>2, ConstantTypes DEF Paused, HTypeOK, TypeOK, BreakerTypeOK, AgeOrNone, Age
  <2>2. ASSUME NEW a \in issued PROVE FALSE
    <3>1. a >= tripped /\ a \in 0 .. Window - 1
      BY <1>2 DEF BudgetInv, HTypeOK
    <3> QED BY <2>1, <3>1, ConstantTypes
  <2>3. issued = {}
    BY <2>2
  <2> QED BY <2>3, FS_EmptySet, ConstantTypes
<1> QED BY <1>1, <1>2

\* A reading only ever ends the time beyond the radius, and a departure that it makes
\* due needs the whole of that time.
LEMMA FarFades ==
  ASSUME HTypeOK, HRead
  PROVE  /\ (farFor' # None /\ farFor' >= Grace) => (farFor # None /\ farFor >= Grace)
         /\ departure = "home" /\ Departed = "owed" =>
              /\ farFor # None /\ farFor >= Grace
              /\ farFor' # None /\ farFor' >= Grace
<1>1. Grace \in Nat \ {0} /\ farFor \in AgeOrNone(Grace)
  BY ConstantTypes DEF HTypeOK
<1>2. farFor' = IF ~Beyond(reading) THEN None ELSE IF farFor = None THEN 0 ELSE farFor
  BY DEF HRead, Run
<1>3. departure = "home" /\ Departed = "owed" =>
        Beyond(reading) /\ farFor # None /\ farFor >= Grace
  BY DEF Departed
<1> QED BY <1>1, <1>2, <1>3 DEF AgeOrNone, Age, None

LEMMA PollLooks ==
  ASSUME HTypeOK, HPoll
  PROVE  Promise!Looks
<1> PICK gap \in Gaps, seen \in Observation, d \in Reading :
      /\ Poll(gap, seen, d)
      /\ farFor' = OlderOrNone(farFor, gap, Grace)
      /\ issued' = {a \in AgeLocks(issued, gap) : a < Window}
      /\ UNCHANGED departure
  BY DEF HPoll
<1>1. gap \in Nat \ {0} /\ Window \in Nat \ {0} /\ Grace \in Nat \ {0}
  BY ConstantTypes
<1>2. (observed' = "locked") \in {FALSE, screen # "open"}
  BY DEF Poll, Observe, Observable
<1>3. (farFor # None /\ farFor >= Grace) => (farFor' # None /\ farFor' >= Grace)
  BY <1>1 DEF HTypeOK, OlderOrNone, Older, AgeOrNone, Age, None
<1>4. \E span \in 1 .. Window :
        issued' = {age + span : age \in issued} \cap (0 .. Window - 1)
  <2> DEFINE span == IF gap > Window THEN Window ELSE gap
  <2>1. span \in 1 .. Window
    BY <1>1
  <2>2. issued \subseteq 0 .. Window - 1
    BY DEF HTypeOK
  <2>3. \A a \in issued :
          Older(a, gap, LockAgeCap) < Window =>
            /\ Older(a, gap, LockAgeCap) = a + span
            /\ a + span \in 0 .. Window - 1
    BY <1>1, <2>2 DEF Older, LockAgeCap
  <2>4. \A a \in issued :
          a + span \in 0 .. Window - 1 =>
            /\ Older(a, gap, LockAgeCap) = a + span
            /\ Older(a, gap, LockAgeCap) < Window
    BY <1>1, <2>2 DEF Older, LockAgeCap
  <2> HIDE DEF span
  <2>5. issued' = {age + span : age \in issued} \cap (0 .. Window - 1)
    BY <2>3, <2>4 DEF AgeLocks
  <2> QED BY <2>1, <2>5
<1>5. UNCHANGED <<screen, request, departure>>
  BY DEF Poll
<1> QED BY <1>2, <1>3, <1>4, <1>5 DEF Promise!Looks

LEMMA UnlockIsSeen ==
  ASSUME MayUnlock, UNCHANGED observed
  PROVE  Promise!MayOpen
BY DEF MayUnlock, NoUnlock, Unlocks, UnlockFails, Deciding, Promise!MayOpen

LEMMA QuietWatches ==
  ASSUME HTypeOK, HQuiet
  PROVE  Promise!Watches
<1>1. HRead /\ departure' = Departed /\ UNCHANGED <<request, observed, issued>>
  BY DEF HQuiet, NothingDue, Suppressed, LockFails, ActBegins
<1>2. Promise!MayOpen
  <2>1. CASE NothingDue \/ Suppressed
    BY <1>1, <2>1, UnlockIsSeen DEF NothingDue, Suppressed
  <2>2. CASE LockFails
    BY <2>2 DEF LockFails, Promise!MayOpen
  <2> QED BY <2>1, <2>2 DEF HQuiet
<1>3. Promise!Moves
  <2>1. \/ Departed = departure
        \/ departure = "home" /\ Departed = "owed"
        \/ departure = "owed" /\ Departed = "blipped"
        \/ Departed = "home"
    BY DEF Departed, HTypeOK
  <2> QED BY <1>1, <2>1, FarFades DEF Promise!Moves
<1> QED BY <1>1, <1>2, <1>3, FarFades DEF Promise!Watches

LEMMA DueIsPromised ==
  ASSUME HTypeOK, TrackInv, HRead, Update(reading), LockDue
  PROVE  Promise!Owed
<1>1. Departed = "owed"
  BY DueIsOwed
<1>2. departure \in {"home", "owed"}
  BY <1>1 DEF Departed, HTypeOK
<1> QED BY <1>1, <1>2, FarFades DEF Promise!Owed

LEMMA SkipFinds ==
  ASSUME HTypeOK, TrackInv, HSkip
  PROVE  Promise!FindsLocked
<1>1. /\ HRead /\ departure' = "answered" /\ UNCHANGED <<request, observed, issued>>
      /\ Update(reading) /\ LockDue /\ observed = "locked" /\ MayUnlock
  BY DEF HSkip, SkippedLocked, ActBegins
<1> QED BY <1>1, UnlockIsSeen, DueIsPromised, FarFades DEF Promise!FindsLocked

LEMMA LockLocks ==
  ASSUME HTypeOK, TrackInv, BudgetInv, HLock
  PROVE  Promise!Locks
<1>1. /\ HRead /\ departure' = "answered" /\ request' = TRUE
      /\ issued' = issued \cup {0} /\ UNCHANGED <<screen, observed>>
      /\ Update(reading) /\ LockDue /\ ~Paused /\ observed # "locked"
  BY DEF HLock, LockSucceeds, ActBegins
<1>2. Promise!Cardinality(issued) = Cardinality(issued)
  BY DEF Promise!Cardinality, Cardinality
<1>3. Cooldown >= Window => Promise!Cardinality(issued) < MaxLocks
  BY <1>1, <1>2, RoomForALock
<1> QED BY <1>1, <1>3, DueIsPromised, FarFades DEF Promise!Locks

LEMMA OthersArePromised ==
  ASSUME HScreen \/ HRetarget
  PROVE  Promise!ScreenChanges \/ Promise!Retargets
<1>1. CASE HScreen
  <2>1. UNCHANGED <<farFor, departure, issued, observed>>
    BY <1>1 DEF HScreen, UserLocks, UserUnlocks, LockTakesEffect, LockLost, LoopIdle
  <2>2. \/ screen = "open" /\ screen' = "user" /\ UNCHANGED request
        \/ screen # "open" /\ screen' = "open" /\ UNCHANGED request
        \/ request /\ ~request' /\ screen = "open" /\ screen' = "stavau"
        \/ request /\ ~request' /\ UNCHANGED screen
    BY <1>1 DEF HScreen, UserLocks, UserUnlocks, LockTakesEffect, LockLost
  <2> QED BY <2>1, <2>2 DEF Promise!ScreenChanges
<1>2. CASE HRetarget
  BY <1>2 DEF HRetarget, Retarget, LoopIdle, Promise!Retargets
<1> QED BY <1>1, <1>2

LEMMA PromiseStep ==
  ASSUME HTypeOK, TrackInv, BudgetInv, [HNext]_hvars
  PROVE  [Promise!Next]_(Promise!vars)
<1>1. CASE HPoll
  BY <1>1, PollLooks DEF Promise!Next
<1>2. CASE HProbe
  BY <1>2 DEF HProbe, Probe, hist, Promise!vars
<1>3. CASE HQuiet
  BY <1>3, QuietWatches DEF Promise!Next
<1>4. CASE HSkip
  BY <1>4, SkipFinds DEF Promise!Next
<1>5. CASE HLock
  BY <1>5, LockLocks DEF Promise!Next
<1>6. CASE HScreen \/ HRetarget
  BY <1>6, OthersArePromised DEF Promise!Next
<1>7. CASE UNCHANGED hvars
  BY <1>7 DEF hvars, hist, vars, svars, Promise!vars
<1> QED BY <1>1, <1>2, <1>3, <1>4, <1>5, <1>6, <1>7 DEF HNext

\* The session (session.py) implements ProximityLock: for any thresholds, limits and
\* readings, and whatever the user, the OS, the observer and the tray do between its
\* steps, each step is one that the promise allows.
THEOREM SessionKeepsPromise == HSpec => PromiseIsKept
<1>1. HInit => Promise!Init
  BY ConstantTypes DEF HInit, Init, None, Promise!Init
<1>2. HTypeOK /\ TrackInv /\ BudgetInv /\ [HNext]_hvars => [Promise!Next]_(Promise!vars)
  BY PromiseStep
<1> QED BY <1>1, <1>2, HTypeCorrect, TrackInvariant, BudgetInvariant, PTL
       DEF HSpec, PromiseIsKept, Promise!Spec

-----------------------------------------------------------------------------
(* The promise of auto-unlock.  Its two properties speak of the state an     *)
(* unlock is issued in, so both follow from invariants of UnlockHistory.     *)

\* The history variables guard no step: UnlockHistory runs the session too.
LEMMA UnlockHistoryStep == [UNext]_uvars => [Next]_vars
<1> SUFFICES ASSUME [UNext]_uvars PROVE [Next]_vars
  OBVIOUS
<1>1. CASE UPoll         BY <1>1 DEF UPoll, Next, Tick
<1>2. CASE UProbe        BY <1>2 DEF UProbe, Next, Tick
<1>3. CASE UQuiet        BY <1>3 DEF UQuiet, Next, Tick, Act
<1>4. CASE ULock         BY <1>4 DEF ULock, Next, Tick, Act
<1>5. CASE UUserLocks    BY <1>5 DEF UUserLocks, Next, Environment
<1>6. CASE UUserUnlocks  BY <1>6 DEF UUserUnlocks, Next, Environment
<1>7. CASE UOther        BY <1>7 DEF UOther, Next, Environment
<1>8. CASE URetarget     BY <1>8 DEF URetarget, Next, Environment
<1>9. CASE UNCHANGED uvars BY <1>9 DEF uvars
<1> QED BY <1>1, <1>2, <1>3, <1>4, <1>5, <1>6, <1>7, <1>8, <1>9 DEF UNext

UHistoryTypeOK ==
  /\ closeFor \in AgeOrNone(Dwell) /\ own \in AgeOrNone(ExpectCap)
  /\ blind \in BOOLEAN /\ unseen \in BOOLEAN /\ noticed \in BOOLEAN /\ confused \in BOOLEAN

\* Without an unlocker the policy is never asked.
PolicyIdle == ~AutoUnlockOn => origin = "unlocked" /\ closeSince = None

\* The policy expects its own lock for as long as one can be on the screen unobserved.
ExpectsOwn == AutoUnlockOn => expecting = own

\* A lock that was observed is still there, and the policy has an origin for it.
NoticedIsKnown ==
  AutoUnlockOn /\ noticed => screen # "open" /\ origin # "unlocked"

\* An origin outlives its lock only until the open screen is observed.
OriginIsOld == screen = "open" /\ origin # "unlocked" => unseen

\* What the policy may take for its own lock, or has taken, is the user's only when the
\* two could not be told apart.
TakenIsConfused ==
  AutoUnlockOn /\ screen = "user" =>
    /\ origin = "unlocked" /\ own # None => confused
    /\ origin = "stavau" => confused /\ (noticed \/ unseen)

\* What the tick goes by since its Poll.
ObservedIsKnown ==
  pc # "poll" =>
    /\ observed = "unknown" => blind
    /\ observed = "unlocked" => closeSince = None

\* The dwell clock runs for stavau's lock, and from a tick that has been close since.
DwellIsClose ==
  closeSince # None =>
    /\ origin = "stavau"
    /\ blind \/ unseen \/ (closeFor # None /\ closeFor >= closeSince)

UnlockInv ==
  /\ UHistoryTypeOK /\ PolicyIdle /\ ExpectsOwn /\ NoticedIsKnown /\ OriginIsOld
  /\ TakenIsConfused /\ ObservedIsKnown /\ DwellIsClose

LEMMA UInitIsGood == UInit => UnlockInv
<1> SUFFICES ASSUME UInit PROVE UnlockInv
  OBVIOUS
<1> USE DEF UInit, Init, NewPolicy
<1>1. UHistoryTypeOK
  BY DEF UHistoryTypeOK, AgeOrNone
<1>2. PolicyIdle /\ ExpectsOwn /\ NoticedIsKnown /\ OriginIsOld
  BY DEF PolicyIdle, ExpectsOwn, NoticedIsKnown, OriginIsOld
<1>3. TakenIsConfused /\ ObservedIsKnown /\ DwellIsClose
  BY DEF TakenIsConfused, ObservedIsKnown, DwellIsClose
<1> QED BY <1>1, <1>2, <1>3 DEF UnlockInv

\* What a tick that issues no lock does to the screen and to the policy.
LEMMA QuietOutcome ==
  ASSUME NothingDue \/ Suppressed \/ SkippedLocked \/ LockFails
  PROVE  /\ pc = "act" /\ pc' = "poll"
         /\ UNCHANGED <<observed, reading, origin, expecting>>
         /\ screen' \in {screen, "open"}
         /\ IF Deciding THEN Decide(reading) ELSE UNCHANGED closeSince
<1>1. pc = "act" /\ pc' = "poll" /\ UNCHANGED <<observed, reading>>
  BY DEF NothingDue, Suppressed, SkippedLocked, LockFails, ActBegins
<1>2. ASSUME MayUnlock
      PROVE  /\ UNCHANGED <<origin, expecting>> /\ screen' \in {screen, "open"}
             /\ IF Deciding THEN Decide(reading) ELSE UNCHANGED closeSince
  <2>1. CASE NoUnlock
    BY <2>1 DEF NoUnlock, Decide, avars
  <2>2. CASE Unlocks \/ UnlockFails
    BY <2>2 DEF Unlocks, UnlockFails, Decide
  <2> QED BY <1>2, <2>1, <2>2 DEF MayUnlock
<1>3. CASE NothingDue \/ Suppressed \/ SkippedLocked
  BY <1>1, <1>2, <1>3 DEF NothingDue, Suppressed, SkippedLocked
<1>4. CASE LockFails
  BY <1>1, <1>4 DEF LockFails, Deciding, avars
<1> QED BY <1>3, <1>4

LEMMA CloseNowType ==
  ASSUME UHistoryTypeOK
  PROVE  CloseNow \in AgeOrNone(Dwell)
BY ConstantTypes DEF UHistoryTypeOK, CloseNow, AgeOrNone, Age

LEMMA UHistoryTypeStep ==
  ASSUME UHistoryTypeOK, [UNext]_uvars
  PROVE  UHistoryTypeOK'
<1>1. CASE UPoll
  <2> PICK gap \in Gaps, seen \in Observation :
        /\ closeFor' = OlderOrNone(closeFor, gap, Dwell)
        /\ own' = IF seen = "unknown" THEN OlderOrNone(own, gap, ExpectCap) ELSE None
        /\ blind' \in BOOLEAN /\ unseen' \in BOOLEAN
        /\ noticed' \in BOOLEAN /\ confused' \in BOOLEAN
    BY <1>1 DEF UPoll
  <2>1. gap \in Nat /\ Dwell \in Nat /\ ExpectCap \in Nat
    BY ConstantTypes DEF ExpectCap
  <2>2. closeFor' \in AgeOrNone(Dwell)
    BY <2>1, OlderType DEF UHistoryTypeOK
  <2>3. own' \in AgeOrNone(ExpectCap)
    BY <2>1, OlderType DEF UHistoryTypeOK, AgeOrNone
  <2> QED BY <2>2, <2>3 DEF UHistoryTypeOK
<1>2. CASE UProbe \/ UOther \/ UNCHANGED uvars
  BY <1>2 DEF UProbe, UOther, uvars, uhist, UHistoryTypeOK
<1>3. CASE UQuiet
  BY <1>3, CloseNowType DEF UQuiet, UHistoryTypeOK
<1>4. CASE ULock
  <2>1. 0 \in AgeOrNone(ExpectCap)
    BY ConstantTypes DEF AgeOrNone, Age, ExpectCap
  <2> QED BY <1>4, <2>1, CloseNowType DEF ULock, UHistoryTypeOK
<1>5. CASE UUserLocks \/ UUserUnlocks
  BY <1>5 DEF UUserLocks, UUserUnlocks, UHistoryTypeOK
<1>6. CASE URetarget
  BY <1>6 DEF URetarget, UHistoryTypeOK, AgeOrNone
<1> QED BY <1>1, <1>2, <1>3, <1>4, <1>5, <1>6 DEF UNext

LEMMA UnlockPoll ==
  ASSUME TypeOK, UnlockInv, UPoll
  PROVE  /\ PolicyIdle' /\ ExpectsOwn' /\ NoticedIsKnown' /\ OriginIsOld'
         /\ TakenIsConfused' /\ ObservedIsKnown' /\ DwellIsClose'
<1> PICK gap \in Gaps, seen \in Observation, d \in Reading :
      LET age == OlderOrNone(own, gap, ExpectCap) IN
      /\ Poll(gap, seen, d)
      /\ closeFor' = OlderOrNone(closeFor, gap, Dwell)
      /\ blind' = (seen = "unknown" \/ (blind /\ seen # "unlocked"))
      /\ unseen' = (unseen /\ seen # "unlocked")
      /\ own' = IF seen = "unknown" THEN age ELSE None
      /\ noticed' = (noticed \/ seen = "locked")
      /\ confused' = (confused /\ (seen = "locked" /\ ~noticed /\ ~unseen
                                   => age <= ExpectWindow))
  BY DEF UPoll
<1> DEFINE age == OlderOrNone(own, gap, ExpectCap)
<1>1. /\ observed' = seen /\ UNCHANGED screen
      /\ seen = "unlocked" => screen = "open"
      /\ seen = "locked" => screen # "open"
  BY DEF Poll, Observable, Observe
<1>2. ~AutoUnlockOn => UNCHANGED <<origin, expecting, closeSince>>
  BY DEF Poll, Observe, avars
<1>3. ASSUME AutoUnlockOn, seen = "locked"
      PROVE  /\ origin' = IF origin # "unlocked" THEN origin
                          ELSE IF Expected(age) THEN "stavau" ELSE "foreign"
             /\ expecting' = None /\ closeSince' = OlderOrNone(closeSince, gap, Dwell)
  BY <1>3 DEF Poll, Observe, NoteLockObserved, UnlockInv, ExpectsOwn
<1>4. ASSUME AutoUnlockOn, seen = "unlocked"
      PROVE  origin' = "unlocked" /\ expecting' = None /\ closeSince' = None
  BY <1>4 DEF Poll, Observe, NoteLockObserved
<1>5. ASSUME AutoUnlockOn, seen = "unknown"
      PROVE  /\ origin' = origin /\ expecting' = age
             /\ closeSince' = OlderOrNone(closeSince, gap, Dwell)
  BY <1>5 DEF Poll, Observe, NoteLockObserved, UnlockInv, ExpectsOwn
<1>6. seen \in {"locked", "unlocked", "unknown"}
  BY DEF Observation
<1> HIDE DEF age
<1>a. own' = (IF seen = "unknown" THEN age ELSE None)
  BY DEF age
<1>c. confused' = (confused /\ (seen = "locked" /\ ~noticed /\ ~unseen => age <= ExpectWindow))
  BY DEF age
<1>n. age = None <=> own = None
  <2>1. gap \in Nat /\ ExpectCap \in Nat
    BY ConstantTypes DEF ExpectCap
  <2> QED BY <2>1, OlderType DEF age, UnlockInv, UHistoryTypeOK
<1>7. PolicyIdle' /\ ExpectsOwn'
  BY <1>2, <1>3, <1>4, <1>5, <1>6, <1>a DEF UnlockInv, PolicyIdle, ExpectsOwn
<1>8. NoticedIsKnown'
  BY <1>1, <1>3, <1>4, <1>5, <1>6 DEF UnlockInv, NoticedIsKnown
<1>9. OriginIsOld'
  BY <1>1, <1>2, <1>3, <1>4, <1>5, <1>6 DEF UnlockInv, OriginIsOld, PolicyIdle
<1>10. TakenIsConfused'
  <2> SUFFICES ASSUME AutoUnlockOn, screen = "user"
               PROVE  /\ origin' = "unlocked" /\ own' # None => confused'
                      /\ origin' = "stavau" => confused' /\ (noticed' \/ unseen')
    BY <1>1 DEF TakenIsConfused
  <2>1. CASE seen = "locked"
    <3>1. own' = None /\ noticed' = TRUE
      BY <2>1, <1>a
    <3>2. CASE origin = "stavau"
      BY <2>1, <3>1, <3>2, <1>c DEF UnlockInv, TakenIsConfused
    <3>3. CASE origin = "unlocked" /\ Expected(age)
      <4>1. own # None /\ age <= ExpectWindow
        BY <3>3, <1>n DEF Expected
      <4> QED BY <3>1, <3>3, <4>1, <1>c DEF UnlockInv, TakenIsConfused
    <3>4. CASE origin # "stavau" /\ ~(origin = "unlocked" /\ Expected(age))
      BY <2>1, <3>1, <3>4, <1>3
    <3> QED BY <3>2, <3>3, <3>4
  <2>2. CASE seen = "unknown"
    BY <2>2, <1>5, <1>a, <1>c, <1>n DEF UnlockInv, TakenIsConfused
  <2> QED BY <2>1, <2>2, <1>1, <1>6
<1>11. ObservedIsKnown'
  BY <1>1, <1>2, <1>4 DEF UnlockInv, ObservedIsKnown, PolicyIdle
<1>12. DwellIsClose'
  <2> SUFFICES ASSUME closeSince' # None
               PROVE  /\ origin' = "stavau"
                      /\ blind' \/ unseen' \/ (closeFor' # None /\ closeFor' >= closeSince')
    BY DEF DwellIsClose
  <2>1. AutoUnlockOn /\ seen \in {"locked", "unknown"}
    BY <1>2, <1>4, <1>6 DEF UnlockInv, PolicyIdle
  <2>2. closeSince' = OlderOrNone(closeSince, gap, Dwell) /\ closeSince # None
    BY <2>1, <1>3, <1>5 DEF OlderOrNone
  <2>3. origin' = "stavau"
    BY <2>1, <2>2, <1>3, <1>5 DEF UnlockInv, DwellIsClose
  <2>4. CASE blind \/ unseen
    BY <2>1, <2>3, <2>4
  <2>5. CASE closeFor # None /\ closeFor >= closeSince
    <3>1. /\ gap \in Nat /\ Dwell \in Nat
          /\ closeFor \in 0 .. Dwell /\ closeSince \in 0 .. Dwell
      BY <2>2, <2>5, ConstantTypes
      DEF UnlockInv, UHistoryTypeOK, TypeOK, AutoUnlockTypeOK, AgeOrNone, Age
    <3>2. /\ closeFor' = Older(closeFor, gap, Dwell)
          /\ closeSince' = Older(closeSince, gap, Dwell)
      BY <2>2, <2>5 DEF OlderOrNone
    <3>3. closeFor' # None /\ closeFor' >= closeSince'
      BY <2>5, <3>1, <3>2 DEF Older, None
    <3> QED BY <2>3, <3>3
  <2> QED BY <2>2, <2>4, <2>5 DEF UnlockInv, DwellIsClose
<1> QED BY <1>7, <1>8, <1>9, <1>10, <1>11, <1>12

LEMMA UnlockQuiet ==
  ASSUME TypeOK, UnlockInv, UQuiet
  PROVE  /\ PolicyIdle' /\ ExpectsOwn' /\ NoticedIsKnown' /\ OriginIsOld'
         /\ TakenIsConfused' /\ ObservedIsKnown' /\ DwellIsClose'
<1>1. /\ pc = "act" /\ pc' = "poll"
      /\ UNCHANGED <<observed, reading, origin, expecting>>
      /\ screen' \in {screen, "open"}
      /\ IF Deciding THEN Decide(reading) ELSE UNCHANGED closeSince
  BY QuietOutcome DEF UQuiet
<1>2. /\ closeFor' = CloseNow /\ unseen' = (unseen \/ Opens)
      /\ noticed' = (noticed /\ ~Opens) /\ confused' = (confused /\ ~Opens)
      /\ UNCHANGED <<blind, own>>
  BY DEF UQuiet
<1>3. Opens <=> screen' # screen
  BY <1>1 DEF Opens
<1>4. PolicyIdle' /\ ExpectsOwn'
  BY <1>1, <1>2 DEF UnlockInv, PolicyIdle, ExpectsOwn, Deciding
<1>5. NoticedIsKnown' /\ OriginIsOld'
  BY <1>1, <1>2, <1>3 DEF UnlockInv, NoticedIsKnown, OriginIsOld
<1>6. TakenIsConfused'
  BY <1>1, <1>2, <1>3 DEF UnlockInv, TakenIsConfused
<1>7. ObservedIsKnown'
  BY <1>1 DEF ObservedIsKnown
<1>8. DwellIsClose'
  <2> SUFFICES ASSUME closeSince' # None
               PROVE  /\ origin' = "stavau"
                      /\ blind' \/ unseen' \/ (closeFor' # None /\ closeFor' >= closeSince')
    BY DEF DwellIsClose
  <2>1. CASE Deciding
    <3>1. /\ Close(reading)
          /\ closeSince' = IF closeSince = None THEN 0 ELSE closeSince
      BY <1>1, <2>1 DEF Decide
    <3>2. closeFor' = IF closeFor = None THEN 0 ELSE closeFor
      BY <1>2, <3>1 DEF Close, CloseNow, CloseReading
    <3>3. origin' = "stavau"
      BY <1>1, <3>1 DEF Close
    <3>4. CASE closeSince = None
      BY <3>1, <3>2, <3>3, <3>4 DEF UnlockInv, UHistoryTypeOK, AgeOrNone, Age, None
    <3>5. CASE closeSince # None
      <4>1. blind \/ unseen \/ (closeFor # None /\ closeFor >= closeSince)
        BY <3>5 DEF UnlockInv, DwellIsClose
      <4> QED BY <1>2, <3>1, <3>2, <3>3, <3>5, <4>1
    <3> QED BY <3>4, <3>5
  <2>2. CASE ~Deciding
    <3>1. closeSince' = closeSince /\ AutoUnlockOn /\ observed # "locked"
      BY <1>1, <2>2 DEF Deciding, UnlockInv, PolicyIdle
    <3>2. observed = "unknown"
      BY <1>1, <3>1 DEF UnlockInv, ObservedIsKnown, TypeOK, Observation
    <3> QED BY <1>1, <1>2, <3>1, <3>2 DEF UnlockInv, ObservedIsKnown, DwellIsClose
  <2> QED BY <2>1, <2>2
<1> QED BY <1>4, <1>5, <1>6, <1>7, <1>8

LEMMA UnlockLock ==
  ASSUME TypeOK, UnlockInv, ULock
  PROVE  /\ PolicyIdle' /\ ExpectsOwn' /\ NoticedIsKnown' /\ OriginIsOld'
         /\ TakenIsConfused' /\ ObservedIsKnown' /\ DwellIsClose'
<1>1. /\ pc = "act" /\ pc' = "poll" /\ observed # "locked"
      /\ UNCHANGED <<screen, origin, closeSince>>
      /\ IF AutoUnlockOn THEN expecting' = 0 ELSE UNCHANGED expecting
  BY DEF ULock, LockSucceeds, ActBegins, NoteStavauLock, avars
<1>2. /\ closeFor' = CloseNow /\ own' = 0
      /\ confused' = (confused \/ (screen = "user" /\ ~noticed))
      /\ UNCHANGED <<blind, unseen, noticed>>
  BY DEF ULock
<1>3. PolicyIdle' /\ ExpectsOwn' /\ NoticedIsKnown' /\ OriginIsOld'
  BY <1>1, <1>2 DEF UnlockInv, PolicyIdle, ExpectsOwn, NoticedIsKnown, OriginIsOld
<1>4. TakenIsConfused'
  BY <1>1, <1>2 DEF UnlockInv, TakenIsConfused, NoticedIsKnown
<1>5. ObservedIsKnown'
  BY <1>1 DEF ObservedIsKnown
<1>6. DwellIsClose'
  <2> SUFFICES ASSUME closeSince # None PROVE origin = "stavau" /\ blind
    BY <1>1, <1>2 DEF DwellIsClose
  <2>1. observed = "unknown"
    BY <1>1 DEF UnlockInv, ObservedIsKnown, TypeOK, Observation
  <2> QED BY <1>1, <2>1 DEF UnlockInv, ObservedIsKnown, DwellIsClose
<1> QED BY <1>3, <1>4, <1>5, <1>6

\* The steps of the other actors, and the probe's.
LEMMA UnlockOthers ==
  ASSUME TypeOK, UnlockInv,
         UProbe \/ UUserLocks \/ UUserUnlocks \/ UOther \/ URetarget \/ UNCHANGED uvars
  PROVE  /\ PolicyIdle' /\ ExpectsOwn' /\ NoticedIsKnown' /\ OriginIsOld'
         /\ TakenIsConfused' /\ ObservedIsKnown' /\ DwellIsClose'
<1>1. UNCHANGED <<origin, expecting, closeSince, observed>> /\ (pc' = pc \/ pc = "probe")
  BY DEF UProbe, Probe, UUserLocks, UserLocks, UUserUnlocks, UserUnlocks, UOther,
    LockTakesEffect, LockLost, URetarget, Retarget, LoopIdle, avars, uvars, vars, svars
<1> USE <1>1 DEF UnlockInv, PolicyIdle, ExpectsOwn, NoticedIsKnown, OriginIsOld,
                 TakenIsConfused, ObservedIsKnown, DwellIsClose
<1>2. CASE UProbe
  BY <1>2 DEF UProbe, Probe, uhist
<1>3. CASE UUserLocks
  BY <1>3 DEF UUserLocks, UserLocks
<1>4. CASE UUserUnlocks
  BY <1>4 DEF UUserUnlocks, UserUnlocks
<1>5. CASE UOther
  BY <1>5 DEF UOther, LockTakesEffect, LockLost, uhist
<1>6. CASE URetarget
  BY <1>6 DEF URetarget, Retarget
<1>7. CASE UNCHANGED uvars
  BY <1>7 DEF uvars, uhist, vars, svars
<1> QED BY <1>2, <1>3, <1>4, <1>5, <1>6, <1>7

LEMMA UnlockInvariant == USpec => [](TypeOK /\ UnlockInv)
<1>1. UInit => TypeOK /\ UnlockInv
  BY InitType, UInitIsGood DEF UInit
<1>2. TypeOK /\ UnlockInv /\ [UNext]_uvars => TypeOK' /\ UnlockInv'
  <2> SUFFICES ASSUME TypeOK, UnlockInv, [UNext]_uvars PROVE TypeOK' /\ UnlockInv'
    OBVIOUS
  <2>1. TypeOK'
    BY UnlockHistoryStep, NextType
  <2>2. UHistoryTypeOK'
    BY UHistoryTypeStep DEF UnlockInv
  <2>3. /\ PolicyIdle' /\ ExpectsOwn' /\ NoticedIsKnown' /\ OriginIsOld'
        /\ TakenIsConfused' /\ ObservedIsKnown' /\ DwellIsClose'
    BY UnlockPoll, UnlockQuiet, UnlockLock, UnlockOthers DEF UNext
  <2> QED BY <2>1, <2>2, <2>3 DEF UnlockInv
<1> QED BY <1>1, <1>2, PTL DEF USpec

\* Threat T9: autounlock.py never unlocks a lock of the user's, or a screensaver's, that
\* it could tell from stavau's own (autounlock.py:98-131); for any dwell and any window.
THEOREM ForeignLocksAreKept == USpec => ForeignLockKept
<1>1. TypeOK /\ UnlockInv => (pc = "act" /\ UnlockIssued => screen # "user" \/ confused)
  BY DEF UnlockIssued, Unlocks, UnlockFails, Deciding, Permits, Close, UnlockInv,
    TakenIsConfused
<1> QED BY <1>1, UnlockInvariant, PTL DEF ForeignLockKept

\* Threat T2: an unlock follows a whole dwell of ticks that each found the device close,
\* unless the observer lost sight of the screen meanwhile (autounlock.py:133-163).
THEOREM UnlocksFollowADwell == USpec => DwellUnlessBlind
<1>1. TypeOK /\ UnlockInv =>
        (pc = "act" /\ UnlockIssued => CloseNow >= Dwell \/ blind \/ unseen)
  <2> SUFFICES ASSUME TypeOK, UnlockInv, UnlockIssued
               PROVE  CloseNow >= Dwell \/ blind \/ unseen
    OBVIOUS
  <2>1. Close(reading) /\ closeSince # None /\ closeSince >= Dwell
    BY DEF UnlockIssued, Unlocks, UnlockFails, Permits
  <2>2. blind \/ unseen \/ (closeFor # None /\ closeFor >= closeSince)
    BY <2>1 DEF UnlockInv, DwellIsClose
  <2>3. closeFor # None => CloseNow = closeFor
    BY <2>1 DEF Close, CloseNow, CloseReading
  <2> QED
    BY <2>1, <2>2, <2>3, ConstantTypes
    DEF UnlockInv, UHistoryTypeOK, TypeOK, AutoUnlockTypeOK, AgeOrNone, Age
<1> QED BY <1>1, UnlockInvariant, PTL DEF DwellUnlessBlind
=============================================================================
