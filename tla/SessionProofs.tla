--------------------------- MODULE SessionProofs ----------------------------
(***************************************************************************)
(* Type correctness of Session, with the two parts of it that are more     *)
(* than types: the presence timer runs exactly while leaving or returning, *)
(* and a breaker that holds MaxLocks locks has tripped.                    *)
(***************************************************************************)
EXTENDS Session, FiniteSetTheorems, TLAPS

LEMMA ConstantTypes ==
  /\ Radius \in Nat /\ ReturnBelow \in Nat /\ ReturnBelow <= Radius
  /\ Grace \in Nat \ {0} /\ ReturnDwell \in Nat
  /\ MaxLocks \in Nat \ {0} /\ Window \in Nat \ {0} /\ Cooldown \in Nat \ {0}
  /\ StrictRadius \in Nat /\ Dwell \in Nat \ {0} /\ ExpectWindow \in Nat \ {0}
  /\ ProbeEvery \in Nat /\ Retry \in Nat \ {0}
  /\ Gaps \subseteq Nat \ {0} /\ Distances \subseteq Nat
BY PresenceAssumption, BreakerAssumption, AutoUnlockAssumption, RadioAssumption,
   SessionAssumption

\* Ageing keeps an age an age, and keeps None apart from the instants that are set.
LEMMA OlderType ==
  ASSUME NEW cap \in Nat, NEW gap \in Nat, NEW age \in AgeOrNone(cap)
  PROVE  /\ OlderOrNone(age, gap, cap) \in AgeOrNone(cap)
         /\ OlderOrNone(age, gap, cap) = None <=> age = None
BY DEF AgeOrNone, Age, OlderOrNone, Older, None

-----------------------------------------------------------------------------
(* Presence. *)

LEMMA UpdateType ==
  ASSUME PresenceTypeOK, NEW d, Update(d)
  PROVE  PresenceTypeOK'
<1> USE ConstantTypes DEF PresenceTypeOK, AgeOrNone, Age, TimerCap, None
<1>1. CASE Leave(d)     BY <1>1 DEF Leave
<1>2. CASE ComeBack(d)  BY <1>2 DEF ComeBack
<1>3. CASE Depart(d)    BY <1>3 DEF Depart
<1>4. CASE Return(d)    BY <1>4 DEF Return
<1>5. CASE TurnAway(d)  BY <1>5 DEF TurnAway
<1>6. CASE Settle(d)    BY <1>6 DEF Settle
<1>7. CASE Hold(d)      BY <1>7 DEF Hold, pvars
<1> QED BY <1>1, <1>2, <1>3, <1>4, <1>5, <1>6, <1>7 DEF Update

-----------------------------------------------------------------------------
(* Breaker: every set of ages is finite, and no operation grows one past the *)
(* number of locks registered.                                               *)

LEMMA AgesFinite ==
  ASSUME NEW cap \in Nat, NEW S \in SUBSET Age(cap)
  PROVE  IsFiniteSet(S)
<1>1. IsFiniteSet(0 .. cap) BY FS_Interval
<1> QED BY <1>1, FS_Subset DEF Age

LEMMA CapNat == LockAgeCap \in Nat
BY ConstantTypes DEF LockAgeCap

LEMMA AgeLocksType ==
  ASSUME NEW gap \in Nat, NEW S \in SUBSET Age(LockAgeCap)
  PROVE  /\ AgeLocks(S, gap) \in SUBSET Age(LockAgeCap)
         /\ Cardinality(AgeLocks(S, gap)) <= Cardinality(S)
         /\ Cardinality(S) \in Nat /\ Cardinality(AgeLocks(S, gap)) \in Nat
<1> DEFINE f == [a \in S |-> Older(a, gap, LockAgeCap)]
           T == AgeLocks(S, gap)
<1>1. T \subseteq Age(LockAgeCap)
  BY CapNat DEF AgeLocks, Age, Older
<1>2. IsFiniteSet(S) /\ IsFiniteSet(T)
  BY <1>1, CapNat, AgesFinite
<1>3. f \in Surjection(S, T)
  BY DEF Surjection, AgeLocks
<1>4. Cardinality(T) <= Cardinality(S)
  BY <1>2, <1>3, FS_Surjection
<1> QED BY <1>1, <1>2, <1>4, FS_CardinalityType

LEMMA RecentType ==
  ASSUME NEW S \in SUBSET Age(LockAgeCap)
  PROVE  /\ Recent(S) \in SUBSET Age(LockAgeCap)
         /\ Cardinality(Recent(S)) \in Nat /\ Cardinality(S) \in Nat
         /\ Cardinality(Recent(S)) <= Cardinality(S) + 1
<1> DEFINE K == {a \in S : a <= Window}
<1>1. Recent(S) \subseteq Age(LockAgeCap)
  <2>1. 0 \in Age(LockAgeCap) BY CapNat DEF Age
  <2> QED BY <2>1 DEF Recent
<1>2. IsFiniteSet(S) /\ IsFiniteSet(K) /\ IsFiniteSet(Recent(S))
  BY <1>1, CapNat, AgesFinite, K \in SUBSET Age(LockAgeCap)
<1>3. Cardinality(K) <= Cardinality(S)
  BY <1>2, K \subseteq S, FS_Subset
<1>4. Cardinality(Recent(S)) = IF 0 \in K THEN Cardinality(K) ELSE Cardinality(K) + 1
  BY <1>2, FS_AddElement DEF Recent
<1>5. Cardinality(K) \in Nat /\ Cardinality(S) \in Nat /\ Cardinality(Recent(S)) \in Nat
  BY <1>2, FS_CardinalityType
<1> HIDE DEF K
<1> QED BY <1>1, <1>3, <1>4, <1>5

\* is_paused(now), whichever way it answers.
LEMMA IsPausedType ==
  ASSUME BreakerTypeOK, IsPaused
  PROVE  BreakerTypeOK'
<1>1. Cardinality({}) = 0
  BY FS_EmptySet
<1>2. CASE CooldownOver
  <2>1. lockTimes' = {} /\ tripped' = None
    BY <1>2 DEF IsPaused, KeptTimes, KeptTrip
  <2> QED BY <2>1, <1>1, ConstantTypes DEF BreakerTypeOK, AgeOrNone
<1>3. CASE ~CooldownOver
  BY <1>3 DEF IsPaused, KeptTimes, KeptTrip, BreakerTypeOK
<1> QED BY <1>2, <1>3

\* A lock is registered only while the breaker is not paused, and then it holds
\* fewer than MaxLocks locks: one more never exceeds them.
LEMMA RegisterLockType ==
  ASSUME BreakerTypeOK, ~Paused, RegisterLock
  PROVE  BreakerTypeOK'
<1> DEFINE R == Recent(KeptTimes)
<1>1. KeptTimes \in SUBSET Age(LockAgeCap) /\ KeptTrip \in AgeOrNone(Cooldown)
  BY DEF KeptTimes, KeptTrip, BreakerTypeOK, AgeOrNone
<1>2. R \in SUBSET Age(LockAgeCap) /\ Cardinality(R) \in Nat
      /\ Cardinality(KeptTimes) \in Nat /\ Cardinality(R) <= Cardinality(KeptTimes) + 1
  BY <1>1, RecentType
<1>3. Cardinality(KeptTimes) < MaxLocks
  <2>1. CASE CooldownOver
    BY <2>1, FS_EmptySet, ConstantTypes DEF KeptTimes
  <2>2. CASE ~CooldownOver
    <3>1. KeptTimes = lockTimes
      BY <2>2 DEF KeptTimes
    <3>2. tripped = None
      BY <2>2, ConstantTypes DEF Paused, CooldownOver, BreakerTypeOK, AgeOrNone, Age
    <3> QED BY <3>1, <3>2, <1>2, ConstantTypes DEF BreakerTypeOK
  <2> QED BY <2>1, <2>2
<1>4. lockTimes' = R /\ tripped' = IF Cardinality(R) >= MaxLocks THEN 0 ELSE KeptTrip
  BY DEF RegisterLock
<1> HIDE DEF R
<1>5. tripped' \in AgeOrNone(Cooldown)
  BY <1>1, <1>4, ConstantTypes DEF AgeOrNone, Age
<1>6. Cardinality(lockTimes') <= MaxLocks
  BY <1>2, <1>3, <1>4, ConstantTypes
<1>7. Cardinality(lockTimes') = MaxLocks => tripped' # None
  BY <1>4, ConstantTypes DEF None
<1> QED BY <1>2, <1>4, <1>5, <1>6, <1>7 DEF BreakerTypeOK

-----------------------------------------------------------------------------
(* Auto-unlock. *)

LEMMA ObservedType ==
  ASSUME AutoUnlockTypeOK, NEW gap \in Nat, NEW seen \in Observation,
         NoteLockObserved(seen, gap)
  PROVE  AutoUnlockTypeOK'
<1> DEFINE age == OlderOrNone(expecting, gap, ExpectCap)
<1>1. ExpectCap \in Nat /\ Dwell \in Nat
  BY ConstantTypes DEF ExpectCap
<1>2. age \in AgeOrNone(ExpectCap) /\ OlderOrNone(closeSince, gap, Dwell) \in AgeOrNone(Dwell)
  BY <1>1, OlderType DEF AutoUnlockTypeOK
<1>3. None \in AgeOrNone(ExpectCap) /\ None \in AgeOrNone(Dwell)
  BY DEF AgeOrNone
<1> HIDE DEF age
<1>4. CASE seen = "locked"
  BY <1>4, <1>2, <1>3 DEF NoteLockObserved, AutoUnlockTypeOK, age
<1>5. CASE seen = "unlocked"
  BY <1>5, <1>2, <1>3 DEF NoteLockObserved, AutoUnlockTypeOK, age
<1>6. CASE seen = "unknown"
  BY <1>6, <1>2, <1>3 DEF NoteLockObserved, AutoUnlockTypeOK, age
<1> QED BY <1>4, <1>5, <1>6 DEF Observation

LEMMA DecideType ==
  ASSUME AutoUnlockTypeOK, NEW d, Decide(d)
  PROVE  AutoUnlockTypeOK'
BY ConstantTypes DEF AutoUnlockTypeOK, Decide, AgeOrNone, Age

LEMMA NoteStavauLockType ==
  ASSUME AutoUnlockTypeOK, NoteStavauLock
  PROVE  AutoUnlockTypeOK'
BY ConstantTypes DEF AutoUnlockTypeOK, NoteStavauLock, AgeOrNone, Age, ExpectCap

-----------------------------------------------------------------------------
(* The session. *)

LEMMA ElapseType ==
  ASSUME PresenceTypeOK, BreakerTypeOK, pending \in AgeOrNone(Retry),
         NEW gap \in Nat, Elapse(gap)
  PROVE  PresenceTypeOK' /\ BreakerTypeOK' /\ pending' \in AgeOrNone(Retry)
<1>1. TimerCap \in Nat /\ Cooldown \in Nat /\ Retry \in Nat
  BY ConstantTypes DEF TimerCap
<1>2. PresenceTypeOK'
  BY <1>1, OlderType DEF PresenceTypeOK, Elapse
<1>3. pending' \in AgeOrNone(Retry)
  BY <1>1, OlderType DEF Elapse
<1>4. tripped' \in AgeOrNone(Cooldown) /\ (tripped' = None <=> tripped = None)
  BY <1>1, OlderType DEF BreakerTypeOK, Elapse
<1>5. /\ lockTimes' \in SUBSET Age(LockAgeCap)
      /\ Cardinality(lockTimes') <= Cardinality(lockTimes)
      /\ Cardinality(lockTimes) \in Nat /\ Cardinality(lockTimes') \in Nat
  BY AgeLocksType DEF BreakerTypeOK, Elapse
<1>6. BreakerTypeOK'
  BY <1>4, <1>5, ConstantTypes DEF BreakerTypeOK
<1> QED BY <1>2, <1>3, <1>6

LEMMA ActType ==
  ASSUME TypeOK, ActBegins
  PROVE  /\ PresenceTypeOK' /\ RadioTypeOK'
         /\ pc' = "poll" /\ observed' \in Observation /\ reading' \in Reading
         /\ StillOwed \in AgeOrNone(Retry)
         /\ 0 \in AgeOrNone(Retry) /\ None \in AgeOrNone(Retry)
<1>1. PresenceTypeOK'
  BY UpdateType DEF TypeOK, ActBegins
<1>2. RadioTypeOK'
  BY DEF TypeOK, ActBegins, RadioTypeOK, ReportRadio
<1>3. 0 \in AgeOrNone(Retry) /\ None \in AgeOrNone(Retry)
  BY ConstantTypes DEF AgeOrNone, Age
<1>4. StillOwed \in AgeOrNone(Retry)
  BY <1>3 DEF StillOwed, TypeOK
<1> QED BY <1>1, <1>2, <1>3, <1>4 DEF TypeOK, ActBegins

LEMMA MayUnlockType ==
  ASSUME TypeOK, MayUnlock
  PROVE  AutoUnlockTypeOK' /\ screen' \in {"open", "stavau", "user"}
<1>1. CASE NoUnlock
  <2>1. CASE Deciding     BY <1>1, <2>1, DecideType DEF NoUnlock, TypeOK
  <2>2. CASE ~Deciding    BY <1>1, <2>2 DEF NoUnlock, TypeOK, AutoUnlockTypeOK, avars
  <2> QED BY <2>1, <2>2
<1>2. CASE Unlocks        BY <1>2, DecideType DEF Unlocks, TypeOK
<1>3. CASE UnlockFails    BY <1>3, DecideType DEF UnlockFails, TypeOK
<1> QED BY <1>1, <1>2, <1>3 DEF MayUnlock

LEMMA PollType ==
  ASSUME TypeOK, NEW gap \in Gaps, NEW seen \in Observation, NEW d \in Reading,
         Poll(gap, seen, d)
  PROVE  TypeOK'
<1>1. gap \in Nat
  BY ConstantTypes
<1>2. PresenceTypeOK' /\ BreakerTypeOK' /\ pending' \in AgeOrNone(Retry)
  BY <1>1, ElapseType DEF TypeOK, Poll
<1>3. AutoUnlockTypeOK' /\ observed' \in Observation
  <2>1. CASE AutoUnlockOn    BY <1>1, <2>1, ObservedType DEF TypeOK, Poll, Observe
  <2>2. CASE ~AutoUnlockOn
    BY <2>2 DEF TypeOK, Poll, Observe, AutoUnlockTypeOK, avars
  <2> QED BY <2>1, <2>2
<1>4. RadioTypeOK' /\ pc' \in {"poll", "probe", "act"}
  <2>1. CASE SignalSeen /\ pc' = "act"
    BY <2>1, ConstantTypes DEF TypeOK, RadioTypeOK, RadioState, SignalSeen
  <2>2. CASE UNCHANGED rvars /\ pc' = "probe"
    BY <2>2 DEF TypeOK, RadioTypeOK, rvars
  <2>3. CASE ~ProbeDue /\ ProbeSkipped /\ pc' = "act"
    BY <2>3, ConstantTypes DEF TypeOK, RadioTypeOK, ProbeDue, ProbeSkipped
  <2> QED BY <2>1, <2>2, <2>3 DEF Poll
<1> QED BY <1>2, <1>3, <1>4 DEF TypeOK, Poll

LEMMA ActionsType ==
  ASSUME TypeOK, Act
  PROVE  TypeOK'
<1>1. CASE NothingDue
  BY <1>1, ActType, IsPausedType, MayUnlockType DEF TypeOK, NothingDue
<1>2. CASE Suppressed
  BY <1>2, ActType, IsPausedType, MayUnlockType DEF TypeOK, Suppressed
<1>3. CASE SkippedLocked
  BY <1>3, ActType, IsPausedType, MayUnlockType DEF TypeOK, SkippedLocked
<1>4. CASE LockSucceeds
  <2>1. AutoUnlockTypeOK'
    <3>1. CASE AutoUnlockOn    BY <1>4, <3>1, NoteStavauLockType DEF TypeOK, LockSucceeds
    <3>2. CASE ~AutoUnlockOn
      BY <1>4, <3>2 DEF TypeOK, LockSucceeds, AutoUnlockTypeOK, avars
    <3> QED BY <3>1, <3>2
  <2> QED BY <1>4, <2>1, ActType, RegisterLockType DEF TypeOK, LockSucceeds
<1>5. CASE LockFails
  <2>1. AutoUnlockTypeOK'
    BY <1>5 DEF TypeOK, LockFails, AutoUnlockTypeOK, avars
  <2> QED BY <1>5, <2>1, ActType, IsPausedType DEF TypeOK, LockFails
<1> QED BY <1>1, <1>2, <1>3, <1>4, <1>5 DEF Act

LEMMA ProbeType ==
  ASSUME TypeOK, NEW answer \in RadioState, Probe(answer)
  PROVE  TypeOK'
BY ConstantTypes
   DEF TypeOK, Probe, Probed, pvars, bvars, avars, PresenceTypeOK, BreakerTypeOK,
       AutoUnlockTypeOK, RadioTypeOK

LEMMA EnvironmentType ==
  ASSUME TypeOK, Environment
  PROVE  TypeOK'
<1> USE DEF TypeOK, LoopIdle, bvars, avars, rvars, BreakerTypeOK, AutoUnlockTypeOK,
            RadioTypeOK
<1>1. CASE UserLocks        BY <1>1 DEF UserLocks, PresenceTypeOK, pvars
<1>2. CASE UserUnlocks      BY <1>2 DEF UserUnlocks, PresenceTypeOK, pvars
<1>3. CASE LockTakesEffect  BY <1>3 DEF LockTakesEffect, PresenceTypeOK, pvars
<1>4. CASE LockLost         BY <1>4 DEF LockLost, PresenceTypeOK, pvars
<1>5. CASE Retarget
  BY <1>5 DEF Retarget, ResetMachine, PresenceTypeOK, AgeOrNone
<1> QED BY <1>1, <1>2, <1>3, <1>4, <1>5 DEF Environment

LEMMA InitType == Init => TypeOK
<1> SUFFICES ASSUME Init PROVE TypeOK
  OBVIOUS
<1> USE ConstantTypes DEF Init
<1>1. PresenceTypeOK
  BY DEF NewMachine, PresenceTypeOK, AgeOrNone
<1>2. BreakerTypeOK
  BY FS_EmptySet DEF NewBreaker, BreakerTypeOK, AgeOrNone
<1>3. AutoUnlockTypeOK
  BY DEF NewPolicy, AutoUnlockTypeOK, AgeOrNone
<1>4. RadioTypeOK
  <2>1. sinceProbe \in 0 .. ProbeEvery
    BY DEF NewRadioWatch
  <2> QED BY <2>1 DEF NewRadioWatch, RadioTypeOK, RadioState
<1> QED
  BY <1>1, <1>2, <1>3, <1>4 DEF TypeOK, Observation, Reading, AgeOrNone

LEMMA StutterType == TypeOK /\ UNCHANGED vars => TypeOK'
BY DEF vars, pvars, bvars, avars, rvars, svars, TypeOK, PresenceTypeOK, BreakerTypeOK,
       AutoUnlockTypeOK, RadioTypeOK

LEMMA NextType == TypeOK /\ [Next]_vars => TypeOK'
<1> SUFFICES ASSUME TypeOK, [Next]_vars PROVE TypeOK'
  OBVIOUS
<1>1. CASE \E gap \in Gaps, seen \in Observation, d \in Reading : Poll(gap, seen, d)
  BY <1>1, PollType
<1>2. CASE \E answer \in RadioState : Probe(answer)
  BY <1>2, ProbeType
<1>3. CASE Act            BY <1>3, ActionsType
<1>4. CASE Environment    BY <1>4, EnvironmentType
<1>5. CASE UNCHANGED vars BY <1>5, StutterType
<1> QED BY <1>1, <1>2, <1>3, <1>4, <1>5 DEF Next, Tick

\* Every reachable state of the session is well typed, its presence timer runs
\* exactly in the two timed states, and its breaker never holds MaxLocks locks
\* without having tripped, whatever the thresholds and the readings.
THEOREM TypeCorrect == Spec => []TypeOK
BY InitType, NextType, PTL DEF Spec
=============================================================================
