----------------------------- MODULE GattProofs -----------------------------
(***************************************************************************)
(* The safety promises of the GATT source, for any number of devices and   *)
(* any pace of polling and of backing off.                                 *)
(***************************************************************************)
EXTENDS GattHistory, TLAPS

-----------------------------------------------------------------------------
(* Types. *)

LEMMA AttemptTypeStep ==
  ASSUME TypeOK, Attempt \/ Start
  PROVE  TypeOK'
<1> USE TrackerAssumption, GattAssumption
    DEF TypeOK, TrackerTypeOK, tvars, Sleeping, Awaits, Statements, BackingOff
<1>1. CASE Start            BY <1>1 DEF Start
<1>2. CASE Begin            BY <1>2 DEF Begin
<1>3. CASE TakeAddress      BY <1>3 DEF TakeAddress
<1>4. CASE TakeGeneration   BY <1>4 DEF TakeGeneration
<1>5. CASE Connected        BY <1>5 DEF Connected
<1>6. CASE ConnectFails     BY <1>6 DEF ConnectFails
<1> QED BY <1>1, <1>2, <1>3, <1>4, <1>5, <1>6 DEF Attempt

LEMMA PollTypeStep ==
  ASSUME TypeOK, Poll \/ Dropped \/ Backoff
  PROVE  TypeOK'
<1> USE TrackerAssumption, GattAssumption
    DEF TypeOK, TrackerTypeOK, tvars, Sleeping, Awaits, Statements, BackingOff
<1>1. CASE Check            BY <1>1 DEF Check
<1>2. CASE Reads            BY <1>2 DEF Reads
<1>3. CASE ReadsNothing     BY <1>3 DEF ReadsNothing
<1>4. ASSUME NEW s \in BOOLEAN, Sample(s) PROVE TypeOK'
  <2>1. Streak(s) \in 0 .. StrongStreak
    BY DEF Streak
  <2>2. PollInterval(Streak(s)) \in Nat
    BY DEF PollInterval
  <2>3. TrackerTypeOK'
    BY <1>4 DEF Sample, Push, PushStamped, Age, AgeOrNone, None
  <2> QED BY <1>4, <2>1, <2>2, <2>3 DEF Sample
<1>5. CASE Wakes            BY <1>5 DEF Wakes
<1>6. CASE Dropped          BY <1>6 DEF Dropped
<1>7. CASE AfterAttempt     BY <1>7 DEF AfterAttempt
<1>8. CASE TakeDelay        BY <1>8 DEF TakeDelay
<1>9. CASE Double           BY <1>9 DEF Double
<1>10. CASE Rest            BY <1>10 DEF Rest
<1> QED
  BY <1>1, <1>2, <1>3, <1>4, <1>5, <1>6, <1>7, <1>8, <1>9, <1>10 DEF Poll, Backoff

LEMMA OtherTypeStep ==
  ASSUME TypeOK, Tray \/ Stop \/ Stopping \/ LinkLost \/ Second
  PROVE  TypeOK'
<1> USE TrackerAssumption, GattAssumption
    DEF TypeOK, TrackerTypeOK, tvars, loopVars, Sleeping, Awaits, Statements, BackingOff
<1>1. CASE \E d \in Device : Choose(d)      BY <1>1 DEF Choose
<1>2. CASE NewGeneration    BY <1>2 DEF NewGeneration
<1>3. CASE Forget           BY <1>3 DEF Forget
<1>4. CASE ResetTracker     BY <1>4 DEF ResetTracker, Reset, AgeOrNone
<1>5. CASE Stop             BY <1>5 DEF Stop
<1>6. CASE GiveUp           BY <1>6 DEF GiveUp
<1>7. CASE Joined
  BY <1>7 DEF Joined
<1>8. CASE Disconnected     BY <1>8 DEF Disconnected
<1>9. CASE LinkLost
  <2>1. /\ linked' \in BOOLEAN
        /\ UNCHANGED <<tvars, phase, loopVars, address, backoff, strong, tray>>
    BY <1>9 DEF LinkLost
  <2> QED BY <2>1
<1>10. CASE Second
  <2>1. TrackerTypeOK'
    BY <1>10 DEF Second, TrackerAges, Older, OlderOrNone, Age, AgeOrNone, None
  <2> QED BY <1>10, <2>1 DEF Second, TrackerAges
<1> QED
  BY <1>1, <1>2, <1>3, <1>4, <1>5, <1>6, <1>7, <1>8, <1>9, <1>10 DEF Tray, Stopping

\* The history variables guard no step, and keep their types.
LEMMA GattHistoryStep ==
  ASSUME GTypeOK, GNext
  PROVE  /\ Next
         /\ torn' \in BOOLEAN /\ overtaken' \in BOOLEAN /\ strays' \in 0 .. 2
         /\ steady' \in BOOLEAN /\ rested' \in BOOLEAN /\ outpaced' \in BOOLEAN
<1> USE DEF GTypeOK
<1>1. CASE GTakeGeneration
  BY <1>1 DEF GTakeGeneration, Next, Task, Attempt
<1>2. CASE GConnected       BY <1>2 DEF GConnected, Next, Task, Attempt
<1>3. CASE GSample
  <2>1. Next
    BY <1>3 DEF GSample, Next, Task, Poll
  <2>2. strays' \in 0 .. 2
    <3>1. CASE wanted # address /\ strays < 2   BY <1>3, <3>1 DEF GSample
    <3>2. CASE ~(wanted # address /\ strays < 2)   BY <1>3, <3>2 DEF GSample
    <3> QED BY <3>1, <3>2
  <2> QED BY <1>3, <2>1, <2>2 DEF GSample
<1>4. CASE GPoll            BY <1>4 DEF GPoll, Next, Task, Poll
<1>5. CASE GForget
  <2>1. Next /\ rested' = FALSE /\ UNCHANGED <<torn, overtaken, strays, steady>>
    BY <1>5 DEF GForget, Next, Tray
  <2>2. outpaced' \in BOOLEAN
    BY <1>5 DEF GForget
  <2> QED BY <2>1, <2>2
<1>6. CASE GReset
  <2>1. Next /\ strays' = 0
    BY <1>6 DEF GReset, Next, Tray
  <2>2. torn' \in BOOLEAN /\ overtaken' \in BOOLEAN /\ steady' \in BOOLEAN
    BY <1>6 DEF GReset, TornNow
  <2>3. UNCHANGED <<rested, outpaced>>
    BY <1>6 DEF GReset
  <2> QED BY <2>1, <2>2, <2>3
<1>7. CASE GOther
  BY <1>7 DEF GOther, ghist, Next, Task, Attempt, Poll, Tray, Backoff
<1>8. CASE GRest            BY <1>8 DEF GRest, Next, Task, Backoff
<1> QED BY <1>1, <1>2, <1>3, <1>4, <1>5, <1>6, <1>7, <1>8 DEF GNext

LEMMA GTypeStep ==
  ASSUME GTypeOK, [GNext]_gvars
  PROVE  GTypeOK'
<1>1. CASE GNext
  <2>1. Next => TypeOK'
    BY AttemptTypeStep, PollTypeStep, OtherTypeStep DEF GTypeOK, Next, Task
  <2> QED BY <1>1, <2>1, GattHistoryStep DEF GTypeOK
<1>2. CASE UNCHANGED gvars
  <2>1. TypeOK'
    BY <1>2 DEF gvars, vars, tvars, loopVars, GTypeOK, TypeOK, TrackerTypeOK
  <2> QED BY <1>2, <2>1 DEF gvars, ghist, GTypeOK
<1> QED BY <1>1, <1>2

\* Every reachable state is well typed; the source records a client exactly from the
\* connection to the end of its disconnect, and sleeps no longer than it asked to.
THEOREM GattTypeCorrect == GSpec => []GTypeOK
<1>1. GInit => GTypeOK
  <2> SUFFICES ASSUME GInit PROVE GTypeOK
    OBVIOUS
  <2> USE DEF GInit, Init
  <2>1. TrackerTypeOK
    BY DEF NewTracker, TrackerTypeOK, AgeOrNone
  <2>2. /\ backoff \in BackoffInitial .. BackoffMax /\ doubled \in BackoffInitial .. BackoffMax
        /\ strong \in 0 .. StrongStreak
    BY GattAssumption
  <2>3. turned \in BOOLEAN /\ outdated \in BOOLEAN /\ linked \in BOOLEAN
    OBVIOUS
  <2>4. pc = "none" /\ phase = "new" /\ tray = "idle" /\ client = NoDevice
        /\ address \in Device /\ wanted \in Device /\ delay \in Nat /\ elapsed \in Nat
    OBVIOUS
  <2>5. TypeOK
    BY <2>1, <2>2, <2>3, <2>4 DEF TypeOK, Statements, Awaits, Sleeping
  <2>6. strays \in 0 .. 2
    OBVIOUS
  <2>7. /\ torn \in BOOLEAN /\ overtaken \in BOOLEAN /\ steady \in BOOLEAN
        /\ rested \in BOOLEAN /\ outpaced \in BOOLEAN
    OBVIOUS
  <2> QED BY <2>5, <2>6, <2>7 DEF GTypeOK
<1> QED BY <1>1, GTypeStep, PTL DEF GSpec

-----------------------------------------------------------------------------
(* Whose samples the tracker averages. *)

\* The steps of the task outside the polling loop that no history variable records.
Idles ==
  \/ Start \/ Begin \/ TakeAddress \/ ConnectFails \/ Wakes \/ Dropped
  \/ AfterAttempt \/ TakeDelay \/ Double

\* What the steps that neither sample nor retarget leave alone.
Held == UNCHANGED <<heard, address, tray, torn, overtaken, strays>>

LEMMA FollowHeld ==
  ASSUME GTypeOK, FollowInv, Held, TornNow' => TornNow, Straying' => Straying \/ TornNow
  PROVE  FollowInv'
<1> USE DEF Held, FollowInv, Settled
<1>1. (TornNow => torn \/ tray = "generation")'
  OBVIOUS
<1>2. (Settled => heard \subseteq {address} \/ torn \/ overtaken)'
  OBVIOUS
<1>3. (Settled /\ Straying => torn \/ overtaken)'
  OBVIOUS
<1>4. (Settled /\ ~torn => strays <= 1 /\ (Straying => strays = 0))'
  OBVIOUS
<1> QED BY <1>1, <1>2, <1>3, <1>4

LEMMA FollowStep ==
  ASSUME GTypeOK, FollowInv, [GNext]_gvars
  PROVE  FollowInv'
<1> USE DEF Held, TornNow, Straying, Connecting
<1>1. CASE GTakeGeneration
  <2>1. /\ pc' = "connecting" /\ outdated' = FALSE /\ strays' = strays
        /\ UNCHANGED <<heard, address, wanted, tray, overtaken>>
    BY <1>1 DEF GTakeGeneration, TakeGeneration, tvars
  <2>2. torn' <=> torn \/ (wanted # address /\ tray # "generation")
    BY <1>1 DEF GTakeGeneration, GTypeOK
  <2>3. (TornNow => torn \/ tray = "generation")'
    BY <2>1, <2>2
  <2>4. (Settled => heard \subseteq {address} \/ torn \/ overtaken)'
    BY <2>1, <2>2 DEF FollowInv, Settled
  <2>5. (Settled /\ ~torn => strays <= 1)'
    BY <2>1, <2>2 DEF FollowInv, Settled
  <2>6. ~Straying'
    BY <2>1
  <2> QED BY <2>3, <2>4, <2>5, <2>6 DEF FollowInv
<1>2. CASE GSample
  <2>1. /\ pc = "push" /\ pc' = "polling"
        /\ heard' \subseteq heard \cup {wanted}
        /\ UNCHANGED <<address, wanted, outdated, tray, torn, overtaken>>
    BY <1>2 DEF GSample, Sample, Push, PushStamped
  <2>2. strays' = IF wanted # address /\ strays < 2 THEN strays + 1 ELSE strays
    BY <1>2 DEF GSample
  <2>3. (TornNow => torn \/ tray = "generation")'
    BY <2>1 DEF FollowInv
  <2>4. (Settled => heard \subseteq {address} \/ torn \/ overtaken)'
    BY <2>1 DEF FollowInv, Settled
  <2>5. (Settled /\ ~torn => strays <= 1)'
    <3>1. CASE wanted # address
      <4>1. Settled /\ ~torn => strays = 0
        BY <2>1, <3>1 DEF FollowInv
      <4>2. strays = 0 => strays' = 1
        BY <2>2, <3>1
      <4> QED BY <2>1, <4>1, <4>2 DEF Settled
    <3>2. CASE wanted = address
      <4>1. strays' = strays
        BY <2>2, <3>2
      <4> QED BY <2>1, <4>1 DEF FollowInv, Settled
    <3> QED BY <3>1, <3>2
  <2>6. ~Straying'
    BY <2>1
  <2> QED BY <2>3, <2>4, <2>5, <2>6 DEF FollowInv
<1>3. CASE GReset
  <2>1. /\ tray = "reset" /\ heard' = {} /\ strays' = 0
        /\ UNCHANGED <<pc, address, wanted, outdated>>
    BY <1>3 DEF GReset, ResetTracker, Reset, loopVars
  <2>2. (torn' <=> torn /\ TornNow) /\ (overtaken' <=> Straying)
    BY <1>3 DEF GReset
  <2> QED BY <2>1, <2>2 DEF FollowInv, Settled
<1>4. CASE GForget
  <2>1. /\ tray = "forget" /\ tray' = "reset"
        /\ UNCHANGED <<pc, address, wanted, outdated, torn>>
    BY <1>4 DEF GForget, Forget, loopVars
  <2> QED BY <2>1 DEF FollowInv, Settled
<1>5. CASE GOther /\ \E d \in Device : Choose(d)
  <2>1. tray' = "generation"
    BY <1>5 DEF Choose
  <2> QED BY <2>1 DEF FollowInv, Settled
<1>6. CASE GOther /\ NewGeneration
  <2>1. tray' = "forget" /\ outdated'
    BY <1>6 DEF NewGeneration
  <2> QED BY <2>1 DEF FollowInv, Settled
<1>7. CASE GConnected
  <2>1. Held
    BY <1>7 DEF GConnected, Connected, tvars
  <2>2. TornNow' => TornNow
    BY <1>7 DEF GConnected, Connected
  <2>3. ~Straying'
    BY <1>7 DEF GConnected, Connected
  <2> QED BY <2>1, <2>2, <2>3, FollowHeld
<1>8. CASE GPoll
  <2>1. Held
    BY <1>8 DEF GPoll, Check, Reads, ReadsNothing, Stop, tvars
  <2>2. TornNow' => TornNow
    BY <1>8 DEF GPoll, Check, Reads, ReadsNothing, Stop
  <2>3. Straying' => TornNow
    BY <1>8 DEF GPoll, Check, Reads, ReadsNothing, Stop
  <2> QED BY <2>1, <2>2, <2>3, FollowHeld
<1>9. CASE GRest \/ (GOther /\ Idles)
  <2>1. Held
    BY <1>9 DEF GOther, ghist, GRest, Idles, Start, Begin, TakeAddress, ConnectFails, Wakes,
                Dropped, Backoff, AfterAttempt, TakeDelay, Double, Rest, tvars
  <2>2. TornNow' => TornNow
    BY <1>9 DEF GRest, Idles, Start, Begin, TakeAddress, ConnectFails, Wakes, Dropped,
                AfterAttempt, TakeDelay, Double, Rest
  <2>3. ~Straying'
    BY <1>9 DEF GRest, Idles, Start, Begin, TakeAddress, ConnectFails, Wakes, Dropped,
                AfterAttempt, TakeDelay, Double, Rest
  <2> QED BY <2>1, <2>2, <2>3, FollowHeld
<1>10. CASE GOther /\ (Stopping \/ LinkLost \/ Second)
  <2>1. Held
    BY <1>10 DEF GOther, ghist, Stopping, GiveUp, Joined, Disconnected, LinkLost, Second,
                 TrackerAges, loopVars, tvars
  <2>2. UNCHANGED <<wanted, outdated>> /\ (pc' = pc \/ pc' = "done")
    BY <1>10 DEF Stopping, GiveUp, Joined, Disconnected, LinkLost, Second, loopVars
  <2> QED BY <2>1, <2>2, FollowHeld
<1>11. CASE UNCHANGED gvars
  <2>1. Held /\ UNCHANGED <<wanted, outdated, pc>>
    BY <1>11 DEF gvars, vars, ghist, tvars, loopVars
  <2> QED BY <2>1, FollowHeld
<1> QED
  BY <1>1, <1>2, <1>3, <1>4, <1>5, <1>6, <1>7, <1>8, <1>9, <1>10, <1>11
     DEF GNext, GOther, Idles

LEMMA FollowInvariant == GSpec => []FollowInv
<1>1. GInit => FollowInv
  BY DEF GInit, Init, NewTracker, FollowInv, TornNow, Straying, Connecting
<1> QED BY <1>1, FollowStep, GattTypeCorrect, PTL DEF GSpec

\* After a retarget the tracker averages the chosen device's samples only, but for the
\* two races of the tray's thread with the task.
THEOREM TrackerFollowsTarget == GSpec => []TrackerIsTarget
<1>1. FollowInv => TrackerIsTarget
  BY DEF FollowInv, TrackerIsTarget
<1> QED BY <1>1, FollowInvariant, PTL

\* A sample that slips past the guard is the only one: the next round drops the
\* connection it came from.
THEOREM StraysAreSingle == GSpec => []AtMostOneStray
<1>1. FollowInv => AtMostOneStray
  BY DEF FollowInv, AtMostOneStray
<1> QED BY <1>1, FollowInvariant, PTL

-----------------------------------------------------------------------------
(* How old the latest sample is. *)

Dated == UNCHANGED <<steady, lastSeen>>

LEMMA SteadyStep ==
  ASSUME GTypeOK, SteadyInv, [GNext]_gvars
  PROVE  SteadyInv'
<1> USE GattAssumption DEF SteadyInv, Dated
<1>1. CASE GSample
  <2>1. pc' = "polling" /\ lastSeen' = 0 /\ elapsed' = 0
        /\ \E streak \in 0 .. StrongStreak : delay' = PollInterval(streak)
    BY <1>1 DEF GSample, Sample, Push, PushStamped, Streak, GTypeOK, TypeOK
  <2>2. delay' <= RelaxedPoll
    BY <2>1 DEF PollInterval
  <2> QED BY <2>1, <2>2 DEF None
<1>2. CASE GPoll /\ Check
  <2>1. CASE steady' = FALSE
    BY <2>1
  <2>2. CASE pc' = "reading" /\ steady
    BY <1>2, <2>2 DEF Check, tvars
  <2> QED BY <1>2, <2>1, <2>2 DEF GPoll, Check, GTypeOK
<1>3. CASE GPoll /\ Reads
  <2>1. CASE steady' = FALSE
    BY <2>1
  <2>2. CASE pc' = "push" /\ steady
    <3>1. pc = "reading" /\ lastSeen' = lastSeen
      BY <1>3, <2>2 DEF Reads, tvars
    <3> QED BY <2>2, <3>1, TrackerAssumption
            DEF GTypeOK, TypeOK, TrackerTypeOK, AgeOrNone, Age, None
  <2> QED BY <1>3, <2>1, <2>2 DEF GPoll, Reads, GTypeOK
<1>4. CASE GPoll /\ (ReadsNothing \/ Stop)
  <2>1. ~steady'
    BY <1>4 DEF GPoll, ReadsNothing, Stop
  <2> QED BY <2>1
<1>5. CASE GReset
  BY <1>5 DEF GReset
<1>6. CASE GTakeGeneration \/ GConnected \/ GRest
  <2>1. pc \in {"generation", "connecting", "store"} /\ steady' = steady
    BY <1>6 DEF GTakeGeneration, TakeGeneration, GConnected, Connected, GRest, Rest
  <2> QED BY <2>1
<1>7. CASE GForget
  BY <1>7 DEF GForget, Forget, loopVars, tvars
<1>8. CASE GOther /\ ((\E d \in Device : Choose(d)) \/ NewGeneration \/ LinkLost)
  BY <1>8 DEF GOther, ghist, Choose, NewGeneration, LinkLost, loopVars, tvars
<1>9. CASE GOther /\ ((Idles /\ ~Wakes) \/ Stopping)
  <2>1. ~steady
    BY <1>9 DEF Idles, Start, Begin, TakeAddress, ConnectFails, Dropped, AfterAttempt,
                TakeDelay, Double, Stopping, GiveUp, Joined, Disconnected, GTypeOK, TypeOK
  <2>2. steady' = steady
    BY <1>9 DEF GOther, ghist
  <2> QED BY <2>1, <2>2
<1>10. CASE GOther /\ Wakes
  <2>1. /\ (pc = "polling" /\ pc' = "check") \/ (pc = "resting" /\ pc' = "top")
        /\ elapsed = delay /\ UNCHANGED <<steady, lastSeen>>
    BY <1>10 DEF GOther, ghist, Wakes, Sleeping, tvars
  <2>2. lastSeen \in Int /\ elapsed \in Nat
    BY TrackerAssumption DEF GTypeOK, TypeOK, TrackerTypeOK, AgeOrNone, Age, None
  <2>3. steady => pc' = "check" /\ lastSeen # None /\ lastSeen <= RelaxedPoll
    BY <2>1, <2>2
  <2> QED BY <2>1, <2>3
<1>11. CASE GOther /\ Second
  <2>1. CASE ~steady
    BY <1>11, <2>1 DEF GOther, ghist
  <2>2. CASE steady
    <3>1. pc \in {"polling", "reading"} /\ elapsed' = elapsed + 1 /\ UNCHANGED <<pc, delay>>
      BY <1>11, <2>2 DEF Second, Statements, Sleeping
    <3>2. lastSeen' <= lastSeen + 1 /\ lastSeen' # None
      BY <1>11, <2>2, TrackerAssumption
         DEF Second, TrackerAges, OlderOrNone, Older, GTypeOK, TypeOK, TrackerTypeOK,
             AgeOrNone, Age, None
    <3>3. /\ lastSeen \in Int /\ lastSeen' \in Int /\ elapsed \in Nat
      BY <1>11, TrackerAssumption
         DEF Second, TrackerAges, OlderOrNone, Older, GTypeOK, TypeOK, TrackerTypeOK,
             AgeOrNone, Age, None
    <3>4. CASE pc = "polling"
      BY <2>2, <3>1, <3>2, <3>3, <3>4
    <3>5. CASE pc = "reading"
      BY <2>2, <3>1, <3>2, <3>3, <3>5
    <3> QED BY <3>1, <3>4, <3>5
  <2> QED BY <2>1, <2>2 DEF GTypeOK
<1>12. CASE UNCHANGED gvars
  BY <1>12 DEF gvars, vars, ghist, tvars, loopVars
<1> QED
  BY <1>1, <1>2, <1>3, <1>4, <1>5, <1>6, <1>7, <1>8, <1>9, <1>10, <1>11, <1>12
     DEF GNext, GOther, GPoll, Idles

\* While every reading succeeds the tracker never goes stale, at the relaxed pace too,
\* if that pace and a reading together are no longer than the tracker's patience.
THEOREM SteadyDeviceStaysFresh == GSpec => []SteadyIsFresh
<1>1. GInit => SteadyInv
  BY DEF GInit, SteadyInv
<1>2. GTypeOK /\ SteadyInv => SteadyIsFresh
  <2> SUFFICES ASSUME GTypeOK, SteadyInv, RelaxedPoll + ReadTimeout <= StaleSeconds, steady
               PROVE  ~Silent
    BY DEF SteadyIsFresh
  <2>1. lastSeen \in Int /\ elapsed \in Nat /\ delay \in Nat
    BY TrackerAssumption DEF GTypeOK, TypeOK, TrackerTypeOK, AgeOrNone, Age, None
  <2>2. pc = "reading" => elapsed <= ReadTimeout
    BY DEF GTypeOK, TypeOK
  <2>3. pc = "polling" => elapsed <= delay
    BY DEF GTypeOK, TypeOK, Sleeping
  <2>4. lastSeen # None /\ lastSeen <= StaleSeconds
    BY <2>1, <2>2, <2>3, GattAssumption, TrackerAssumption DEF SteadyInv
  <2> QED BY <2>1, <2>4, TrackerAssumption DEF Silent, Stale
<1> QED BY <1>1, <1>2, SteadyStep, GattTypeCorrect, PTL DEF GSpec

-----------------------------------------------------------------------------
(* The backoff and the connection. *)

LEMMA FastStep ==
  ASSUME GTypeOK, FastInv, [GNext]_gvars
  PROVE  FastInv'
<1> USE DEF FastInv
<1>1. CASE GTakeGeneration
  BY <1>1 DEF GTakeGeneration, TakeGeneration
<1>2. CASE GConnected       BY <1>2 DEF GConnected, Connected
<1>3. CASE GSample          BY <1>3 DEF GSample, Sample
<1>4. CASE GPoll
  BY <1>4 DEF GPoll, Check, Reads, ReadsNothing, Stop, GTypeOK, TypeOK
<1>5. CASE GRest            BY <1>5 DEF GRest
<1>6. CASE GForget          BY <1>6 DEF GForget, Forget, loopVars
<1>7. CASE GReset           BY <1>7 DEF GReset, ResetTracker, loopVars
<1>8. CASE GOther /\ Idles
  BY <1>8 DEF GOther, ghist, Idles, Start, Begin, TakeAddress, ConnectFails, Wakes, Dropped,
              AfterAttempt, TakeDelay, Double, Sleeping
<1>9. CASE GOther /\ ((\E d \in Device : Choose(d)) \/ NewGeneration)
  BY <1>9 DEF GOther, ghist, Choose, NewGeneration, loopVars
<1>10. CASE GOther /\ (Stopping \/ LinkLost \/ Second)
  BY <1>10 DEF GOther, ghist, Stopping, GiveUp, Joined, Disconnected, LinkLost, Second,
               loopVars
<1>11. CASE UNCHANGED gvars
  BY <1>11 DEF gvars, vars, ghist, loopVars
<1> QED
  BY <1>1, <1>2, <1>3, <1>4, <1>5, <1>6, <1>7, <1>8, <1>9, <1>10, <1>11
     DEF GNext, GOther, Idles

\* The first rest after a contact or a retarget is as long as the initial backoff, unless
\* the retarget reset the backoff after the task had read it for that rest.
THEOREM ContactEndsBackoff == GSpec => FastAfterContact
<1>1. GInit => FastInv
  BY DEF GInit, Init, FastInv
<1>2. ASSUME GTypeOK, FastInv, [GNext]_gvars
      PROVE  [pc # "resting" /\ pc' = "resting" /\ delay' > BackoffInitial
                => rested \/ outpaced]_gvars
  <2> SUFFICES ASSUME GNext, pc # "resting", pc' = "resting", delay' > BackoffInitial
               PROVE  rested \/ outpaced
    BY <1>2
  <2>1. Rest
    BY DEF GNext, GOther, GTakeGeneration, TakeGeneration, GConnected, Connected, ConnectFails,
           GSample, Sample, GPoll, Check, Reads, ReadsNothing, Stop, GRest, GForget, Forget,
           GReset, ResetTracker, Start, Begin, TakeAddress, Wakes, Dropped, AfterAttempt,
           TakeDelay, Double, Choose, NewGeneration, Stopping, GiveUp, Joined, Disconnected,
           LinkLost, Second, loopVars
  <2>2. delay' = delay /\ pc = "store"
    BY <2>1 DEF Rest
  <2>3. delay # BackoffInitial
    BY <2>2, GattAssumption
  <2> QED BY <1>2, <2>2, <2>3 DEF FastInv, GTypeOK
<1> QED BY <1>1, <1>2, FastStep, GattTypeCorrect, PTL DEF GSpec, FastAfterContact

LEMMA LinkStep ==
  ASSUME GTypeOK, LinkInv, [GNext]_gvars
  PROVE  LinkInv'
<1> USE GattAssumption DEF LinkInv
<1>1. CASE GTakeGeneration
  BY <1>1 DEF GTakeGeneration, TakeGeneration
<1>2. CASE GConnected       BY <1>2 DEF GConnected, Connected, GTypeOK, TypeOK
<1>3. CASE GSample          BY <1>3 DEF GSample, Sample
<1>4. CASE GPoll            BY <1>4 DEF GPoll, Check, Reads, ReadsNothing, Stop
<1>5. CASE GForget          BY <1>5 DEF GForget, Forget, loopVars
<1>6. CASE GReset           BY <1>6 DEF GReset, ResetTracker, loopVars
<1>7. CASE GRest \/ (GOther /\ Idles)
  BY <1>7 DEF GRest, Idles, Start, Begin, TakeAddress, ConnectFails, Wakes, Dropped,
              AfterAttempt, TakeDelay, Double, Rest
<1>8. CASE GOther /\ ((\E d \in Device : Choose(d)) \/ NewGeneration)
  BY <1>8 DEF Choose, NewGeneration, loopVars
<1>9. CASE GOther /\ (GiveUp \/ Joined)
  BY <1>9 DEF GiveUp, Joined
<1>10. CASE GOther /\ (Disconnected \/ LinkLost \/ Second)
  BY <1>10 DEF Disconnected, LinkLost, Second, loopVars
<1>11. CASE UNCHANGED gvars
  BY <1>11 DEF gvars, vars, loopVars
<1> QED
  BY <1>1, <1>2, <1>3, <1>4, <1>5, <1>6, <1>7, <1>8, <1>9, <1>10, <1>11
     DEF GNext, GOther, Idles, Stopping

\* stop() leaves no connection, even when it cancelled the task in the middle of a
\* disconnect().
THEOREM StopEndsConnection == GSpec => []StopDisconnects
<1>1. GInit => LinkInv
  BY DEF GInit, Init, LinkInv
<1>2. GTypeOK /\ LinkInv => StopDisconnects
  BY DEF GTypeOK, TypeOK, LinkInv, StopDisconnects
<1> QED BY <1>1, <1>2, LinkStep, GattTypeCorrect, PTL DEF GSpec
=============================================================================
