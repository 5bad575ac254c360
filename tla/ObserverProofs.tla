--------------------------- MODULE ObserverProofs ---------------------------
(***************************************************************************)
(* What the observers of the lock state promise, for any number of notices *)
(* on their way.                                                           *)
(***************************************************************************)
EXTENDS LockObserver, SequenceTheorems, TLAPS

USE NoticesAssumption

-----------------------------------------------------------------------------
(* Types. *)

\* The steps the platforms share keep the common state well typed.
LEMMA SaidType ==
  ASSUME ScreenTypeOK, NEW about \in {"hint", "reply", "request"}, NEW value \in Word,
         Said(about, value)
  PROVE  notices' \in Seq(Notice) /\ Len(notices') <= MaxNotices
BY DEF ScreenTypeOK, Said, Notice

LEMMA ChangeType ==
  ASSUME ScreenTypeOK, NEW heard \in BOOLEAN, ScreenChanges(heard)
  PROVE  ScreenTypeOK'
<1>1. screen' \in Word
  BY DEF ScreenChanges, Word
<1>2. notices' \in Seq(Notice) /\ Len(notices') <= MaxNotices
  <2>1. CASE heard   BY <2>1, <1>1, SaidType DEF ScreenChanges
  <2>2. CASE ~heard  BY <2>2 DEF ScreenChanges, ScreenTypeOK
  <2> QED BY <2>1, <2>2
<1> QED BY <1>2 DEF ScreenTypeOK, ScreenChanges

LEMMA HandleType ==
  ASSUME ScreenTypeOK, Handle
  PROVE  ScreenTypeOK'
<1>1. /\ Head(notices) \in Notice
      /\ Tail(notices) \in Seq(Notice) /\ Len(Tail(notices)) <= MaxNotices
  BY DEF ScreenTypeOK, Handle
<1> QED BY <1>1 DEF ScreenTypeOK, Handle, Notice

LEMMA IgnoreType ==
  ASSUME ScreenTypeOK, Ignore
  PROVE  ScreenTypeOK'
<1>1. Tail(notices) \in Seq(Notice) /\ Len(Tail(notices)) <= MaxNotices
  BY DEF ScreenTypeOK, Ignore
<1> QED BY <1>1 DEF ScreenTypeOK, Ignore

LEMMA ClearedType ==
  ASSUME ScreenTypeOK, notices' = <<>>, screen' = screen, state' \in Word, closed' \in BOOLEAN
  PROVE  ScreenTypeOK'
BY DEF ScreenTypeOK

LEMMA LinuxTypeStep ==
  ASSUME ScreenTypeOK, LinuxTypeOK, LinuxNext
  PROVE  ScreenTypeOK' /\ LinuxTypeOK'
<1> USE DEF LinuxTypeOK, busVars, screenVars
<1>1. CASE FirstLook    BY <1>1 DEF FirstLook, ScreenTypeOK
<1>2. CASE CloseLinux   BY <1>2 DEF CloseLinux, ScreenTypeOK
<1>3. CASE Disconnects  BY <1>3, ClearedType DEF Disconnects, ScreenTypeOK
<1>4. CASE BusOpens     BY <1>4 DEF BusOpens, ScreenTypeOK
<1>5. CASE Resolves     BY <1>5 DEF Resolves, ScreenTypeOK
<1>6. CASE Answers
  <2>1. PICK value \in {IF hints THEN screen ELSE "unlocked", "unknown"} : Said("reply", value)
    BY <1>6 DEF Answers
  <2>2. value \in Word
    BY DEF ScreenTypeOK, Word, Value
  <2> QED BY <1>6, <2>1, <2>2, SaidType DEF Answers, ScreenTypeOK
<1>7. CASE Fails        BY <1>7, ClearedType DEF Fails, ScreenTypeOK, Word
<1>8. CASE Listens
  <2>1. handlers' \in 0 .. 3 /\ armed' = 0
    BY <1>8 DEF Listens
  <2> QED BY <1>8, <2>1, HandleType DEF Listens
<1>9. CASE MatchAdded   BY <1>9 DEF MatchAdded, ScreenTypeOK
<1>10. CASE LinuxScreenChanges
  <2>1. (hints /\ Hears(Hint)) \in BOOLEAN
    OBVIOUS
  <2> QED BY <1>10, <2>1, ChangeType DEF LinuxScreenChanges
<1>11. CASE \E value \in Value : Requests(value)
  <2>1. PICK value \in Value : Requests(value)
    BY <1>11
  <2> QED BY <2>1, SaidType DEF Requests, ScreenTypeOK, Word
<1>12. CASE Signal      BY <1>12, HandleType, IgnoreType DEF Signal
<1>13. CASE BusDies     BY <1>13, ClearedType DEF BusDies, ScreenTypeOK
<1> QED BY <1>1, <1>2, <1>3, <1>4, <1>5, <1>6, <1>7, <1>8, <1>9, <1>10, <1>11, <1>12, <1>13
        DEF LinuxNext

LEMMA WindowsTypeStep ==
  ASSUME ScreenTypeOK, WindowsTypeOK, WindowsNext
  PROVE  ScreenTypeOK' /\ WindowsTypeOK'
<1> USE DEF WindowsTypeOK, windowVars, screenVars
<1>1. CASE Started            BY <1>1 DEF Started, ScreenTypeOK
<1>2. CASE WaitTimesOut       BY <1>2 DEF WaitTimesOut, ScreenTypeOK
<1>3. CASE CloseWindows       BY <1>3 DEF CloseWindows, ScreenTypeOK
<1>4. CASE Registers          BY <1>4 DEF Registers, ScreenTypeOK
<1>5. CASE RegistrationFails  BY <1>5 DEF RegistrationFails, ScreenTypeOK
<1>6. CASE Dispatch           BY <1>6, HandleType DEF Dispatch
<1>7. CASE PumpEnds           BY <1>7, ClearedType DEF PumpEnds, ScreenTypeOK
<1>8. CASE WindowsScreenChanges
  BY <1>8, ChangeType DEF WindowsScreenChanges
<1> QED BY <1>1, <1>2, <1>3, <1>4, <1>5, <1>6, <1>7, <1>8 DEF WindowsNext

LEMMA MacTypeStep ==
  ASSUME ScreenTypeOK, MacTypeOK, MacNext
  PROVE  ScreenTypeOK' /\ MacTypeOK'
<1> USE DEF MacTypeOK, centreVars, screenVars
<1>1. CASE Constructs  BY <1>1 DEF Constructs, ScreenTypeOK
<1>2. CASE Notified    BY <1>2, HandleType DEF Notified, Handle
<1>3. CASE CloseMac    BY <1>3 DEF CloseMac, ScreenTypeOK
<1>4. CASE SliceEnds   BY <1>4, ClearedType DEF SliceEnds, ScreenTypeOK
<1>5. CASE Detaches    BY <1>5 DEF Detaches, ScreenTypeOK
<1>6. CASE MacScreenChanges
  <2>1. (attached /\ hears /\ runLoop = "spinning") \in BOOLEAN
    OBVIOUS
  <2> QED BY <1>6, <2>1, ChangeType DEF MacScreenChanges, ScreenChanges
<1> QED BY <1>1, <1>2, <1>3, <1>4, <1>5, <1>6 DEF MacNext

LEMMA HistoryType ==
  ASSUME TypeOK, [Next]_vars
  PROVE  missed' \in BOOLEAN /\ asked' \in BOOLEAN /\ abandoned' \in BOOLEAN
<1>1. CASE Remember
  BY <1>1 DEF Remember, Told, TypeOK
<1>2. CASE UNCHANGED vars
  BY <1>2 DEF vars, history, TypeOK
<1> QED BY <1>1, <1>2 DEF Next, OnLinux, OnWindows, OnMac

\* close() is final, which the run loop that has ended on macOS goes by.
LEMMA ClosedForGood ==
  ASSUME TypeOK, [Next]_vars
  PROVE  closed => closed'
<1> USE DEF screenVars
<1>1. CASE OnLinux(LinuxNext)
  BY <1>1 DEF OnLinux, LinuxNext, FirstLook, CloseLinux, Disconnects, BusOpens, Resolves,
    Answers, Fails, Listens, MatchAdded, LinuxScreenChanges, Requests, Signal, BusDies,
    Handle, Ignore, ScreenChanges
<1>2. CASE OnWindows(WindowsNext)
  BY <1>2 DEF OnWindows, WindowsNext, Started, WaitTimesOut, CloseWindows, Registers,
    RegistrationFails, Dispatch, PumpEnds, WindowsScreenChanges, Handle, ScreenChanges
<1>3. CASE OnMac(MacNext)
  BY <1>3 DEF OnMac, MacNext, Constructs, Notified, CloseMac, SliceEnds, Detaches,
    MacScreenChanges, Handle, ScreenChanges
<1>4. CASE UNCHANGED vars
  BY <1>4 DEF vars
<1> QED BY <1>1, <1>2, <1>3, <1>4 DEF Next

LEMMA TypeStep ==
  ASSUME TypeOK, [Next]_vars
  PROVE  TypeOK'
<1> USE HistoryType, ClosedForGood
<1>1. CASE OnLinux(LinuxNext)
  BY <1>1, LinuxTypeStep
  DEF OnLinux, TypeOK, windowVars, centreVars, WindowsTypeOK, MacTypeOK
<1>2. CASE OnWindows(WindowsNext)
  BY <1>2, WindowsTypeStep DEF OnWindows, TypeOK, busVars, centreVars, LinuxTypeOK, MacTypeOK
<1>3. CASE OnMac(MacNext)
  BY <1>3, MacTypeStep DEF OnMac, TypeOK, busVars, windowVars, LinuxTypeOK, WindowsTypeOK
<1>4. CASE UNCHANGED vars
  BY <1>4 DEF vars, history, screenVars, busVars, windowVars, centreVars, TypeOK,
    ScreenTypeOK, LinuxTypeOK, WindowsTypeOK, MacTypeOK
<1> QED BY <1>1, <1>2, <1>3, <1>4 DEF Next

LEMMA InitTypes ==
  ASSUME Init
  PROVE  TypeOK
<1> USE DEF Init
<1>1. ScreenTypeOK
  <2>1. notices \in Seq(Notice) /\ Len(notices) <= MaxNotices
    BY DEF NewScreen
  <2> QED BY <2>1 DEF NewScreen, ScreenTypeOK, Word
<1>2. LinuxTypeOK
  <2>1. NoBus /\ hints \in BOOLEAN
    BY DEF LinuxInit
  <2>2. handlers \in 0 .. 3 /\ armed \in 0 .. handlers /\ ~(handlers > 0)
    BY <2>1 DEF NoBus
  <2> QED BY <2>1, <2>2 DEF NoBus, LinuxTypeOK
<1>3. WindowsTypeOK
  BY DEF WindowsInit, NoWindow, WindowsTypeOK
<1>4. MacTypeOK
  BY DEF MacInit, NoCentre, MacTypeOK
<1> QED BY <1>1, <1>2, <1>3, <1>4 DEF TypeOK

\* Every reachable state of the observers is well typed: the bus has added no match but
\* of a handler that was subscribed, and a window is registered while its thread pumps.
THEOREM ObserverTypeCorrect == Spec => []TypeOK
BY InitTypes, TypeStep, PTL DEF Spec

-----------------------------------------------------------------------------
(* "Locked" is true: the last word said is of the screen as it is, unless a change went *)
(* unheard since or the word was a request.                                             *)

LEMMA HandleKeepsLastWord ==
  ASSUME ScreenTypeOK, Handle
  PROVE  LastWord' = LastWord
<1>1. CASE Len(notices) = 1
  <2>1. Len(Tail(notices)) = 0 /\ Tail(notices) \in Seq(Notice)
    BY <1>1, HeadTailProperties DEF ScreenTypeOK, Handle
  <2>2. Tail(notices) = <<>>
    BY <2>1, EmptySeq
  <2>3. Head(notices) = notices[Len(notices)]
    BY <1>1 DEF ScreenTypeOK
  <2> QED BY <2>2, <2>3 DEF LastWord, Handle
<1>2. CASE Len(notices) > 1
  <2>1. Tail(notices) # <<>> /\ Len(Tail(notices)) = Len(notices) - 1
    BY <1>2 DEF ScreenTypeOK
  <2>2. Tail(notices)[Len(notices) - 1] = notices[Len(notices)]
    BY <1>2 DEF ScreenTypeOK
  <2> QED BY <2>1, <2>2 DEF LastWord, Handle
<1>3. Len(notices) = 1 \/ Len(notices) > 1
  BY DEF Handle, ScreenTypeOK
<1> QED BY <1>1, <1>2, <1>3

LEMMA SaidIsLastWord ==
  ASSUME ScreenTypeOK, NEW about, NEW value, Said(about, value)
  PROVE  LastWord' = value /\ \A other : Told(other) <=> other = about
<1>1. /\ Len(notices') = Len(notices) + 1
      /\ notices'[Len(notices')] = [about |-> about, value |-> value]
  BY DEF Said, ScreenTypeOK
<1>2. notices' # <<>> /\ Len(notices') > Len(notices)
  BY <1>1 DEF Said, ScreenTypeOK
<1>3. notices'[Len(notices')].about = about /\ notices'[Len(notices')].value = value
  BY <1>1
<1> QED BY <1>2, <1>3 DEF LastWord, Told

LEMMA UntoldWhenNotLonger ==
  ASSUME ScreenTypeOK,
         \/ notices' = notices
         \/ notices' = <<>>
         \/ notices # <<>> /\ notices' = Tail(notices)
  PROVE  \A about : ~Told(about)
<1>1. ~(Len(notices') > Len(notices))
  BY DEF ScreenTypeOK
<1> QED BY <1>1 DEF Told

\* What the history makes of a step in which nothing was said.
LEMMA UntoldIsRemembered ==
  ASSUME Remember, \A about : ~Told(about)
  PROVE  /\ missed => missed'
         /\ asked => asked'
         /\ screen' # screen => missed'
         /\ Dropped => missed'
BY DEF Remember

\* Nothing of what matters changes, or the next word is taken.
LEMMA QuietKeepsTrue ==
  ASSUME TypeOK, LockedIsTrue, Remember, closed => closed', screen' = screen,
         \/ state' = state /\ notices' = notices
         \/ Handle
  PROVE  LockedIsTrue'
<1>1. LastWord' = LastWord
  BY HandleKeepsLastWord DEF TypeOK, LastWord
<1>2. \A about : ~Told(about)
  BY UntoldWhenNotLonger DEF TypeOK, Handle
<1> QED BY <1>1, <1>2, UntoldIsRemembered DEF LockedIsTrue

\* A connection or a window is lost with what it would have brought.
LEMMA LossKeepsTrue ==
  ASSUME TypeOK, LockedIsTrue, Remember, closed => closed', screen' = screen,
         notices' = <<>>, state' = state,
         notices # <<>> => Dropped
  PROVE  LockedIsTrue'
<1>1. \A about : ~Told(about)
  BY UntoldWhenNotLonger DEF TypeOK
<1>2. CASE notices = <<>>
  BY <1>1, <1>2, UntoldIsRemembered DEF LockedIsTrue, LastWord
<1>3. CASE notices # <<>>
  BY <1>1, <1>3, UntoldIsRemembered DEF LockedIsTrue
<1> QED BY <1>2, <1>3

LEMMA ChangeKeepsTrue ==
  ASSUME TypeOK, LockedIsTrue, Remember, NEW heard \in BOOLEAN, ScreenChanges(heard)
  PROVE  LockedIsTrue'
<1>1. screen' # screen
  BY DEF ScreenChanges
<1>2. CASE heard
  <2>1. LastWord' = screen'
    BY <1>2, SaidIsLastWord DEF ScreenChanges, TypeOK
  <2> QED BY <2>1 DEF LockedIsTrue
<1>3. CASE ~heard
  <2>1. notices' = notices
    BY <1>3 DEF ScreenChanges
  <2> QED BY <1>1, <2>1, UntoldWhenNotLonger, UntoldIsRemembered DEF LockedIsTrue, TypeOK
<1> QED BY <1>2, <1>3

\* The invariant of the steps: a disconnection is scheduled by close() only.
TrueInv == TypeOK /\ (leaving => closed) /\ LockedIsTrue

LEMMA LinuxKeepsTrue ==
  ASSUME TrueInv, OnLinux(LinuxNext)
  PROVE  (leaving => closed)' /\ LockedIsTrue'
<1> USE DEF TrueInv, OnLinux, screenVars, busVars
<1>0. (closed => closed') /\ Remember
  BY ClosedForGood DEF Next
<1>1. CASE FirstLook    BY <1>0, <1>1, QuietKeepsTrue DEF FirstLook
<1>2. CASE CloseLinux
  <2>1. closed'
    BY <1>2 DEF CloseLinux
  <2> QED BY <2>1 DEF LockedIsTrue
<1>3. CASE Disconnects
  <2>1. closed' /\ ~leaving'
    BY <1>3 DEF Disconnects
  <2> QED BY <2>1 DEF LockedIsTrue
<1>4. CASE BusOpens     BY <1>0, <1>4, QuietKeepsTrue DEF BusOpens
<1>5. CASE Resolves     BY <1>0, <1>5, QuietKeepsTrue DEF Resolves
<1>6. CASE Answers
  <2>1. PICK value \in {IF hints THEN screen ELSE "unlocked", "unknown"} : Said("reply", value)
    BY <1>6 DEF Answers
  <2>2. LastWord' = value /\ screen' = screen /\ leaving' = leaving /\ closed' = closed
    BY <1>6, <2>1, SaidIsLastWord DEF Answers, TypeOK
  <2>3. value = "locked" => screen = "locked"
    OBVIOUS
  <2> QED BY <2>2, <2>3 DEF LockedIsTrue
<1>7. CASE Fails
  <2>1. LastWord' = "unknown" /\ leaving' = leaving /\ closed' = closed
    BY <1>7 DEF Fails, LastWord
  <2> QED BY <2>1 DEF LockedIsTrue
<1>8. CASE Listens      BY <1>0, <1>8, QuietKeepsTrue DEF Listens, Handle
<1>9. CASE MatchAdded   BY <1>0, <1>9, QuietKeepsTrue DEF MatchAdded
<1>10. CASE LinuxScreenChanges
  <2>1. (hints /\ Hears(Hint)) \in BOOLEAN
    OBVIOUS
  <2>2. LockedIsTrue'
    BY <1>0, <1>10, <2>1, ChangeKeepsTrue DEF LinuxScreenChanges
  <2> QED BY <1>10, <2>2 DEF LinuxScreenChanges, ScreenChanges
<1>11. CASE \E value \in Value : Requests(value)
  <2>1. PICK value \in Value : Requests(value)
    BY <1>11
  <2>2. LastWord' = value /\ Told("request")
    BY <2>1, SaidIsLastWord DEF Requests, TypeOK
  <2>3. notices'[Len(notices')].value = value
    BY <2>2 DEF LastWord, Told, Requests, Said, TypeOK, ScreenTypeOK
  <2>4. asked' = (value = "locked")
    BY <1>0, <2>2, <2>3 DEF Remember
  <2> QED BY <2>1, <2>2, <2>4 DEF LockedIsTrue, Requests
<1>12. CASE Signal
  <2>1. leaving' = leaving /\ (closed => closed')
    BY <1>0, <1>12 DEF Signal
  <2>2. CASE closed   BY <2>1, <2>2 DEF LockedIsTrue
  <2>3. CASE ~closed  BY <1>0, <1>12, <2>1, <2>3, QuietKeepsTrue DEF Signal, Handle
  <2> QED BY <2>2, <2>3
<1>13. CASE BusDies
  <2>1. notices # <<>> => Dropped
    BY <1>13 DEF BusDies, Dropped
  <2> QED BY <1>0, <1>13, <2>1, LossKeepsTrue DEF BusDies
<1> QED BY <1>1, <1>2, <1>3, <1>4, <1>5, <1>6, <1>7, <1>8, <1>9, <1>10, <1>11, <1>12, <1>13
        DEF LinuxNext

LEMMA WindowsKeepsTrue ==
  ASSUME TrueInv, OnWindows(WindowsNext)
  PROVE  (leaving => closed)' /\ LockedIsTrue'
<1> USE DEF TrueInv, OnWindows, screenVars, busVars, windowVars
<1>0. (closed => closed') /\ Remember /\ (leaving => closed)'
  BY ClosedForGood DEF Next
<1>1. CASE Started            BY <1>0, <1>1, QuietKeepsTrue DEF Started
<1>2. CASE WaitTimesOut       BY <1>0, <1>2, QuietKeepsTrue DEF WaitTimesOut
<1>3. CASE CloseWindows       BY <1>0, <1>3, QuietKeepsTrue DEF CloseWindows
<1>4. CASE Registers          BY <1>0, <1>4, QuietKeepsTrue DEF Registers
<1>5. CASE RegistrationFails  BY <1>0, <1>5, QuietKeepsTrue DEF RegistrationFails
<1>6. CASE Dispatch           BY <1>0, <1>6, QuietKeepsTrue DEF Dispatch, Handle
<1>7. CASE PumpEnds
  <2>1. notices # <<>> => Dropped
    BY <1>7 DEF PumpEnds, Dropped
  <2> QED BY <1>0, <1>7, <2>1, LossKeepsTrue DEF PumpEnds
<1>8. CASE WindowsScreenChanges
  <2>1. registered \in BOOLEAN
    BY DEF TypeOK, WindowsTypeOK
  <2> QED BY <1>0, <1>8, <2>1, ChangeKeepsTrue DEF WindowsScreenChanges
<1> QED BY <1>1, <1>2, <1>3, <1>4, <1>5, <1>6, <1>7, <1>8 DEF WindowsNext

LEMMA MacKeepsTrue ==
  ASSUME TrueInv, OnMac(MacNext)
  PROVE  (leaving => closed)' /\ LockedIsTrue'
<1> USE DEF TrueInv, OnMac, screenVars, busVars, centreVars
<1>0. (closed => closed') /\ Remember /\ (leaving => closed)'
  BY ClosedForGood DEF Next
<1>1. CASE Constructs  BY <1>0, <1>1, QuietKeepsTrue DEF Constructs
<1>2. CASE Notified    BY <1>0, <1>2, QuietKeepsTrue DEF Notified, Handle
<1>3. CASE CloseMac    BY <1>0, <1>3, QuietKeepsTrue DEF CloseMac
<1>4. CASE SliceEnds
  <2>1. closed'
    BY <1>4 DEF SliceEnds
  <2> QED BY <1>0, <2>1 DEF LockedIsTrue
<1>5. CASE Detaches    BY <1>0, <1>5, QuietKeepsTrue DEF Detaches
<1>6. CASE MacScreenChanges
  <2>1. (attached /\ hears /\ runLoop = "spinning") \in BOOLEAN
    OBVIOUS
  <2> QED BY <1>0, <1>6, <2>1, ChangeKeepsTrue DEF MacScreenChanges
<1> QED BY <1>1, <1>2, <1>3, <1>4, <1>5, <1>6 DEF MacNext

\* An observer that is open and has missed nothing since it last heard of the screen
\* says "locked" only of a screen that is locked, or has been asked to lock: the one
\* word that keeps the session from locking (session.py:272) is never left over.
THEOREM LockedIsTrueAlways == Spec => []LockedIsTrue
<1>1. Init => TrueInv
  <2> SUFFICES ASSUME Init PROVE TrueInv
    OBVIOUS
  <2>1. ~leaving
    BY DEF Init, LinuxInit, NoBus
  <2>2. LastWord # "locked"
    BY DEF Init, NewScreen, LastWord
  <2> QED BY <2>1, <2>2, InitTypes DEF TrueInv, LockedIsTrue
<1>2. TrueInv /\ [Next]_vars => TrueInv'
  <2> SUFFICES ASSUME TrueInv, [Next]_vars PROVE TrueInv'
    OBVIOUS
  <2>1. CASE UNCHANGED vars
    BY <2>1, TypeStep DEF vars, history, screenVars, busVars, TrueInv, LockedIsTrue, LastWord
  <2> QED BY <2>1, TypeStep, LinuxKeepsTrue, WindowsKeepsTrue, MacKeepsTrue DEF Next, TrueInv
<1>3. TrueInv => LockedIsTrue
  BY DEF TrueInv
<1> QED BY <1>1, <1>2, <1>3, PTL DEF Spec

-----------------------------------------------------------------------------
(* The observers implement LockReport. *)

LEMMA HandleRepeats ==
  ASSUME Handle
  PROVE  Report!Repeats
BY DEF Handle, Report!Repeats

LEMMA SaidIsSaying ==
  ASSUME NEW about \in {"request", "reply"}, NEW value \in Word, Said(about, value),
         about = "reply" => value \in {screen, "unlocked", "unknown"},
         UNCHANGED <<screen, state>>
  PROVE  Report!Next
<1> DEFINE said == [about |-> about, value |-> value]
<1>1. said \in Report!Saying
  BY DEF Report!Saying, Report!Word, Report!Value, Word, Value
<1>2. Report!Says(said)
  BY DEF Report!Says, Said
<1> QED BY <1>1, <1>2 DEF Report!Next

LEMMA ChangeIsChange ==
  ASSUME NEW heard \in BOOLEAN, ScreenChanges(heard)
  PROVE  Report!Changes
BY DEF ScreenChanges, Said, Report!Changes, Report!Value, Value

\* The words left are lost, or there were none.
LEMMA LossIsLoss ==
  ASSUME notices' = <<>>, UNCHANGED <<screen, state>>
  PROVE  [Report!Next]_(Report!vars)
BY DEF Report!Loses, Report!Next, Report!vars

LEMMA LinuxReports ==
  ASSUME TypeOK, LinuxNext
  PROVE  [Report!Next]_(Report!vars)
<1> USE DEF screenVars
<1>1. CASE FirstLook \/ BusOpens \/ Resolves \/ MatchAdded \/ CloseLinux
  BY <1>1 DEF FirstLook, BusOpens, Resolves, MatchAdded, CloseLinux, Report!vars
<1>2. CASE Disconnects \/ BusDies
  BY <1>2, LossIsLoss DEF Disconnects, BusDies
<1>3. CASE Answers
  <2>1. PICK value \in {IF hints THEN screen ELSE "unlocked", "unknown"} : Said("reply", value)
    BY <1>3 DEF Answers
  <2>2. value \in Word
    BY DEF TypeOK, ScreenTypeOK, Word, Value
  <2> QED BY <1>3, <2>1, <2>2, SaidIsSaying DEF Answers
<1>4. CASE Fails
  BY <1>4 DEF Fails, Report!GivesUp, Report!Next
<1>5. CASE Listens
  BY <1>5, HandleRepeats DEF Listens, Report!Next
<1>6. CASE LinuxScreenChanges
  <2>1. (hints /\ Hears(Hint)) \in BOOLEAN
    OBVIOUS
  <2> QED BY <1>6, <2>1, ChangeIsChange DEF LinuxScreenChanges, Report!Next
<1>7. CASE \E value \in Value : Requests(value)
  BY <1>7, SaidIsSaying DEF Requests, Word
<1>8. CASE Signal
  <2>1. Ignore => Report!Loses
    BY DEF Ignore, Report!Loses
  <2> QED BY <1>8, <2>1, HandleRepeats DEF Signal, Report!Next
<1> QED BY <1>1, <1>2, <1>3, <1>4, <1>5, <1>6, <1>7, <1>8 DEF LinuxNext

LEMMA WindowsReports ==
  ASSUME TypeOK, WindowsNext
  PROVE  [Report!Next]_(Report!vars)
<1> USE DEF screenVars
<1>1. CASE Started \/ WaitTimesOut \/ CloseWindows \/ Registers \/ RegistrationFails
  BY <1>1 DEF Started, WaitTimesOut, CloseWindows, Registers, RegistrationFails, Report!vars
<1>2. CASE Dispatch
  BY <1>2, HandleRepeats DEF Dispatch, Report!Next
<1>3. CASE PumpEnds
  BY <1>3, LossIsLoss DEF PumpEnds
<1>4. CASE WindowsScreenChanges
  BY <1>4, ChangeIsChange DEF WindowsScreenChanges, TypeOK, WindowsTypeOK, Report!Next
<1> QED BY <1>1, <1>2, <1>3, <1>4 DEF WindowsNext

LEMMA MacReports ==
  ASSUME TypeOK, MacNext
  PROVE  [Report!Next]_(Report!vars)
<1> USE DEF screenVars
<1>1. CASE Constructs \/ CloseMac \/ Detaches
  BY <1>1 DEF Constructs, CloseMac, Detaches, Report!vars
<1>2. CASE Notified
  BY <1>2, HandleRepeats DEF Notified, Report!Next
<1>3. CASE SliceEnds
  BY <1>3, LossIsLoss DEF SliceEnds
<1>4. CASE MacScreenChanges
  <2>1. (attached /\ hears /\ runLoop = "spinning") \in BOOLEAN
    OBVIOUS
  <2> QED BY <1>4, <2>1, ChangeIsChange DEF MacScreenChanges, Report!Next
<1> QED BY <1>1, <1>2, <1>3, <1>4 DEF MacNext

\* Each of the three observers implements the report the session relies on: it repeats
\* what it was told, in the order it was told it, or does not know.
THEOREM ObserversReport == Spec => RepeatsWhatIsSaid
<1>1. Init => Report!Init
  BY DEF Init, NewScreen, Report!Init, Report!Value, Value
<1>2. TypeOK /\ [Next]_vars => [Report!Next]_(Report!vars)
  <2> SUFFICES ASSUME TypeOK, [Next]_vars PROVE [Report!Next]_(Report!vars)
    OBVIOUS
  <2>1. CASE UNCHANGED vars
    BY <2>1 DEF vars, screenVars, Report!vars
  <2> QED BY <2>1, LinuxReports, WindowsReports, MacReports
          DEF Next, OnLinux, OnWindows, OnMac
<1> QED BY <1>1, <1>2, ObserverTypeCorrect, PTL DEF Spec, RepeatsWhatIsSaid, Report!Spec
=============================================================================
