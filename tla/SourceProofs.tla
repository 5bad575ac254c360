---------------------------- MODULE SourceProofs ----------------------------
(***************************************************************************)
(* What external presence, the scan and the Classic link promise, for any  *)
(* interval, any freshness bound, any patience of the tracker and any      *)
(* limits of the commands.                                                 *)
(***************************************************************************)
EXTENDS SourceHistory, FiniteSetTheorems, TLAPS

USE PresenceSourceAssumption, TrackerAssumption

-----------------------------------------------------------------------------
(* Types: external presence. *)

LEMMA TaskTypeStep ==
  ASSUME TypeOK, Start \/ StartWithoutClient \/ StartFails \/ Look \/ Sample \/ Wakes \/ Stop
  PROVE  TypeOK'
<1> USE DEF TypeOK, TrackerTypeOK, tvars, latchVars
<1>1. CASE Start               BY <1>1 DEF Start
<1>2. CASE StartWithoutClient  BY <1>2 DEF StartWithoutClient
<1>3. CASE StartFails          BY <1>3 DEF StartFails
<1>4. CASE Look                BY <1>4 DEF Look
<1>5. CASE Sample
  <2>1. TrackerTypeOK'
    BY <1>5 DEF Sample, Push, PushStamped, Age, AgeOrNone, None
  <2> QED BY <1>5, <2>1 DEF Sample
<1>6. CASE Wakes               BY <1>6 DEF Wakes
<1>7. CASE Stop                BY <1>7 DEF Stop, Signal
<1> QED BY <1>1, <1>2, <1>3, <1>4, <1>5, <1>6, <1>7

LEMMA ClientTypeStep ==
  ASSUME TypeOK,
         (\E signal \in Signal : Message(signal)) \/ Stamp \/ ConnectionLost \/ Second
  PROVE  TypeOK'
<1> USE DEF TypeOK, TrackerTypeOK, tvars, latchVars
<1>1. CASE \E signal \in Signal : Message(signal)   BY <1>1 DEF Message
<1>2. CASE Stamp               BY <1>2 DEF Stamp, Age
<1>3. CASE ConnectionLost      BY <1>3 DEF ConnectionLost, Signal
<1>4. CASE Second
  <2>1. TrackerTypeOK'
    BY <1>4 DEF Second, TrackerAges, Older, OlderOrNone, Age, AgeOrNone, None
  <2>2. presentAt' \in Age(MaxAge + 1) /\ elapsed' \in 0 .. PollInterval
    BY <1>4 DEF Second, Older, Age
  <2> QED BY <1>4, <2>1, <2>2 DEF Second
<1> QED BY <1>1, <1>2, <1>3, <1>4

\* However long the latch has been live, that time is known exactly while it is.
LEMMA HoldingType ==
  ASSUME heldFor \in AgeOrNone(PollInterval + 1), NEW gap \in Nat, Holding(gap)
  PROVE  heldFor' \in AgeOrNone(PollInterval + 1) /\ (heldFor' # None <=> Live')
<1>1. CASE ~Live'
  BY <1>1 DEF Holding, AgeOrNone
<1>2. CASE Live' /\ heldFor = None
  BY <1>2 DEF Holding, AgeOrNone, Age, None
<1>3. CASE Live' /\ heldFor # None
  BY <1>3 DEF Holding, AgeOrNone, Age, None, Older
<1> QED BY <1>1, <1>2, <1>3

LEMMA PresenceHistoryStep ==
  ASSUME PTypeOK, PNext
  PROVE  /\ Next
         /\ evidence' \in AgeOrNone(EvidenceCap) /\ denied' \in AgeOrNone(StaleSeconds + 1)
         /\ heldFor' \in AgeOrNone(PollInterval + 1) /\ (heldFor' # None <=> Live')
<1> USE HoldingType DEF PTypeOK
<1>1. CASE PPresent
  BY <1>1 DEF PPresent, Next, Signal, AgeOrNone, Age, EvidenceCap
<1>2. CASE PDenied
  BY <1>2 DEF PDenied, Denial, Next, Signal, AgeOrNone, Age
<1>3. CASE PSecond
  <2>1. evidence' \in AgeOrNone(EvidenceCap) /\ denied' \in AgeOrNone(StaleSeconds + 1)
    BY <1>3 DEF PSecond, AgeOrNone, Age, None, Older, OlderOrNone, EvidenceCap
  <2> QED BY <1>3, <2>1 DEF PSecond, Next
<1>4. CASE POther
  BY <1>4 DEF POther, Next
<1> QED BY <1>1, <1>2, <1>3, <1>4 DEF PNext

LEMMA PTypeStep ==
  ASSUME PTypeOK, [PNext]_pvars
  PROVE  PTypeOK'
<1>1. CASE PNext
  <2>1. Next => TypeOK'
    BY TaskTypeStep, ClientTypeStep DEF PTypeOK, Next
  <2> QED BY <1>1, <2>1, PresenceHistoryStep DEF PTypeOK
<1>2. CASE UNCHANGED pvars
  BY <1>2 DEF pvars, phist, vars, tvars, latchVars, PTypeOK, TypeOK, TrackerTypeOK,
    Live, Fresh
<1> QED BY <1>1, <1>2

\* Every reachable state is well typed: a stamp is pending only under a present latch,
\* and the task exists exactly while the source runs.
THEOREM PresenceTypeCorrect == PSpec => []PTypeOK
<1>1. PInit => PTypeOK
  <2> SUFFICES ASSUME PInit PROVE PTypeOK
    OBVIOUS
  <2> USE DEF PInit, Init
  <2>1. TrackerTypeOK
    BY DEF NewTracker, TrackerTypeOK, AgeOrNone
  <2>2. client \in BOOLEAN /\ subscribed \in BOOLEAN /\ (subscribed => client)
    OBVIOUS
  <2>3. elapsed \in 0 .. PollInterval
    OBVIOUS
  <2>4. TypeOK
    BY <2>1, <2>2, <2>3 DEF TypeOK, Signal
  <2>5. ~Live
    BY DEF Live
  <2> QED BY <2>4, <2>5 DEF PTypeOK, AgeOrNone
<1> QED BY <1>1, PTypeStep, PTL DEF PSpec
-----------------------------------------------------------------------------
(* A sensor that falls silent. *)

LEMMA EvidenceStep ==
  ASSUME PTypeOK, EvidenceInv, [PNext]_pvars
  PROVE  EvidenceInv'
<1> SUFFICES ASSUME MaxAge > 0
             PROVE  /\ callback' = "stamp" => evidence' = 0
                    /\ Live' => evidence' # None /\ evidence' <= presentAt'
                    /\ pc' = "push" => evidence' # None /\ evidence' <= MaxAge
                    /\ lastSeen' # None
                         => evidence' # None /\ evidence' <= MaxAge + lastSeen'
  BY DEF EvidenceInv
<1> USE DEF EvidenceInv, PTypeOK, TypeOK, TrackerTypeOK, AgeOrNone, Age, None, Live, Fresh
<1>1. CASE PPresent
  BY <1>1 DEF PPresent, Message, tvars
<1>2. CASE PDenied
  BY <1>2 DEF PDenied, Message, ConnectionLost, tvars
<1>3. CASE PSecond
  BY <1>3 DEF PSecond, Second, TrackerAges, Older, OlderOrNone, EvidenceCap
<1>4. CASE POther
  <2>1. CASE Start \/ StartWithoutClient \/ StartFails \/ Wakes \/ Stop
    BY <1>4, <2>1 DEF POther, Start, StartWithoutClient, StartFails, Wakes, Stop,
      tvars, latchVars
  <2>2. CASE Look
    BY <1>4, <2>2 DEF POther, Look, tvars, latchVars
  <2>3. CASE Sample
    BY <1>4, <2>3 DEF POther, Sample, Push, PushStamped, latchVars
  <2>4. CASE Stamp
    BY <1>4, <2>4 DEF POther, Stamp, tvars
  <2> QED BY <1>4, <2>1, <2>2, <2>3, <2>4 DEF POther
<1>5. CASE UNCHANGED pvars
  BY <1>5 DEF pvars, phist, vars, tvars, latchVars
<1> QED BY <1>1, <1>2, <1>3, <1>4, <1>5 DEF PNext

\* With a bound on the age of a signal, nothing keeps the tracker from going silent for
\* longer than that bound and the tracker's own patience after the last message that
\* said present, whether the sensor died, the connection was lost or the latch stayed.
THEOREM PresenceNeedsEvidence == PSpec => []HeldByEvidence
<1>1. PInit => EvidenceInv
  BY DEF PInit, Init, NewTracker, EvidenceInv, Live
<1>2. PTypeOK /\ EvidenceInv => HeldByEvidence
  BY DEF PTypeOK, TypeOK, TrackerTypeOK, AgeOrNone, Age, None, EvidenceInv,
    HeldByEvidence, Silent, Stale
<1> QED BY <1>1, <1>2, PresenceTypeCorrect, EvidenceStep, PTL DEF PSpec

-----------------------------------------------------------------------------
(* A signal that denies presence. *)

LEMMA DenialStep ==
  ASSUME PTypeOK, DenialInv, [PNext]_pvars
  PROVE  DenialInv'
<1> SUFFICES ASSUME denied' # None
             PROVE  /\ present' # "yes"
                    /\ pc' = "push" => denied' = 0
                    /\ lastSeen' # None => lastSeen' >= denied'
  BY DEF DenialInv
<1> USE DEF DenialInv, PTypeOK, TypeOK, TrackerTypeOK, AgeOrNone, Age, None
<1>1. CASE PPresent
  BY <1>1 DEF PPresent
<1>2. CASE PDenied
  BY <1>2 DEF PDenied, Denial, Message, ConnectionLost, tvars
<1>3. CASE PSecond
  BY <1>3 DEF PSecond, Second, TrackerAges, Older, OlderOrNone
<1>4. CASE POther
  <2>1. CASE Start \/ StartWithoutClient \/ StartFails \/ Wakes \/ Stop
    BY <1>4, <2>1 DEF POther, Start, StartWithoutClient, StartFails, Wakes, Stop,
      tvars, latchVars
  <2>2. CASE Look
    BY <1>4, <2>2 DEF POther, Look, Live, tvars, latchVars
  <2>3. CASE Sample
    BY <1>4, <2>3 DEF POther, Sample, Push, PushStamped, latchVars
  <2>4. CASE Stamp
    BY <1>4, <2>4 DEF POther, Stamp, tvars
  <2> QED BY <1>4, <2>1, <2>2, <2>3, <2>4 DEF POther
<1>5. CASE UNCHANGED pvars
  BY <1>5 DEF pvars, phist, vars, tvars, latchVars
<1> QED BY <1>1, <1>2, <1>3, <1>4, <1>5 DEF PNext

\* A signal that says absent or unknown, or the loss of the connection, silences the
\* tracker once its patience is over, wherever the task was when it came.
THEOREM DenialSilences == PSpec => []DeniedGoesSilent
<1>1. PInit => DenialInv
  BY DEF PInit, DenialInv
<1>2. PTypeOK /\ DenialInv => DeniedGoesSilent
  BY DEF PTypeOK, TypeOK, TrackerTypeOK, AgeOrNone, Age, None, DenialInv,
    DeniedGoesSilent, Silent, Stale
<1> QED BY <1>1, <1>2, PresenceTypeCorrect, DenialStep, PTL DEF PSpec

-----------------------------------------------------------------------------
(* A latch that stays live. *)

LEMMA LiveStep ==
  ASSUME PTypeOK, LiveInv, [PNext]_pvars
  PROVE  LiveInv'
<1> USE DEF PTypeOK, TypeOK, TrackerTypeOK, AgeOrNone, Age, None
<1>1. CASE PPresent
  BY <1>1 DEF PPresent, Message, Holding, Older, tvars, LiveInv
<1>2. CASE PDenied
  BY <1>2 DEF PDenied, Message, ConnectionLost, Holding, Older, tvars, LiveInv
<1>3. CASE PSecond
  BY <1>3 DEF PSecond, Second, TrackerAges, Holding, Older, OlderOrNone, LiveInv
<1>4. CASE POther
  <2>1. CASE Start \/ StartWithoutClient \/ StartFails
    <3>1. pc = "none" /\ present = "unknown" /\ ~subscribed
      BY <2>1 DEF Start, StartWithoutClient, StartFails, LiveInv
    <3>2. present' = "unknown" /\ pc' \in {"none", "look"} /\ (pc' = "none" => ~subscribed')
      BY <2>1, <3>1 DEF Start, StartWithoutClient, StartFails, latchVars
    <3>3. heldFor' = None
      BY <1>4, <2>1, <3>2 DEF POther, Holding, Live, Start, StartWithoutClient, StartFails
    <3> QED BY <3>2, <3>3 DEF LiveInv
  <2>2. CASE Look
    BY <1>4, <2>2 DEF POther, Look, Holding, Older, tvars, latchVars, LiveInv, Live, Fresh
  <2>3. CASE Sample
    BY <1>4, <2>3 DEF POther, Sample, Push, PushStamped, Holding, Older, latchVars, LiveInv
  <2>4. CASE Wakes \/ Stop \/ Stamp
    BY <1>4, <2>4 DEF POther, Wakes, Stop, Stamp, Holding, Older, tvars, latchVars, LiveInv
  <2> QED BY <1>4, <2>1, <2>2, <2>3, <2>4 DEF POther
<1>5. CASE UNCHANGED pvars
  BY <1>5 DEF pvars, phist, vars, tvars, latchVars, LiveInv
<1> QED BY <1>1, <1>2, <1>3, <1>4, <1>5 DEF PNext

\* While the latch stays set and fresh the task pushes often enough that the tracker
\* never reports an absence, if its interval is within the tracker's patience.
THEOREM LivePresenceIsHeard == PSpec => []LiveIsHeard
<1>1. PInit => LiveInv
  <2> SUFFICES ASSUME PInit PROVE LiveInv
    OBVIOUS
  <2>1. pc = "none" /\ present = "unknown" /\ ~subscribed
    BY DEF PInit, Init
  <2> QED BY <2>1 DEF LiveInv
<1>2. PTypeOK /\ LiveInv => LiveIsHeard
  BY DEF PTypeOK, TypeOK, TrackerTypeOK, AgeOrNone, Age, None, LiveInv, LiveIsHeard,
    Silent, Stale
<1> QED BY <1>1, <1>2, PresenceTypeCorrect, LiveStep, PTL DEF PSpec

USE ClassicAssumption

-----------------------------------------------------------------------------
(* Types: the scan and the Classic link. *)

LEMMA PushType ==
  ASSUME Feed!TrackerTypeOK, NEW d \in Device, Feed!Push(d)
  PROVE  Feed!TrackerTypeOK'
BY DEF Feed!TrackerTypeOK, Feed!Push, Feed!PushStamped, Feed!AgeOrNone, Feed!Age, Feed!None

LEMMA AgesType ==
  ASSUME Feed!TrackerTypeOK, Feed!TrackerAges(1)
  PROVE  Feed!TrackerTypeOK'
BY DEF Feed!TrackerTypeOK, Feed!TrackerAges, Feed!OlderOrNone, Feed!Older, Feed!AgeOrNone,
  Feed!Age, Feed!None

LEMMA RetargetType ==
  ASSUME RadioTypeOK, (\E d \in Device : Chooses(d)) \/ Resets
  PROVE  RadioTypeOK'
BY DEF RadioTypeOK, Chooses, Resets, Feed!Reset, Feed!TrackerTypeOK, Feed!AgeOrNone, Feed!None

LEMMA ClassicTypeStep ==
  ASSUME RadioTypeOK, ClassicTypeOK, ClassicNext
  PROVE  RadioTypeOK' /\ ClassicTypeOK'
<1> USE DEF RadioTypeOK, ClassicTypeOK, radioVars, Reaches, StageLimit
<1>1. CASE ClassicStarts  BY <1>1 DEF ClassicStarts, Feed!TrackerTypeOK
<1>2. CASE Answers
  <2>1. Feed!TrackerTypeOK'
    BY <1>2, PushType DEF Answers, Feed!TrackerTypeOK
  <2> QED BY <1>2, <2>1 DEF Answers
<1>3. CASE Measured       BY <1>3, PushType DEF Measured
<1>4. CASE NoAnswer       BY <1>4 DEF NoAnswer, Feed!TrackerTypeOK
<1>5. CASE ClassicWakes   BY <1>5 DEF ClassicWakes, Feed!TrackerTypeOK
<1>6. CASE ClassicStops   BY <1>6 DEF ClassicStops, Feed!TrackerTypeOK
<1>7. CASE ClassicSecond
  <2>1. spent' \in 0 .. StageLimit + 1
    BY <1>7 DEF ClassicSecond, Older
  <2> QED BY <1>7, <2>1, AgesType DEF ClassicSecond
<1> QED BY <1>1, <1>2, <1>3, <1>4, <1>5, <1>6, <1>7 DEF ClassicNext

LEMMA ScanTypeStep ==
  ASSUME RadioTypeOK, ScanTypeOK, ScanNext
  PROVE  RadioTypeOK' /\ ScanTypeOK'
<1> USE DEF RadioTypeOK, ScanTypeOK, radioVars, scanVars
<1>1. CASE ScannerStarts \/ ScannerStops
  BY <1>1 DEF ScannerStarts, ScannerStops, Feed!TrackerTypeOK
<1>2. CASE \E d \in Device : Advertises(d)
  BY <1>2 DEF Advertises, Feed!TrackerTypeOK
<1>3. CASE PushesHit
  BY <1>3, PushType DEF PushesHit
<1>4. CASE ScanSecond
  BY <1>4, AgesType DEF ScanSecond
<1> QED BY <1>1, <1>2, <1>3, <1>4 DEF ScanNext

HistoryTypeOK ==
  /\ unheard \in AgeOrNone(UnheardCap)
  /\ answering \in BOOLEAN /\ silentFor \in 0 .. Blink + 1

LEMMA LimitsAreNaturals ==
  ReadLimit \in Nat /\ UnheardCap \in Nat /\ Blink \in Nat
BY DEF ReadLimit, UnheardCap, Blink

LEMMA HistoryTypeStep ==
  ASSUME HistoryTypeOK,
         \/ Quiet
         \/ ASecond
         \/ \E d \in Device : Samples(d)
         \/ Unanswered /\ (unheard' = 0 \/ UNCHANGED unheard)
  PROVE  HistoryTypeOK'
<1> USE LimitsAreNaturals DEF HistoryTypeOK, AgeOrNone, Age, None
<1>1. CASE Quiet
  BY <1>1 DEF Quiet, rhist
<1>2. CASE ASecond
  <2>1. unheard' \in AgeOrNone(UnheardCap)
    BY <1>2 DEF ASecond, OlderOrNone, Older
  <2>2. silentFor' \in 0 .. Blink + 1
    <3>1. Older(silentFor, 1, Blink + 1) \in 0 .. Blink + 1
      BY DEF Older
    <3> QED BY <1>2, <3>1 DEF ASecond
  <2> QED BY <1>2, <2>1, <2>2 DEF ASecond
<1>3. CASE \E d \in Device : Samples(d)
  <2>1. answering' \in BOOLEAN
    BY <1>3, Zenon DEF Samples
  <2>2. unheard' \in AgeOrNone(UnheardCap)
    BY <1>3 DEF Samples
  <2>3. silentFor' \in 0 .. Blink + 1
    BY <1>3 DEF Samples
  <2> QED BY <2>1, <2>2, <2>3
<1>4. CASE Unanswered /\ (unheard' = 0 \/ UNCHANGED unheard)
  <2>1. answering' \in BOOLEAN
    BY <1>4 DEF Unanswered
  <2>2. unheard' \in AgeOrNone(UnheardCap)
    BY <1>4
  <2>3. silentFor' \in 0 .. Blink + 1
    BY <1>4 DEF Unanswered
  <2> QED BY <2>1, <2>2, <2>3
<1> QED BY <1>1, <1>2, <1>3, <1>4

LEMMA RadioTypeStep ==
  ASSUME RadioSourceTypeOK, [RadioNext]_radioSourceVars
  PROVE  RadioSourceTypeOK'
<1> USE DEF RadioSourceTypeOK
<1>1. CASE ClassicStep
  <2>1. RadioTypeOK' /\ ClassicTypeOK'
    <3>1. CASE Retargeted /\ UNCHANGED classicVars
      BY <3>1, RetargetType DEF Retargeted, ClassicTypeOK, classicVars
    <3>2. CASE ClassicNext
      BY <3>2, ClassicTypeStep
    <3> QED BY <1>1, <3>1, <3>2 DEF ClassicStep, ClassicNext
  <2>2. HistoryTypeOK'
    BY <1>1, HistoryTypeStep DEF ClassicStep, Retargeted, HistoryTypeOK, ClassicTypeOK
  <2> QED BY <1>1, <2>1, <2>2 DEF ClassicStep, HistoryTypeOK, ScanTypeOK, scanVars
<1>2. CASE ScanStep
  <2>1. RadioTypeOK' /\ ScanTypeOK'
    <3>1. CASE Retargeted /\ UNCHANGED scanVars
      BY <3>1, RetargetType DEF Retargeted, ScanTypeOK, scanVars
    <3>2. CASE ScanNext
      BY <3>2, ScanTypeStep
    <3> QED BY <1>2, <3>1, <3>2 DEF ScanStep, ScanNext
  <2>2. PushesHit => hit \in Device
    BY DEF PushesHit, ScanTypeOK
  <2>3. HistoryTypeOK'
    BY <1>2, <2>2, HistoryTypeStep DEF ScanStep, Retargeted, HistoryTypeOK
  <2> QED BY <1>2, <2>1, <2>3 DEF ScanStep, HistoryTypeOK, ClassicTypeOK, classicVars
<1>3. CASE UNCHANGED radioSourceVars
  BY <1>3 DEF radioSourceVars, radioVars, classicVars, scanVars, rhist, RadioTypeOK,
    ClassicTypeOK, ScanTypeOK, Feed!TrackerTypeOK
<1> QED BY <1>1, <1>2, <1>3 DEF RadioNext

LEMMA RadioInitTypes ==
  ASSUME RadioInit
  PROVE  RadioSourceTypeOK
<1>1. RadioTypeOK
  BY DEF RadioInit, NewRadio, Feed!NewTracker, RadioTypeOK, Feed!TrackerTypeOK,
    Feed!AgeOrNone, Feed!None
<1>2. ClassicTypeOK
  <2>1. \A offer \in Offers : ClassicBackend(offer) \in {"none", "hcitool", "winrt"}
    BY DEF ClassicBackend
  <2>2. stage = "none" /\ spent = 0 /\ about \in Device
    BY DEF RadioInit, NewRadio
  <2> QED BY <2>1, <2>2 DEF RadioInit, ClassicTypeOK, StageLimit
<1>3. ScanTypeOK
  BY DEF RadioInit, NoScan, ScanTypeOK
<1>4. source \in Strategies
  BY DEF RadioInit, Effective, Strategies
<1>5. HistoryTypeOK
  <2>1. answering \in BOOLEAN
    BY DEF RadioInit
  <2>2. unheard \in AgeOrNone(UnheardCap)
    BY DEF RadioInit, AgeOrNone
  <2>3. silentFor \in 0 .. Blink + 1
    BY LimitsAreNaturals DEF RadioInit
  <2> QED BY <2>1, <2>2, <2>3 DEF HistoryTypeOK
<1> QED BY <1>1, <1>2, <1>3, <1>4, <1>5 DEF RadioSourceTypeOK, HistoryTypeOK

\* Every reachable state of the scan and of the Classic link is well typed.
THEOREM SourceTypeCorrect == RadioSpec => []RadioSourceTypeOK
BY RadioInitTypes, RadioTypeStep, PTL DEF RadioSpec

-----------------------------------------------------------------------------
(* The invariant. *)

Reading == stage \in {"ping", "rssi"}

\* At most so long ago, on Linux, the read began; and the sample before it was pushed.
ReadAge == IF stage = "rssi" THEN CommandLimit + spent ELSE spent
SampleAge == IF stage = "sleep" THEN spent ELSE ClassicPoll + ReadAge

\* One source runs, and only with a backend.
OneSource ==
  /\ stage # "none" => backend # "none"
  /\ backend # "none" => source = "classic_link"
  /\ hit # NoHit => source = "adv_scan"

\* A command is killed, and a sleep ends.
InTime ==
  backend = "hcitool" =>
    /\ stage = "sleep" => spent <= ClassicPoll
    /\ Reading => spent <= CommandLimit + KillLimit

\* A sample of a former device is on its way, if at all, to a tracker without samples.
StrayIsFirst ==
  unheard # None /\ ~choosing =>
    /\ samples = {} \/ \E d \in Device : samples = {d}
    /\ Reading /\ about # address => samples = {}
    /\ hit # NoHit /\ hit # address => samples = {}

\* It comes at most a read after the choice, and time then counts against it.
Slack == IF source = "classic_link" THEN ReadLimit ELSE 0
StrayIsEarly ==
  unheard # None /\ backend # "winrt" =>
    /\ Reading /\ about # address => unheard <= ReadAge
    /\ hit # NoHit /\ hit # address => unheard = 0
    /\ ~choosing /\ freshness # None /\ freshness <= StaleSeconds
         => unheard <= freshness + Slack

LeftInv == OneSource /\ InTime /\ StrayIsFirst /\ StrayIsEarly

-----------------------------------------------------------------------------
(* One source, in time. *)

LEMMA OneSourceStep ==
  ASSUME RadioSourceTypeOK, OneSource, [RadioNext]_radioSourceVars
  PROVE  OneSource'
<1> USE DEF OneSource, radioVars, classicVars, scanVars, Reaches
<1>1. CASE ClassicStep
  BY <1>1 DEF ClassicStep, Retargeted, Chooses, Resets, ClassicStarts, ClassicWakes, Answers,
    Measured, NoAnswer, ClassicStops, ClassicSecond
<1>2. CASE ScanStep
  BY <1>2 DEF ScanStep, Retargeted, Chooses, Resets, ScannerStarts, ScannerStops, Advertises,
    PushesHit, ScanSecond
<1>3. CASE UNCHANGED radioSourceVars
  BY <1>3 DEF radioSourceVars
<1> QED BY <1>1, <1>2, <1>3 DEF RadioNext

LEMMA ElapsedExactly ==
  ASSUME RadioSourceTypeOK, InTime, ClassicSecond, backend = "hcitool", stage # "none",
         stage # "done"
  PROVE  spent' = spent + 1
BY DEF ClassicSecond, TimeLeft, Older, StageLimit, RadioSourceTypeOK, ClassicTypeOK, Reading

LEMMA InTimeStep ==
  ASSUME RadioSourceTypeOK, InTime, [RadioNext]_radioSourceVars
  PROVE  InTime'
<1> USE DEF InTime, Reading, radioVars, classicVars, Reaches
<1>1. CASE ClassicStep
  <2>1. CASE Retargeted /\ UNCHANGED classicVars
    BY <2>1
  <2>2. CASE ClassicStarts \/ ClassicWakes \/ Answers \/ Measured \/ NoAnswer
    BY <2>2 DEF ClassicStarts, ClassicWakes, Answers, Measured, NoAnswer
  <2>3. CASE ClassicStops
    BY <2>3 DEF ClassicStops
  <2>4. CASE ClassicSecond
    BY <2>4, ElapsedExactly
    DEF ClassicSecond, TimeLeft, RadioSourceTypeOK, ClassicTypeOK
  <2> QED BY <1>1, <2>1, <2>2, <2>3, <2>4 DEF ClassicStep
<1>2. CASE ScanStep
  BY <1>2 DEF ScanStep
<1>3. CASE UNCHANGED radioSourceVars
  BY <1>3 DEF radioSourceVars
<1> QED BY <1>1, <1>2, <1>3 DEF RadioNext

-----------------------------------------------------------------------------
(* A device that was left: the samples. *)

\* A push of what was about to be pushed, by whichever source.
LEMMA PushIsFirst ==
  ASSUME NEW d \in Device, Feed!Push(d), Samples(d), UNCHANGED <<address, choosing>>,
         unheard # None /\ ~choosing /\ d # address => samples = {}
  PROVE  unheard' # None /\ ~choosing' => samples' = {d}
<1> SUFFICES ASSUME unheard' # None, ~choosing'
             PROVE  samples' = {d}
  OBVIOUS
<1>1. d # address /\ unheard # None
  BY DEF Samples
<1>2. samples = {}
  BY <1>1
<1> QED BY <1>2 DEF Feed!Push, Feed!PushStamped

LEMMA StrayFirstStep ==
  ASSUME RadioSourceTypeOK, OneSource, StrayIsFirst, [RadioNext]_radioSourceVars
  PROVE  StrayIsFirst'
<1> USE DEF StrayIsFirst, Reading, radioVars, classicVars, scanVars, Reaches
<1>1. CASE Retargeted
  BY <1>1 DEF Retargeted, Chooses, Resets, Feed!Reset
<1>2. CASE ClassicStep /\ ~Retargeted
  <2>0. hit = NoHit /\ hit' = NoHit
    BY <1>2 DEF ClassicStep, OneSource
  <2>1. CASE (ClassicStarts \/ ClassicWakes) /\ Quiet
    BY <2>0, <2>1 DEF ClassicStarts, ClassicWakes, Quiet, rhist
  <2>2. CASE Answers /\ backend = "hcitool" /\ Quiet
    BY <2>0, <2>2 DEF Answers, Quiet, rhist
  <2>3. CASE ((Answers /\ backend # "hcitool") \/ Measured) /\ Samples(about)
    <3>1. /\ Feed!Push(about) /\ UNCHANGED <<address, choosing>> /\ ~Reading' /\ Reading
      BY <2>3 DEF Answers, Measured
    <3>2. about \in Device
      BY DEF RadioSourceTypeOK, ClassicTypeOK
    <3> QED BY <2>0, <2>3, <3>1, <3>2, PushIsFirst
  <2>4. CASE (NoAnswer \/ ClassicStops) /\ UNCHANGED unheard
    BY <2>0, <2>4 DEF NoAnswer, ClassicStops
  <2>5. CASE ClassicSecond /\ ASecond
    BY <2>0, <2>5 DEF ClassicSecond, ASecond, OlderOrNone, Feed!TrackerAges
  <2> QED BY <1>2, <2>1, <2>2, <2>3, <2>4, <2>5 DEF ClassicStep
<1>3. CASE ScanStep /\ ~Retargeted
  <2>0. ~Reading /\ ~Reading'
    BY <1>3 DEF ScanStep, OneSource
  <2>1. CASE (ScannerStarts \/ ScannerStops \/ \E d \in Device : Advertises(d)) /\ Quiet
    BY <2>0, <2>1 DEF ScannerStarts, ScannerStops, Advertises, Quiet, rhist
  <2>2. CASE PushesHit /\ Samples(hit)
    <3>1. Feed!Push(hit) /\ UNCHANGED <<address, choosing>> /\ hit' = NoHit /\ hit # NoHit
      BY <2>2 DEF PushesHit
    <3>2. hit \in Device
      BY <3>1 DEF RadioSourceTypeOK, ScanTypeOK
    <3> QED BY <2>0, <2>2, <3>1, <3>2, PushIsFirst
  <2>3. CASE ScanSecond /\ ASecond
    BY <2>0, <2>3 DEF ScanSecond, ASecond, OlderOrNone, Feed!TrackerAges
  <2> QED BY <1>3, <2>1, <2>2, <2>3 DEF ScanStep
<1>4. CASE UNCHANGED radioSourceVars
  BY <1>4 DEF radioSourceVars, rhist
<1> QED BY <1>1, <1>2, <1>3, <1>4 DEF RadioNext

-----------------------------------------------------------------------------
(* A device that was left: the time. *)

\* A second counts against the choice and against the last sample alike.
LEMMA SecondAgesBoth ==
  ASSUME RadioSourceTypeOK, ASecond, Feed!TrackerAges(1), unheard' # None
  PROVE  /\ unheard # None /\ unheard' <= unheard + 1
         /\ freshness' # None /\ freshness' <= StaleSeconds
              => freshness # None /\ freshness <= StaleSeconds /\ freshness' = freshness + 1
<1> USE DEF RadioSourceTypeOK, RadioTypeOK, Feed!TrackerTypeOK, Feed!AgeOrNone, Feed!Age,
            Feed!None, AgeOrNone, Age, None
<1>1. unheard # None /\ unheard' <= unheard + 1
  <2>1. unheard' = OlderOrNone(unheard, 1, UnheardCap) /\ unheard \in AgeOrNone(UnheardCap)
    BY DEF ASecond
  <2> QED BY <2>1, LimitsAreNaturals DEF OlderOrNone, Older
<1>2. freshness' # None /\ freshness' <= StaleSeconds
        => freshness # None /\ freshness <= StaleSeconds /\ freshness' = freshness + 1
  BY DEF Feed!TrackerAges, Feed!OlderOrNone, Feed!Older
<1> QED BY <1>1, <1>2

LEMMA StrayEarlyClassic ==
  ASSUME RadioSourceTypeOK, OneSource, InTime, StrayIsEarly, ClassicStep, ~Retargeted
  PROVE  StrayIsEarly'
<1> USE DEF Reading, radioVars, Reaches
<1>0. hit = NoHit /\ hit' = NoHit /\ source' = source /\ source = "classic_link"
  BY DEF ClassicStep, OneSource, scanVars
<1>1. CASE (ClassicStarts \/ ClassicWakes) /\ Quiet
  BY <1>0, <1>1 DEF ClassicStarts, ClassicWakes, Quiet, rhist, StrayIsEarly, Slack
<1>2. CASE Answers /\ backend = "hcitool" /\ Quiet
  <2>1. ReadAge <= ReadAge'
    BY <1>2 DEF Answers, ReadAge, RadioSourceTypeOK, ClassicTypeOK
  <2>2. ReadAge \in Nat /\ ReadAge' \in Nat
    BY <1>2 DEF Answers, ReadAge, RadioSourceTypeOK, ClassicTypeOK
  <2>3. unheard \in AgeOrNone(UnheardCap) /\ unheard' = unheard
    BY <1>2 DEF Quiet, rhist, RadioSourceTypeOK
  <2>4. unheard # None /\ about # address => unheard <= ReadAge'
    BY <1>2, <2>1, <2>2, <2>3, LimitsAreNaturals
    DEF StrayIsEarly, Answers, AgeOrNone, Age, None
  <2> QED BY <1>0, <1>2, <2>3, <2>4 DEF Answers, StrayIsEarly, Slack
<1>3. CASE ((Answers /\ backend # "hcitool") \/ Measured) /\ Samples(about)
  <2> SUFFICES ASSUME unheard' # None, backend' # "winrt"
               PROVE  freshness' # None => unheard' <= freshness' + Slack'
    BY <1>0, <1>3 DEF StrayIsEarly, Answers, Measured
  <2>1. backend = "hcitool" /\ Measured
    BY <1>3 DEF RadioSourceTypeOK, ClassicTypeOK, OneSource, Answers, Measured
  <2>2. about # address /\ unheard' = unheard /\ unheard # None
    BY <1>3 DEF Samples
  <2>3. unheard <= ReadAge /\ freshness' = 0
    BY <2>1, <2>2 DEF StrayIsEarly, Measured, Feed!Push, Feed!PushStamped
  <2>4. ReadAge <= ReadLimit
    BY <2>1 DEF ReadAge, ReadLimit, InTime, Measured, RadioSourceTypeOK, ClassicTypeOK
  <2>5. Slack' = ReadLimit
    BY <1>0 DEF Slack
  <2>6. unheard \in Int /\ ReadAge \in Int /\ ReadLimit \in Int
    BY LimitsAreNaturals
    DEF RadioSourceTypeOK, ClassicTypeOK, AgeOrNone, Age, None, ReadAge, ReadLimit
  <2> QED BY <2>2, <2>3, <2>4, <2>5, <2>6
<1>4. CASE (NoAnswer \/ ClassicStops) /\ UNCHANGED unheard
  BY <1>0, <1>4 DEF NoAnswer, ClassicStops, StrayIsEarly, Slack
<1>5. CASE ClassicSecond /\ ASecond
  <2> SUFFICES ASSUME unheard' # None, backend' # "winrt"
               PROVE  /\ Reading' /\ about' # address' => unheard' <= ReadAge'
                      /\ freshness' # None /\ freshness' <= StaleSeconds
                           => unheard' <= freshness' + Slack'
    BY <1>0 DEF StrayIsEarly
  <2>1. unheard # None /\ unheard' <= unheard + 1
    BY <1>5, SecondAgesBoth DEF ClassicSecond
  <2>2. unheard \in Int /\ unheard' \in Int
    BY <1>5, LimitsAreNaturals, HistoryTypeStep
    DEF RadioSourceTypeOK, HistoryTypeOK, AgeOrNone, Age, None
  <2>3. ASSUME Reading', about' # address'
        PROVE  unheard' <= ReadAge'
    <3>1. Reading /\ about # address /\ backend = "hcitool"
      BY <1>5, <2>3 DEF ClassicSecond, OneSource, RadioSourceTypeOK, ClassicTypeOK
    <3>2. spent' = spent + 1
      BY <1>5, <3>1, ElapsedExactly
    <3>3. ReadAge' = ReadAge + 1 /\ ReadAge \in Int
      BY <1>5, <3>2 DEF ReadAge, ClassicSecond, RadioSourceTypeOK, ClassicTypeOK
    <3>4. unheard <= ReadAge
      BY <2>1, <3>1 DEF StrayIsEarly
    <3> QED BY <2>1, <2>2, <3>3, <3>4
  <2>4. ASSUME freshness' # None, freshness' <= StaleSeconds
        PROVE  unheard' <= freshness' + Slack'
    <3>1. freshness # None /\ freshness <= StaleSeconds /\ freshness' = freshness + 1
      BY <1>5, <2>4, SecondAgesBoth DEF ClassicSecond
    <3>2. unheard <= freshness + Slack
      BY <1>5, <2>1, <3>1 DEF StrayIsEarly, ClassicSecond
    <3>3. Slack' = Slack /\ Slack \in Int
      BY <1>0, LimitsAreNaturals DEF Slack
    <3>4. freshness \in Int
      BY DEF RadioSourceTypeOK, RadioTypeOK, Feed!TrackerTypeOK, Feed!AgeOrNone, Feed!Age,
        Feed!None
    <3> QED BY <2>1, <2>2, <3>1, <3>2, <3>3, <3>4
  <2> QED BY <2>3, <2>4
<1> QED BY <1>1, <1>2, <1>3, <1>4, <1>5 DEF ClassicStep

LEMMA StrayEarlyScan ==
  ASSUME RadioSourceTypeOK, OneSource, StrayIsEarly, ScanStep, ~Retargeted
  PROVE  StrayIsEarly'
<1> USE DEF Reading, radioVars, scanVars, classicVars
<1>0. /\ ~Reading /\ ~Reading' /\ source' = source /\ source = "adv_scan"
      /\ Slack' = Slack /\ Slack = 0
  BY DEF ScanStep, OneSource, Slack
<1>1. CASE (ScannerStarts \/ ScannerStops \/ \E d \in Device : Advertises(d)) /\ Quiet
  BY <1>0, <1>1
  DEF ScannerStarts, ScannerStops, Advertises, Quiet, rhist, StrayIsEarly, ScanStep
<1>2. CASE PushesHit /\ Samples(hit)
  <2> SUFFICES ASSUME unheard' # None, backend' # "winrt"
               PROVE  unheard' <= freshness' + Slack'
    BY <1>0, <1>2 DEF StrayIsEarly, PushesHit
  <2>1. hit # address /\ unheard' = unheard /\ unheard # None /\ hit # NoHit
    BY <1>2 DEF Samples, PushesHit
  <2>2. unheard = 0 /\ freshness' = 0
    BY <1>2, <2>1 DEF StrayIsEarly, PushesHit, ScanStep, Feed!Push, Feed!PushStamped
  <2> QED BY <1>0, <2>1, <2>2
<1>3. CASE ScanSecond /\ ASecond
  <2> SUFFICES ASSUME unheard' # None, backend' # "winrt",
                      freshness' # None, freshness' <= StaleSeconds
               PROVE  unheard' <= freshness' + Slack'
    BY <1>0, <1>3 DEF StrayIsEarly, ScanSecond
  <2>1. unheard # None /\ unheard' <= unheard + 1
    BY <1>3, SecondAgesBoth DEF ScanSecond
  <2>2. freshness # None /\ freshness <= StaleSeconds /\ freshness' = freshness + 1
    BY <1>3, SecondAgesBoth DEF ScanSecond
  <2>3. unheard <= freshness + Slack
    BY <1>3, <2>1, <2>2 DEF StrayIsEarly, ScanSecond, ScanStep
  <2>4. unheard \in Int /\ unheard' \in Int
    BY <1>3, LimitsAreNaturals, HistoryTypeStep
    DEF RadioSourceTypeOK, HistoryTypeOK, AgeOrNone, Age, None
  <2>5. freshness \in Int
    BY DEF RadioSourceTypeOK, RadioTypeOK, Feed!TrackerTypeOK, Feed!AgeOrNone, Feed!Age,
      Feed!None
  <2> QED BY <1>0, <2>1, <2>2, <2>3, <2>4, <2>5
<1> QED BY <1>1, <1>2, <1>3 DEF ScanStep

LEMMA StrayEarlyStep ==
  ASSUME RadioSourceTypeOK, OneSource, InTime, StrayIsEarly, [RadioNext]_radioSourceVars
  PROVE  StrayIsEarly'
<1>1. CASE RadioNext /\ Retargeted
  <2>1. /\ UNCHANGED <<stage, spent, about, backend, source>>
        /\ hit' = hit
    BY <1>1
    DEF RadioNext, ClassicStep, ScanStep, Retargeted, Chooses, Resets, classicVars, scanVars,
      ClassicStarts, ClassicWakes, Answers, Measured, NoAnswer, ClassicStops, ClassicSecond,
      ScannerStarts, ScannerStops, Advertises, PushesHit, ScanSecond, radioVars, Reaches
  <2>2. CASE (\E d \in Device : Chooses(d)) /\ unheard' = 0
    <3>1. ReadAge' \in Nat
      BY <2>1 DEF ReadAge, RadioSourceTypeOK, ClassicTypeOK
    <3> QED BY <2>1, <2>2, <3>1 DEF Chooses, StrayIsEarly
  <2>3. CASE Resets /\ UNCHANGED unheard
    BY <2>1, <2>3
    DEF Resets, Feed!Reset, StrayIsEarly, Slack, Reading, ReadAge, Feed!None, None
  <2> QED BY <1>1, <2>2, <2>3 DEF Retargeted
<1>2. CASE RadioNext /\ ~Retargeted
  BY <1>2, StrayEarlyClassic, StrayEarlyScan DEF RadioNext
<1>3. CASE UNCHANGED radioSourceVars
  BY <1>3 DEF radioSourceVars, radioVars, classicVars, scanVars, rhist, StrayIsEarly, Slack,
    Reading, ReadAge
<1> QED BY <1>1, <1>2, <1>3

\* A device that is no longer the chosen one leaves the tracker: one sample of it at most
\* follows the choice, and it fades within the tracker's patience and, over the Classic
\* link on Linux, the longest read (classic.py:95, monitor.py:233).
THEOREM LeftDeviceFades == RadioSpec => []LeftBehindFades
<1>1. RadioInit => LeftInv
  BY DEF RadioInit, NewRadio, NoScan, LeftInv, OneSource, InTime, StrayIsFirst, StrayIsEarly,
    Reading
<1>2. LeftInv /\ RadioSourceTypeOK /\ [RadioNext]_radioSourceVars => LeftInv'
  BY OneSourceStep, InTimeStep, StrayFirstStep, StrayEarlyStep DEF LeftInv
<1>3. LeftInv /\ RadioSourceTypeOK => LeftBehindFades
  <2> SUFFICES ASSUME LeftInv, RadioSourceTypeOK, unheard # None, ~choosing
               PROVE  /\ Cardinality(samples) <= 1
                      /\ unheard > LeftLimit /\ backend # "winrt" => Feed!Silent
    BY DEF LeftBehindFades
  <2>1. Cardinality(samples) <= 1
    <3>1. samples = {} \/ \E d \in Device : samples = {d}
      BY DEF LeftInv, StrayIsFirst
    <3>2. CASE samples = {}
      BY <3>2, FS_EmptySet
    <3>3. ASSUME NEW d \in Device, samples = {d} PROVE Cardinality(samples) <= 1
      <4>1. Cardinality({d}) = 1
        BY FS_Singleton
      <4> QED BY <3>3, <4>1
    <3> QED BY <3>1, <3>2, <3>3
  <2>2. ASSUME unheard > LeftLimit, backend # "winrt", freshness # None
        PROVE  freshness > StaleSeconds
    <3>1. unheard \in Int /\ freshness \in Int
      BY DEF RadioSourceTypeOK, AgeOrNone, Age, None, RadioTypeOK, Feed!TrackerTypeOK,
        Feed!AgeOrNone, Feed!Age, Feed!None, UnheardCap, ReadLimit
    <3>2. freshness <= StaleSeconds => unheard <= freshness + Slack
      BY <2>2 DEF LeftInv, StrayIsEarly
    <3>3. LeftLimit = StaleSeconds + Slack /\ Slack \in Int
      BY LimitsAreNaturals DEF LeftLimit, Slack
    <3> QED BY <2>2, <3>1, <3>2, <3>3
  <2> QED BY <2>1, <2>2 DEF Feed!Silent, Feed!Stale, Feed!None, None
<1> QED BY <1>1, <1>2, <1>3, SourceTypeCorrect, PTL DEF RadioSpec

-----------------------------------------------------------------------------
(* A device that answers every read. *)

Beyond(age) == IF age > StaleSeconds THEN age - StaleSeconds ELSE 0

\* The latest sample is no older than the reads and sleeps since, and the tracker has been
\* silent for no longer than that age is beyond its patience.
AnsweredInv ==
  backend = "hcitool" /\ answering =>
    /\ ~choosing /\ stage \in {"sleep", "ping", "rssi"}
    /\ freshness # None /\ freshness <= SampleAge
    /\ silentFor <= Beyond(SampleAge)

LEMMA AgesAreNaturals ==
  ASSUME RadioSourceTypeOK
  PROVE  /\ ReadAge \in Nat /\ SampleAge \in Nat /\ silentFor \in Nat
         /\ freshness # None => freshness \in Nat
BY LimitsAreNaturals
DEF RadioSourceTypeOK, ClassicTypeOK, RadioTypeOK, ReadAge, SampleAge, Feed!TrackerTypeOK,
  Feed!AgeOrNone, Feed!Age, Feed!None, None

LEMMA BeyondGrows ==
  ASSUME NEW x \in Nat, NEW y \in Nat, x <= y
  PROVE  Beyond(x) \in Nat /\ Beyond(y) \in Nat /\ Beyond(x) <= Beyond(y)
BY DEF Beyond

LEMMA AnsweredSecond ==
  ASSUME RadioSourceTypeOK, InTime, AnsweredInv, ClassicSecond, ASecond,
         backend = "hcitool", answering
  PROVE  /\ freshness' # None /\ freshness' <= SampleAge'
         /\ silentFor' <= Beyond(SampleAge')
<1>1. freshness \in Nat /\ freshness <= SampleAge /\ silentFor <= Beyond(SampleAge)
  BY AgesAreNaturals DEF AnsweredInv
<1>2. SampleAge' = SampleAge + 1 /\ SampleAge \in Nat
  <2>1. stage \in {"sleep", "ping", "rssi"} /\ stage' = stage /\ spent \in Nat
    BY DEF AnsweredInv, ClassicSecond, RadioSourceTypeOK, ClassicTypeOK
  <2>2. spent' = spent + 1
    BY <2>1, ElapsedExactly
  <2> QED BY <2>1, <2>2 DEF SampleAge, ReadAge
<1>3. freshness' \in Nat /\ freshness' <= freshness + 1
  <2>1. freshness' = Feed!OlderOrNone(freshness, 1, StaleSeconds + 1)
    BY DEF ClassicSecond, Feed!TrackerAges
  <2> QED BY <1>1, <2>1 DEF Feed!OlderOrNone, Feed!Older, Feed!None
<1>4. silentFor' <= Beyond(SampleAge')
  <2>1. CASE Feed!Silent'
    <3>1. freshness' > StaleSeconds
      BY <1>3, <2>1 DEF Feed!Silent, Feed!Stale, Feed!None
    <3>2. SampleAge' > StaleSeconds
      BY <1>1, <1>2, <1>3, <3>1
    <3>3. silentFor' <= silentFor + 1
      <4>1. silentFor' = Older(silentFor, 1, Blink + 1)
        BY <2>1 DEF ASecond
      <4> QED BY <4>1, AgesAreNaturals, LimitsAreNaturals DEF Older
    <3>4. silentFor' \in Nat /\ silentFor \in Nat
      BY AgesAreNaturals, LimitsAreNaturals, HistoryTypeStep
      DEF RadioSourceTypeOK, HistoryTypeOK
    <3> QED BY <1>1, <1>2, <3>2, <3>3, <3>4 DEF Beyond
  <2>2. CASE ~Feed!Silent'
    <3>1. silentFor' = 0
      BY <2>2 DEF ASecond
    <3> QED BY <1>2, <3>1 DEF Beyond
  <2> QED BY <2>1, <2>2
<1> QED BY <1>1, <1>2, <1>3, <1>4 DEF None

LEMMA AnsweredStep ==
  ASSUME RadioSourceTypeOK, InTime, OneSource, AnsweredInv, [RadioNext]_radioSourceVars
  PROVE  AnsweredInv'
<1> SUFFICES ASSUME backend' = "hcitool", answering'
             PROVE  /\ ~choosing' /\ stage' \in {"sleep", "ping", "rssi"}
                    /\ freshness' # None /\ freshness' <= SampleAge'
                    /\ silentFor' <= Beyond(SampleAge')
  BY DEF AnsweredInv
<1> USE DEF radioVars, Reaches
<1>1. CASE ClassicStep
  <2>1. CASE Retargeted
    BY <2>1 DEF Retargeted, Unanswered
  <2>2. CASE (ClassicStarts \/ ClassicWakes) /\ Quiet
    <3>1. answering /\ backend = "hcitool" /\ ClassicWakes
      BY <2>2 DEF Quiet, rhist, ClassicStarts, ClassicWakes, AnsweredInv
    <3>2. SampleAge' = SampleAge
      BY <3>1 DEF ClassicWakes, SampleAge, ReadAge
    <3> QED BY <2>2, <3>1, <3>2 DEF Quiet, rhist, ClassicWakes, AnsweredInv
  <2>3. CASE Answers /\ backend = "hcitool" /\ Quiet
    <3>1. SampleAge <= SampleAge' /\ SampleAge \in Nat /\ SampleAge' \in Nat
      BY <2>3 DEF Answers, SampleAge, ReadAge, RadioSourceTypeOK, ClassicTypeOK
    <3>2. /\ answering /\ freshness' = freshness /\ silentFor' = silentFor
          /\ choosing' = choosing /\ stage' = "rssi"
      BY <2>3 DEF Answers, Quiet, rhist
    <3>3. /\ freshness # None /\ freshness <= SampleAge
          /\ silentFor <= Beyond(SampleAge) /\ ~choosing
      BY <2>3, <3>2 DEF AnsweredInv
    <3>4. freshness' <= SampleAge'
      BY <3>1, <3>2, <3>3, AgesAreNaturals
    <3>5. silentFor' <= Beyond(SampleAge')
      BY <3>1, <3>2, <3>3, BeyondGrows, AgesAreNaturals
    <3> QED BY <3>2, <3>3, <3>4, <3>5
  <2>4. CASE Answers /\ backend # "hcitool"
    BY <2>4 DEF Answers
  <2>5. CASE Measured /\ Samples(about)
    <3>1. ~choosing'
      BY <2>5 DEF Measured, Samples
    <3>2. stage' = "sleep" /\ spent' = 0 /\ freshness' = 0 /\ silentFor' = 0
      BY <2>5 DEF Measured, Samples, Feed!Push, Feed!PushStamped
    <3> QED BY <3>1, <3>2 DEF SampleAge, Beyond, None
  <2>6. CASE (NoAnswer \/ ClassicStops) /\ Unanswered
    BY <2>6 DEF Unanswered
  <2>7. CASE ClassicSecond /\ ASecond
    <3>1. answering /\ backend = "hcitool" /\ choosing' = choosing /\ stage' = stage
      BY <2>7 DEF ASecond, ClassicSecond
    <3> QED BY <2>7, <3>1, AnsweredSecond DEF AnsweredInv
  <2> QED BY <1>1, <2>1, <2>2, <2>3, <2>4, <2>5, <2>6, <2>7 DEF ClassicStep
<1>2. CASE ScanStep
  BY <1>2 DEF ScanStep, classicVars, OneSource
<1>3. CASE UNCHANGED radioSourceVars
  BY <1>3 DEF radioSourceVars, radioVars, classicVars, rhist, AnsweredInv, SampleAge, ReadAge
<1> QED BY <1>1, <1>2, <1>3 DEF RadioNext

\* A device that answers every read over the Classic link is not taken for one that is
\* away for longer than the sleep and two slow commands outlast the tracker's patience.
THEOREM AnsweringDeviceStays == RadioSpec => []AnsweredIsNotAway
<1> DEFINE Inv == OneSource /\ InTime /\ AnsweredInv
<1>1. RadioInit => Inv
  BY DEF RadioInit, NewRadio, NoScan, OneSource, InTime, AnsweredInv, Reading
<1>2. Inv /\ RadioSourceTypeOK /\ [RadioNext]_radioSourceVars => Inv'
  BY OneSourceStep, InTimeStep, AnsweredStep
<1>3. Inv /\ RadioSourceTypeOK => AnsweredIsNotAway
  <2> SUFFICES ASSUME Inv, RadioSourceTypeOK, backend = "hcitool", answering
               PROVE  silentFor <= Blink
    BY DEF AnsweredIsNotAway
  <2>1. silentFor <= Beyond(SampleAge)
    BY DEF AnsweredInv
  <2>2. SampleAge <= ClassicPoll + ReadLimit
    BY DEF InTime, AnsweredInv, Reading, SampleAge, ReadAge, ReadLimit, RadioSourceTypeOK,
      ClassicTypeOK
  <2>3. Blink = Beyond(ClassicPoll + ReadLimit)
    <3>1. ReadLimit \in Nat
      BY LimitsAreNaturals
    <3> QED BY <3>1 DEF Blink, Beyond
  <2> QED BY <2>1, <2>2, <2>3, AgesAreNaturals, BeyondGrows, LimitsAreNaturals
<1> QED BY <1>1, <1>2, <1>3, SourceTypeCorrect, PTL DEF RadioSpec

-----------------------------------------------------------------------------
(* The sources together. *)

\* Whatever source is built, it behaves as that source alone: what is proved of one of
\* them holds of the source of a session.
THEOREM SourcesCompose ==
  SSpec => PSpec /\ RadioSpec /\ []LeftBehindFades /\ []AnsweredIsNotAway
<1>1. SInit => PInit /\ RadioInit
  BY DEF SInit
<1>2. [SNext]_svars => [PNext]_pvars /\ [RadioNext]_radioSourceVars
  BY DEF SNext, svars
<1>3. SSpec => PSpec /\ RadioSpec
  BY <1>1, <1>2, PTL DEF SSpec, PSpec, RadioSpec
<1> QED BY <1>3, LeftDeviceFades, AnsweringDeviceStays, PTL
=============================================================================
