---------------------------- MODULE SourceHistory ----------------------------
(***************************************************************************)
(* The source a session builds (src/stavau/core/strategy.py), of those     *)
(* that take their samples by scanning, over the Classic link or from an   *)
(* external signal, with the history their properties speak of.  The       *)
(* sources of AdvMonitor and GattLink have runs of their own.              *)
(***************************************************************************)
EXTENDS PresenceHistory, ClassicLink, ScanSource, Strategy, FiniteSets

VARIABLES
  source,      \* effective_strategy
  unheard,     \* age of the latest choice of a device, until that device is heard
  answering,   \* the device has answered every read since it was heard
  silentFor    \* for how long the tracker has been silent in spite of that

rhist == <<unheard, answering, silentFor>>
radioSourceVars == <<radioVars, classicVars, scanVars, source, rhist>>
svars == <<pvars, radioSourceVars>>

\* The longest a read over the Classic link takes on Linux.
ReadLimit == 2 * CommandLimit + KillLimit

\* For how long a former device may be taken for the one that was chosen.
LeftLimit == StaleSeconds + (IF source = "classic_link" THEN ReadLimit ELSE 0)
UnheardCap == StaleSeconds + ReadLimit + 1

\* For how long a device that answers may be taken for one that is away.
Blink ==
  IF ClassicPoll + ReadLimit > StaleSeconds THEN ClassicPoll + ReadLimit - StaleSeconds ELSE 0

RadioSourceTypeOK ==
  /\ RadioTypeOK /\ ClassicTypeOK /\ ScanTypeOK
  /\ source \in Strategies
  /\ unheard \in AgeOrNone(UnheardCap)
  /\ answering \in BOOLEAN /\ silentFor \in 0 .. Blink + 1

RadioInit ==
  /\ NewRadio /\ NoScan
  /\ unheard = None /\ answering = FALSE /\ silentFor = 0
  /\ \E strategy \in Strategies, offer \in Offers :
       /\ source = Effective(strategy, offer)
       /\ source \in {"adv_scan", "classic_link", "external_presence"}
       /\ stage = "none" /\ about = address /\ spent = 0
       /\ backend = IF source = "classic_link" THEN ClassicBackend(offer) ELSE "none"

-----------------------------------------------------------------------------
(* The history of a step. *)

\* A sample of `d`: of the chosen device, or of one chosen before it.
Samples(d) ==
  /\ unheard' = IF d = address THEN None ELSE unheard
  /\ answering' = (d = address /\ ~choosing)
  /\ silentFor' = 0

\* The device is chosen, or cannot be counted on to answer.
Unanswered == answering' = FALSE /\ silentFor' = 0

Quiet == UNCHANGED rhist

ASecond ==
  /\ unheard' = OlderOrNone(unheard, 1, UnheardCap)
  /\ silentFor' = IF answering /\ Feed!Silent' THEN Older(silentFor, 1, Blink + 1) ELSE 0
  /\ UNCHANGED answering

Retargeted ==
  \/ (\E d \in Device : Chooses(d)) /\ unheard' = 0 /\ Unanswered
  \/ Resets /\ Unanswered /\ UNCHANGED unheard

ClassicStep ==
  /\ source = "classic_link" /\ UNCHANGED <<scanVars, source>>
  /\ \/ Retargeted /\ UNCHANGED classicVars
     \/ (ClassicStarts \/ ClassicWakes) /\ Quiet
     \/ Answers /\ IF backend = "hcitool" THEN Quiet ELSE Samples(about)
     \/ Measured /\ Samples(about)
     \/ (NoAnswer \/ ClassicStops) /\ Unanswered /\ UNCHANGED unheard
     \/ ClassicSecond /\ ASecond

ScanStep ==
  /\ source = "adv_scan" /\ UNCHANGED <<classicVars, source>>
  /\ \/ Retargeted /\ UNCHANGED scanVars
     \/ (ScannerStarts \/ ScannerStops \/ \E d \in Device : Advertises(d)) /\ Quiet
     \/ PushesHit /\ Samples(hit)
     \/ ScanSecond /\ ASecond

RadioNext == ClassicStep \/ ScanStep

RadioSpec == RadioInit /\ [][RadioNext]_radioSourceVars

SInit == PInit /\ RadioInit

SNext ==
  \/ source = "external_presence" /\ PNext /\ UNCHANGED radioSourceVars
  \/ RadioNext /\ UNCHANGED pvars

SSpec == SInit /\ [][SNext]_svars

-----------------------------------------------------------------------------

\* A device that is no longer the chosen one leaves the tracker: at most one sample of it,
\* read or compared before the choice, comes after the reset, and it does not keep the
\* tracker from going silent for longer than the read and the tracker's patience
\* (classic.py:95, monitor.py:233).  On Windows a read has no limit.
LeftBehindFades ==
  unheard # None /\ ~choosing =>
    /\ Cardinality(samples) <= 1
    /\ unheard > LeftLimit /\ backend # "winrt" => Feed!Silent

\* A device that answers every read over the Classic link is not taken for one that is
\* away, but for the moment by which a slow read may outlast the tracker's patience: one
\* second, with the limits of classic.py, where the grace is at least three.
AnsweredIsNotAway == backend = "hcitool" /\ answering => silentFor <= Blink
=============================================================================
