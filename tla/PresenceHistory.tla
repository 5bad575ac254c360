-------------------------- MODULE PresenceHistory ---------------------------
(***************************************************************************)
(* What external presence promises: it can supply evidence and never hold  *)
(* the screen unlocked without it (integration.py, invariant I1).          *)
(***************************************************************************)
EXTENDS ExternalPresence

VARIABLES
  evidence,  \* age of the latest message that said present
  denied,    \* age of the first signal since then that said anything else
  heldFor    \* age of the time since which the latch has been set and fresh

phist == <<evidence, denied, heldFor>>
pvars == <<vars, phist>>

EvidenceCap == MaxAge + StaleSeconds + 1

PInit == Init /\ evidence = None /\ denied = None /\ heldFor = None

\* How long the latch has been live after a step that takes `gap` seconds.
Holding(gap) ==
  heldFor' = IF ~Live' THEN None
             ELSE IF heldFor = None THEN 0
             ELSE Older(heldFor, gap, PollInterval + 1)

Denial == denied' = IF denied = None THEN 0 ELSE denied

PPresent ==
  /\ Message("yes")
  /\ evidence' = 0 /\ denied' = None /\ Holding(0)

PDenied ==
  /\ Message("no") \/ Message("unknown") \/ ConnectionLost
  /\ Denial /\ Holding(0) /\ UNCHANGED evidence

PSecond ==
  /\ Second
  /\ evidence' = OlderOrNone(evidence, 1, EvidenceCap)
  /\ denied' = OlderOrNone(denied, 1, StaleSeconds + 1)
  /\ Holding(1)

POther ==
  /\ Start \/ StartWithoutClient \/ StartFails \/ Look \/ Sample \/ Wakes \/ Stop \/ Stamp
  /\ Holding(0) /\ UNCHANGED <<evidence, denied>>

PNext == PPresent \/ PDenied \/ PSecond \/ POther

PSpec == PInit /\ [][PNext]_pvars

-----------------------------------------------------------------------------
(* Properties. *)

\* With a bound on its age, a signal keeps the tracker from going silent for no longer
\* than that bound and the tracker's patience: a dead sensor cannot hold the screen
\* unlocked (integration.py:190-196).
HeldByEvidence ==
  MaxAge > 0 /\ ~Silent => evidence # None /\ evidence <= MaxAge + StaleSeconds

\* Absent, unknown and a lost connection all let the tracker go silent
\* (docs/threat-model.md:41, T11), though the task may be about to push as they come.
DeniedGoesSilent == denied # None /\ denied > StaleSeconds => Silent

\* A latch that stays set and fresh is never taken for an absence.
LiveIsHeard ==
  PollInterval <= StaleSeconds /\ phase = "running"
    /\ heldFor # None /\ heldFor > PollInterval => ~Silent

-----------------------------------------------------------------------------
(* Why they hold: the inductive invariants of SourceProofs. *)

PTypeOK ==
  /\ TypeOK
  /\ evidence \in AgeOrNone(EvidenceCap)
  /\ denied \in AgeOrNone(StaleSeconds + 1)
  /\ heldFor \in AgeOrNone(PollInterval + 1)
  /\ heldFor # None <=> Live

\* Every sample is no older than the evidence for it, less the time that may count.
EvidenceInv ==
  MaxAge > 0 =>
    /\ callback = "stamp" => evidence = 0
    /\ Live => evidence # None /\ evidence <= presentAt
    /\ pc = "push" => evidence # None /\ evidence <= MaxAge
    /\ lastSeen # None => evidence # None /\ evidence <= MaxAge + lastSeen

\* A sample younger than a denial was about to be pushed when the denial came.
DenialInv ==
  denied # None =>
    /\ present # "yes"
    /\ pc = "push" => denied = 0
    /\ lastSeen # None => lastSeen >= denied

\* A latch live for longer than the sleep was live when the task last looked.
LiveInv ==
  /\ pc = "none" => present = "unknown" /\ ~subscribed
  /\ pc = "sleeping" /\ heldFor > elapsed => lastSeen # None /\ lastSeen <= elapsed
  /\ pc \in {"look", "push"} /\ heldFor > PollInterval
       => lastSeen # None /\ lastSeen <= PollInterval
=============================================================================
