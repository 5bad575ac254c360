----------------------------- MODULE MCPresence ------------------------------
(***************************************************************************)
(* SourceHistory with the limits of the code for the tracker and for the   *)
(* Classic link, in seconds, and small ones for the external signal.       *)
(***************************************************************************)
EXTENDS SourceHistory, TLC

\* Only Person is told from the other devices, by the external source.
SymmetricDevices == Permutations(Device \ {Person})

\* The least grace_seconds validate() accepts (settings.py:85).
GraceFloor == 3

ASSUME BlinkIsNoDeparture == Blink < GraceFloor

\* What is effective is what was asked for or scanning, and always there to be had.
ASSUME FallsBackToScanning ==
  \A strategy \in Strategies, offer \in Offers :
    /\ Supported(Effective(strategy, offer), offer)
    /\ Degraded(strategy, offer) => Effective(strategy, offer) = "adv_scan"

\* Setup configures what there is a source for, and of several vendors the first in the
\* order of classify() decides: the Classic link for an Android phone and no other.
ASSUME ChosenByPrecedence ==
  \A ids \in SUBSET Vendors, advertised \in BOOLEAN :
    /\ Chosen("auto", ids, advertised) \in Strategies
    /\ Chosen("auto", ids, advertised) = "classic_link"
         <=> ids \cap {"samsung", "google"} # {} /\ "apple" \notin ids
=============================================================================
