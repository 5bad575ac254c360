----------------------------- MODULE ScanSource -----------------------------
(***************************************************************************)
(* BleProximitySource (src/stavau/core/monitor.py): the scanner calls it   *)
(* back, in a thread of its own, for every advertisement of any device.    *)
(***************************************************************************)
EXTENDS RadioTracker

CONSTANT NoHit

VARIABLES
  scanner,   \* _scanner is set and scans
  hit        \* the device whose address the callback has found to be _address

scanVars == <<scanner, hit>>

ScanTypeOK == scanner \in BOOLEAN /\ hit \in Device \cup {NoHit}

NoScan == scanner = FALSE /\ hit = NoHit

ScannerStarts ==
  /\ ~scanner /\ scanner' = TRUE
  /\ UNCHANGED <<radioVars, hit>>

\* An advertisement of another device goes to the cache of nearby ones only.
Advertises(d) ==
  /\ scanner /\ hit = NoHit /\ d = address
  /\ hit' = d
  /\ UNCHANGED <<radioVars, scanner>>

PushesHit ==
  /\ hit # NoHit /\ hit' = NoHit
  /\ Feed!Push(hit)
  /\ UNCHANGED <<address, choosing, scanner>>

ScannerStops ==
  /\ scanner /\ scanner' = FALSE
  /\ UNCHANGED <<radioVars, hit>>

\* No thread stays a second between two statements.
ScanSecond ==
  /\ hit = NoHit /\ ~choosing
  /\ Feed!TrackerAges(1)
  /\ UNCHANGED <<address, choosing, scanVars>>

ScanNext ==
  \/ ScannerStarts \/ ScannerStops
  \/ \E d \in Device : Advertises(d)
  \/ PushesHit \/ ScanSecond
=============================================================================
