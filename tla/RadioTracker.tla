---------------------------- MODULE RadioTracker ----------------------------
(***************************************************************************)
(* The tracker and the address of a source that is told of another device  *)
(* while it runs: MonitorSession.retarget (src/stavau/core/session.py)     *)
(* stores the address in the source and then resets the tracker, in a      *)
(* thread that is not the source's.                                        *)
(***************************************************************************)
EXTENDS Devices

VARIABLES
  samples,    \* heard, of the tracker this source feeds
  freshness,  \* lastSeen, of that tracker
  address,    \* _address
  choosing    \* retarget has stored the address and not reset the tracker yet

radioVars == <<samples, freshness, address, choosing>>

Feed == INSTANCE Tracker WITH heard <- samples, lastSeen <- freshness

RadioTypeOK ==
  /\ Feed!TrackerTypeOK
  /\ address \in Device /\ choosing \in BOOLEAN

NewRadio == Feed!NewTracker /\ address \in Device /\ choosing = FALSE

Chooses(d) ==
  /\ ~choosing /\ choosing' = TRUE /\ address' = d
  /\ UNCHANGED <<samples, freshness>>

Resets ==
  /\ choosing /\ choosing' = FALSE /\ Feed!Reset
  /\ UNCHANGED address
=============================================================================
