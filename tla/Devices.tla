------------------------------ MODULE Devices -------------------------------
(***************************************************************************)
(* What every tracker of a signal has in common: the devices that may be   *)
(* heard, and the age at which the latest sample of one stops counting.    *)
(***************************************************************************)
EXTENDS Clock

CONSTANTS Device,        \* addresses of devices
          StaleSeconds   \* stale_seconds

ASSUME TrackerAssumption == StaleSeconds \in Nat
=============================================================================
