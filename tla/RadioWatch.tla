----------------------------- MODULE RadioWatch -----------------------------
(***************************************************************************)
(* The session's cached reading of the Bluetooth radio (session.py, run):  *)
(* probed only while there is no signal, and then not on every tick.       *)
(***************************************************************************)
EXTENDS Integers

CONSTANT ProbeEvery   \* ticks between probes: 5 in the code

ASSUME RadioAssumption == ProbeEvery \in Nat

VARIABLES radio,        \* _radio_state: "unknown" is None
          sinceProbe,   \* _ticks_since_radio_check
          offReported   \* _radio_off_reported

rvars == <<radio, sinceProbe, offReported>>

RadioState == {"on", "off", "unknown"}

RadioTypeOK ==
  /\ radio \in RadioState
  /\ sinceProbe \in 0 .. ProbeEvery
  /\ offReported \in BOOLEAN

NewRadioWatch == radio = "unknown" /\ sinceProbe = 0 /\ offReported = FALSE

ProbeDue == sinceProbe >= ProbeEvery \/ radio = "unknown"

\* A signal makes the cached reading irrelevant.
SignalSeen == radio' = "unknown" /\ sinceProbe' = 0 /\ UNCHANGED offReported

ProbeSkipped == sinceProbe' = sinceProbe + 1 /\ UNCHANGED <<radio, offReported>>

\* radio_available() returned.
Probed(answer) == radio' = answer /\ sinceProbe' = 0 /\ UNCHANGED offReported

\* The radio_off / radio_on edge that the rest of the tick reports.
ReportRadio(noSignal) ==
  /\ offReported' = (noSignal /\ radio = "off")
  /\ UNCHANGED <<radio, sinceProbe>>

-----------------------------------------------------------------------------
(***************************************************************************)
(* radio_available() (radiostate.py).  `powered` is what is reported of    *)
(* each adapter, if anything can be asked: bluetoothctl, by lines of       *)
(* "Powered: yes" or "no"; WinRT, by the first Bluetooth radio.            *)
(***************************************************************************)
Available(platform, asked, powered) ==
  CASE platform = "linux" /\ asked /\ powered # <<>> ->
         IF \E i \in DOMAIN powered : powered[i] THEN "on" ELSE "off"
    [] platform = "win32" /\ asked /\ powered # <<>> -> IF powered[1] THEN "on" ELSE "off"
    [] OTHER -> "unknown"
=============================================================================
