---------------------------- MODULE DistanceModel ----------------------------
(***************************************************************************)
(* From samples to a distance: RssiSmoother and CalibrationModel           *)
(* (src/stavau/core/distance.py), the fit of the model to stations         *)
(* (core/calibrate.py, as the command line and the wizard use it), and the *)
(* thresholds the advertisement monitor takes from it.  The logarithm of a *)
(* distance is a whole number of steps, of so many to a decade.            *)
(***************************************************************************)
EXTENDS Integers, Sequences

LOCAL INSTANCE SequencesExt

StepsPerDecade == 10

\* Exponents in tenths: the range of a plausible fit, and the default.
MinExponent == 12
MaxExponent == 45
DefaultExponent == 20

-----------------------------------------------------------------------------
(* RssiSmoother: the medians of the last three, of which it then takes the mean. *)

MedianWindow == 3

Latest(seq, n) == IF Len(seq) > n THEN SubSeq(seq, Len(seq) - n + 1, Len(seq)) ELSE seq

\* Twice the median: that of two is their mean.
Median2(seq) ==
  LET sorted == SortSeq(seq, <)
      half == (Len(seq) + 1) \div 2
  IN  sorted[half] + sorted[Len(seq) + 1 - half]

Medians(raw) == [i \in DOMAIN raw |-> Median2(Latest(SubSeq(raw, 1, i), MedianWindow))]

Total(seq) == FoldSeq(+, 0, seq)

-----------------------------------------------------------------------------
(* fit_model, over stations of a log-distance and an RSSI. *)

Column(stations, i) == [k \in DOMAIN stations |-> stations[k][i]]
Products(stations, i, j) == [k \in DOMAIN stations |-> stations[k][i] * stations[k][j]]

\* n * Sxx and n * Sxy of the least squares.
Spread(stations, j) ==
  Len(stations) * Total(Products(stations, 1, j))
    - Total(Column(stations, 1)) * Total(Column(stations, j))

\* The exponent is -slope / 10, the slope is per decade.
Plausible(stations) ==
  LET sxx == Spread(stations, 1)
      sxy == -Spread(stations, 2) * StepsPerDecade
  IN  sxx # 0 /\ MinExponent * sxx <= sxy /\ sxy <= MaxExponent * sxx

\* fit_model raises nothing.
Fits(stations) == Len(stations) = 1 \/ (Len(stations) > 1 /\ Plausible(stations))

\* _run_calibration and summarize_calibration_fit: a fit that is rejected is made again
\* of the first usable station alone; what is left are the stations of the model.
FittedFrom(usable) == IF Fits(usable) THEN usable ELSE <<usable[1]>>

\* rssi_at_1m, times n * Sxx (or once, for a single station).
ReferenceOf(stations) ==
  IF Len(stations) = 1
  THEN [value |-> stations[1][2] * StepsPerDecade + DefaultExponent * stations[1][1],
        unit |-> StepsPerDecade]
  ELSE [value |-> Total(Column(stations, 2)) * Spread(stations, 1)
                    - Spread(stations, 2) * Total(Column(stations, 1)),
        unit |-> Len(stations) * Spread(stations, 1)]

-----------------------------------------------------------------------------
(* rssi_at, in tenths of a dBm; thresholds_from_settings. *)

RssiAt(reference, exponent, log) == reference - (exponent * log * 10) \div StepsPerDecade

LowestDbm == -100
HighestDbm == -20

ClampDbm(x) == IF x > HighestDbm THEN HighestDbm ELSE IF x < LowestDbm THEN LowestDbm ELSE x

\* round(): to the nearest whole, of a half to the even one.
Rounded(tenths) ==
  LET down == tenths \div 10
      rest == tenths % 10
  IN  IF rest < 5 \/ (rest = 5 /\ down % 2 = 0) THEN down ELSE down + 1

\* 80 % of the radius is one step nearer.
HighRssi(reference, exponent, log) == ClampDbm(Rounded(RssiAt(reference, exponent, log - 1)))
LowRssi(reference, exponent, log) == ClampDbm(Rounded(RssiAt(reference, exponent, log)))

\* max(1, ceil(grace / 2)), of tenths of a second.
LowTimer(grace) == LET half == (grace + 19) \div 20 IN IF half < 1 THEN 1 ELSE half

-----------------------------------------------------------------------------
(* Properties of the thresholds. *)

\* A device that is found has not been lost, even at the limits of the controller.
FoundIsInside(reference, exponent, log) ==
  LET high == HighRssi(reference, exponent, log)
      low == LowRssi(reference, exponent, log)
  IN  LowestDbm <= low /\ low <= high /\ high <= HighestDbm

\* The controller's patience is within the grace, and more than half of it by less than
\* a second.
PatienceIsWithin(grace) == 10 * LowTimer(grace) <= grace /\ 20 * LowTimer(grace) < grace + 20
=============================================================================
