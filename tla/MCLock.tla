------------------------------- MODULE MCLock -------------------------------
(***************************************************************************)
(* LockHistory on a small instance: thresholds of one to seven seconds, and *)
(* one distance on each side of the return threshold and of the radius;    *)
(* and the algorithms behind a reading, a threshold and a lock, over their  *)
(* whole range or a part of it.                                            *)
(***************************************************************************)
EXTENDS LockHistory, DistanceModel, LockCommands

MCGaps == {1, 2}
MCDistances == {1, 2, 3}

-----------------------------------------------------------------------------
(* RssiSmoother (core/distance.py). *)

Quiet == -60
Sample == {-90, -60, -30}

\* A stream of one level but for one wrong sample, the first two apart.
Spiked(at, spike) == [i \in 1 .. 6 |-> IF i = at THEN spike ELSE Quiet]

\* From the third sample on, one wrong sample never reaches the average; and no
\* value is outside of what was received.
ASSUME OneSpikeIsRejected ==
  \A at \in 3 .. 6, spike \in -100 .. 0 :
    \A i \in 1 .. 6 : Medians(Spiked(at, spike))[i] = 2 * Quiet
ASSUME MediansAreBounded ==
  \A raw \in [1 .. 4 -> Sample] : \A i \in 1 .. 4 :
    \E x, y \in {raw[j] : j \in 1 .. i} : 2 * x <= Medians(raw)[i] /\ Medians(raw)[i] <= 2 * y

-----------------------------------------------------------------------------
(* fit_model (core/calibrate.py), with stations of one to ten metres. *)

Station == {0, 3, 5, 10} \X {-90, -75, -60, -45}

\* Two exact stations give back the model they were made from, if it is plausible.
ASSUME FitIsExact ==
  \A reference \in {-80, -59, -40}, exponent \in {2 * k : k \in 2 .. 30} :
    LET station(log) == <<log, reference - (exponent * log) \div StepsPerDecade>>
        two == <<station(0), station(5)>>
    IN  /\ Fits(two) <=> exponent \in MinExponent .. MaxExponent
        /\ ReferenceOf(two).value = reference * ReferenceOf(two).unit

\* Whatever is usable, the calibration ends with a model that fits.
ASSUME CalibrationFits ==
  \A one, two, three \in Station :
    \A usable \in {<<one>>, <<one, two>>, <<one, two, three>>} : Fits(FittedFrom(usable))

-----------------------------------------------------------------------------
(* thresholds_from_settings (core/advmonitor.py), for a radius of one to ten metres. *)

References == {-1000, -590, -595, -300, 0}

ASSUME FoundAreInside ==
  \A reference \in References, exponent \in MinExponent .. MaxExponent, log \in 0 .. 10 :
    FoundIsInside(reference, exponent, log)
ASSUME PatienceIsWithinGrace == \A grace \in 30 .. 700 : PatienceIsWithin(grace)

-----------------------------------------------------------------------------
(* LinuxLocker, MacLocker and WindowsLocker (platform). *)

\* Any one command that works is enough, unless one before it cannot be executed; and the
\* loop stands still for no longer than the commands together may take.
ASSUME AnyCommandLocks ==
  \A platform \in {"linux", "darwin", "win32", "other"} :
    \A outcomes \in Outcomes(platform) :
      /\ Locking(outcomes) = "LockError"
           <=> \A i \in DOMAIN outcomes : outcomes[i] \in PassedOver
      /\ Locking(outcomes) = "OSError"
           => \E i \in DOMAIN outcomes : outcomes[i] = "not executable"
      /\ BlocksFor(outcomes) <= CommandSeconds * Commands(platform)

-----------------------------------------------------------------------------
(* radio_available (core/radiostate.py). *)

\* The radio is said to be off only where every adapter that is reported is off, on
\* Linux, or the first, on Windows; never where nothing could be asked.
ASSUME OffIsCertain ==
  \A platform \in {"linux", "win32", "darwin"}, asked \in BOOLEAN, n \in 0 .. 3 :
    \A powered \in [1 .. n -> BOOLEAN] :
      Available(platform, asked, powered) = "off"
        => asked /\ n > 0 /\ ~powered[1]
             /\ (platform = "linux" => \A i \in 1 .. n : ~powered[i])
=============================================================================
