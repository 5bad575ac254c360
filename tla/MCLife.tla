------------------------------- MODULE MCLife -------------------------------
(***************************************************************************)
(* The instance of LifeCycle that TLC checks.  The configurations found    *)
(* are: one without a device, as the window may leave it; one that is      *)
(* accepted, with auto-unlock; and one refused for its numbers.  The bounds *)
(* of the numbers are checked around each of them.                         *)
(***************************************************************************)
EXTENDS LifeCycle

CONSTANTS a, b

With(device, bounds, autoUnlock, paired) ==
  [device |-> device, bounds |-> bounds, autoUnlock |-> autoUnlock, paired |-> paired]

MCFound ==
  {Default, With(a, TRUE, TRUE, TRUE), With(a, FALSE, FALSE, FALSE)}

-----------------------------------------------------------------------------
(* validate() and the widgets (config/settings.py, ui/gui/viewmodel.py). *)

\* Numbers on both sides of every bound.
Numbers ==
  {-1001, -1000, -11, -10, -1, 0, 1, 2, 9, 10, 11, 12, 29, 30, 45, 46, 100, 101, 600,
   601, 36001}

ASSUME AcceptedIsUsable == AcceptedAreUsable(Numbers)
ASSUME ShownIsAccepted == ShownAreAccepted(Numbers)

\* Only the fields with a bound on one side let a NaN through: the grace period and the
\* breaker's times are among them.
ASSUME OnlyOneSidedIsNaN == {field \in Field : RunsWith(field, NaN)} = OneSided
=============================================================================
