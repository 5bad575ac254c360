------------------------------- MODULE Clock -------------------------------
(***************************************************************************)
(* Monotonic time as the monitoring loop uses it.                          *)
(*                                                                         *)
(* The program stores instants (time.monotonic()) and only ever compares   *)
(* now - instant with a threshold.  A specification therefore stores, for  *)
(* each instant, its AGE relative to the `now` the loop captured last.     *)
(* Stamping an instant with `now` is age 0; capturing a later `now` adds   *)
(* the gap to every age.  An age saturates at a cap no smaller than every  *)
(* threshold it is compared with, so no comparison can tell the difference *)
(* and the state space is finite without a bound on time.                  *)
(***************************************************************************)
EXTENDS Integers

\* Python's None for an instant (or a distance) that is not set.
None == -1

Age(cap) == 0 .. cap
AgeOrNone(cap) == Age(cap) \cup {None}

\* The age, after `gap` more seconds, of an instant that is set.
Older(age, gap, cap) == IF age + gap > cap THEN cap ELSE age + gap

\* The same for an instant that may be None.
OlderOrNone(age, gap, cap) == IF age = None THEN None ELSE Older(age, gap, cap)
=============================================================================
