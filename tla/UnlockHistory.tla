--------------------------- MODULE UnlockHistory ----------------------------
(***************************************************************************)
(* The promise of auto-unlock (threats T2 and T9), stated over a history   *)
(* of the session: for how long the device has really been close, and      *)
(* whether a lock the user made could be taken for stavau's.  The history  *)
(* variables watch the steps of Session and never guard one.               *)
(***************************************************************************)
EXTENDS Session

VARIABLES
  closeFor,  \* age of the first of the latest run of ticks with a close reading
  blind,     \* an observation since the last "unlocked" one was "unknown"
  unseen,    \* the screen has opened and no observation has said "unlocked" since
  own,       \* age of the last lock issued since an observation told of the screen
  noticed,   \* the lock now on the screen has been observed
  confused   \* the user's lock now on the screen may be taken for stavau's

uhist == <<closeFor, blind, unseen, own, noticed, confused>>
uvars == <<vars, uhist>>

UInit ==
  /\ Init
  /\ closeFor = None /\ own = None
  /\ blind = FALSE /\ unseen = FALSE /\ noticed = FALSE /\ confused = FALSE

CloseReading == reading # None /\ reading <= StrictRadius

\* The age of `closeFor` once the reading being acted on is counted.
CloseNow == IF ~CloseReading THEN None ELSE IF closeFor = None THEN 0 ELSE closeFor

UPoll ==
  \E gap \in Gaps, seen \in Observation, d \in Reading :
    LET age == OlderOrNone(own, gap, ExpectCap) IN
    /\ Poll(gap, seen, d)
    /\ closeFor' = OlderOrNone(closeFor, gap, Dwell)
    /\ blind' = (seen = "unknown" \/ (blind /\ seen # "unlocked"))
    /\ unseen' = (unseen /\ seen # "unlocked")
    /\ own' = IF seen = "unknown" THEN age ELSE None
    /\ noticed' = (noticed \/ seen = "locked")
    \* An expectation older than its window claims nothing.
    /\ confused' = (confused /\ (seen = "locked" /\ ~noticed /\ ~unseen
                                 => age <= ExpectWindow))

UProbe == (\E answer \in RadioState : Probe(answer)) /\ UNCHANGED uhist

Opens == screen # "open" /\ screen' = "open"

UQuiet ==
  /\ NothingDue \/ Suppressed \/ SkippedLocked \/ LockFails
  /\ closeFor' = CloseNow
  /\ unseen' = (unseen \/ Opens)
  /\ noticed' = (noticed /\ ~Opens) /\ confused' = (confused /\ ~Opens)
  /\ UNCHANGED <<blind, own>>

\* Locking over a lock of the user's that no observation has told of.
ULock ==
  /\ LockSucceeds
  /\ closeFor' = CloseNow
  /\ own' = 0
  /\ confused' = (confused \/ (screen = "user" /\ ~noticed))
  /\ UNCHANGED <<blind, unseen, noticed>>

\* The user locks while an unlock is unseen or a lock of stavau's is expected.
UUserLocks ==
  /\ UserLocks
  /\ confused' = (unseen \/ own # None)
  /\ UNCHANGED <<closeFor, blind, unseen, own, noticed>>

UUserUnlocks ==
  /\ UserUnlocks
  /\ unseen' = TRUE /\ noticed' = FALSE /\ confused' = FALSE
  /\ UNCHANGED <<closeFor, blind, own>>

UOther ==
  /\ LockTakesEffect \/ LockLost
  /\ UNCHANGED uhist

URetarget == Retarget /\ closeFor' = None
             /\ UNCHANGED <<blind, unseen, own, noticed, confused>>

UNext == \/ UPoll \/ UProbe \/ UQuiet \/ ULock
         \/ UUserLocks \/ UUserUnlocks \/ UOther \/ URetarget

USpec == UInit /\ [][UNext]_uvars

UFairSpec == USpec /\ WF_vars(Tick)

-----------------------------------------------------------------------------
(* Properties. *)

UnlockIssued == Unlocks \/ UnlockFails

\* Threat T9: a lock the user (or a screensaver) made is unlocked only when it
\* could not be told from stavau's own: it followed an unlock nobody observed,
\* or it and stavau's own lock came between the same two observations, the
\* second one within the expectation window.
ForeignLockKept ==
  [][pc = "act" /\ UnlockIssued => screen # "user" \/ confused]_uvars

\* Threat T2: an unlock follows a whole dwell of ticks that each found the
\* device close, unless the observer lost sight of the screen meanwhile.
DwellUnlessBlind ==
  [][pc = "act" /\ UnlockIssued => CloseNow >= Dwell \/ blind \/ unseen]_uvars

\* With an unlock command that works when tried often enough, stavau's own lock
\* does not stay on a screen whose owner stays close.
UnlockWorks == SF_vars(Unlocks /\ Act)
OwnLockReleased ==
  UnlockWorks =>
    []<>(screen = "open" \/ origin # "stavau" \/ observed # "locked" \/ ~CloseReading)

\* autounlock.py:13-18 and threat T9(5) as they are worded: the dwell is continuous.
DwellIsContinuous == [][pc = "act" /\ UnlockIssued => CloseNow >= Dwell]_uvars

\* autounlock.py:7-11 as it is worded: never a screen stavau did not lock.
OnlyOwnLockUnlocked == [][pc = "act" /\ UnlockIssued => screen # "user"]_uvars
=============================================================================
