---------------------------- MODULE LockCommands ----------------------------
(***************************************************************************)
(* Locking and unlocking by the means of the platform (src/stavau/platform *)
(* linux.py, macos.py, windows.py, base.py, unlock.py).  A command that is *)
(* run succeeds, fails or is killed after CommandSeconds; one that is not  *)
(* installed is passed over; one that cannot be executed raises OSError.   *)
(***************************************************************************)
EXTENDS Integers, Sequences

PassedOver == {"missing", "fails", "times out"}
Outcome == PassedOver \cup {"succeeds", "not executable"}
CommandSeconds == 10

\* How many commands a platform knows, in the order in which they are tried.
Commands(platform) ==
  CASE platform = "linux"  -> 3
    [] platform = "darwin" -> 2
    [] platform = "win32"  -> 1     \* LockWorkStation(), a call
    [] OTHER               -> 0     \* get_locker() raises

\* Every way the commands of a platform may end, if each is tried.
Outcomes(platform) == [1 .. Commands(platform) ->
                        IF platform = "win32" THEN {"fails", "succeeds"} ELSE Outcome]

\* The loop of lock() goes on to the next command only from one it passes over.
Tried(outcomes) ==
  {i \in DOMAIN outcomes : \A j \in 1 .. i - 1 : outcomes[j] \in PassedOver}

\* lock() returns, or raises.
Locking(outcomes) ==
  CASE \E i \in Tried(outcomes) : outcomes[i] = "succeeds"       -> "locked"
    [] \E i \in Tried(outcomes) : outcomes[i] = "not executable" -> "OSError"
    [] OTHER                                                     -> "LockError"

\* For how long the event loop may stand still, at most.
BlocksFor(outcomes) ==
  LET killed[i \in 0 .. Len(outcomes)] ==
        IF i = 0 THEN 0
        ELSE killed[i - 1] + IF i \in Tried(outcomes) /\ outcomes[i] = "times out"
                             THEN CommandSeconds ELSE 0
  IN  killed[Len(outcomes)]

\* get_unlocker() is not None; unlock() returns.
HasUnlocker(platform, loginctl) == platform = "linux" /\ loginctl # "missing"
UnlocksWith(platform, loginctl) == HasUnlocker(platform, loginctl) /\ loginctl = "succeeds"
=============================================================================
