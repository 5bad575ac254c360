------------------------------ MODULE Settings ------------------------------
(***************************************************************************)
(* The configuration (src/stavau/config/settings.py): the object a running *)
(* program shares between its threads, and the file it comes from.  In the *)
(* state the numbers and the MQTT port are abstracted to whether each is   *)
(* within its bounds.                                                      *)
(* Then the bounds themselves: what load() makes of a JSON value, what     *)
(* validate() accepts, and what the widgets of the window can hold         *)
(* (src/stavau/ui/gui).  Seconds, metres, dBm and ratios are in tenths.    *)
(* JSON as Python reads it has a NaN, neither below a bound nor above it.  *)
(***************************************************************************)
EXTENDS Integers

CONSTANTS Device, NoDevice, NaN

ASSUME NoDeviceAssumption == NoDevice \notin Device
ASSUME NaNAssumption == NaN \notin Int

VARIABLES
  memory,   \* the Settings object of the program that runs
  file,     \* what is at config_path()
  disk      \* the configuration it holds, if it holds one

settingsVars == <<memory, file, disk>>

Config == [device : Device \cup {NoDevice}, bounds : BOOLEAN,
           autoUnlock : BOOLEAN, paired : BOOLEAN]

\* Settings(), before a device has been chosen.
Default == [device |-> NoDevice, bounds |-> TRUE, autoUnlock |-> FALSE, paired |-> FALSE]

\* validate() raises nothing.
Accepted(config) ==
  /\ config.device # NoDevice
  /\ config.bounds
  /\ config.autoUnlock => config.paired

SettingsTypeOK ==
  /\ memory \in Config /\ disk \in Config
  /\ file \in {"none", "unreadable", "garbled", "config"}

\* The file may be any that an earlier process or a user's editor has left.
NewSettings(found) ==
  /\ memory = Default
  /\ file \in {"none", "unreadable", "garbled", "config"}
  /\ disk \in IF file = "config" THEN found ELSE {Default}

\* load() raises nothing.  Of a file that is "unreadable" it makes a ConfigError; of one
\* that is "garbled", not UTF-8 or with an infinity where an int is declared, it does not.
Loadable == file = "config"

\* Fault variant: the file is torn when the write fails.
KeepTorn(config) ==
  \/ disk' = config /\ file' = "config"
  \/ file' = "unreadable" /\ UNCHANGED disk

\* save() of an object: the file is replaced as a whole, or an OSError is raised.
Keep(config) == disk' = config /\ file' = "config"
KeepFails == UNCHANGED <<disk, file>>

-----------------------------------------------------------------------------
(* The bounds. *)

\* The fields with a bound, by their type.
IntField == {"smoothing_window", "breaker_max_locks"}
FloatField ==
  {"radius_m", "grace_seconds", "path_loss_exponent", "rssi_at_1m",
   "breaker_window_seconds", "breaker_cooldown_seconds",
   "auto_unlock_strict_ratio", "auto_unlock_dwell_seconds", "integration_presence_max_age"}
Field == IntField \cup FloatField

-----------------------------------------------------------------------------
(* load(). *)

\* _coerce raises for a NaN where an int is declared; int() cuts off the fraction.
Coercible(field, x) == field \in IntField => x # NaN

Whole(x) == IF x < 0 THEN -(((-x) \div 10) * 10) ELSE (x \div 10) * 10

Coerced(field, x) == IF field \in IntField THEN Whole(x) ELSE x

-----------------------------------------------------------------------------
(* validate(). *)

Below(x, y) == x # NaN /\ x < y
Within(x, low, high) == x # NaN /\ low <= x /\ x <= high

AcceptedIn(field, x) ==
  CASE field = "radius_m"                     -> Within(x, 10, 100)
    [] field = "grace_seconds"                -> ~Below(x, 30)
    [] field \in IntField                     -> ~Below(x, 10)
    [] field = "path_loss_exponent"           -> Within(x, 12, 45)
    [] field = "rssi_at_1m"                   -> Within(x, -1000, 0)
    [] field = "auto_unlock_strict_ratio"     -> Within(x, 1, 10)
    [] field = "integration_presence_max_age" -> ~Below(x, 0)
    [] OTHER                                  -> ~Below(x, 1)

\* The fields with a bound on one side, by a comparison that a NaN passes.
OneSided ==
  {"grace_seconds", "breaker_window_seconds", "breaker_cooldown_seconds",
   "auto_unlock_dwell_seconds", "integration_presence_max_age"}

\* A number in the file with which a session runs.
RunsWith(field, x) == Coercible(field, x) /\ AcceptedIn(field, Coerced(field, x))

-----------------------------------------------------------------------------
(* The window. *)

Clamp(x, low, high) == IF x > high THEN high ELSE IF x < low THEN low ELSE x

\* int(round(x)): of a half, to the even one.
ToWhole(x) ==
  LET down == x \div 10
  IN  IF x % 10 < 5 \/ (x % 10 = 5 /\ down % 2 = 0) THEN 10 * down ELSE 10 * (down + 1)

\* The ranges of _build_settings_tab, and clamp_radius and clamp_grace; the slider of the
\* radius has whole metres.
Shown(field, x) ==
  CASE field = "radius_m"          -> Clamp(ToWhole(x), 10, 100)
    [] field = "grace_seconds"     -> Clamp(x, 30, 600)
    [] field = "breaker_max_locks" -> Clamp(x, 10, 1000)
    [] OTHER                       -> Clamp(x, 10, 36000)

InWidgets ==
  {"radius_m", "grace_seconds", "breaker_max_locks", "breaker_window_seconds",
   "breaker_cooldown_seconds"}

-----------------------------------------------------------------------------
(* Properties of the bounds, for the numbers given. *)

\* What a session takes for granted of its numbers: the distances and times it compares
\* with are positive, and it may lock at least once.
UsableIn(field, x) ==
  CASE field = "rssi_at_1m"                   -> x <= 0
    [] field = "integration_presence_max_age" -> x >= 0
    [] OTHER                                  -> x >= 1

\* Whatever number a configuration runs with, a session can work with.
AcceptedAreUsable(numbers) ==
  \A field \in Field, x \in numbers : RunsWith(field, x) => UsableIn(field, Coerced(field, x))

\* Whatever the window shows of a configuration, and then saves, is accepted.
ShownAreAccepted(numbers) ==
  \A field \in InWidgets, x \in numbers : AcceptedIn(field, Shown(field, x))
=============================================================================
