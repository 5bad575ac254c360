------------------------------ MODULE Strategy ------------------------------
(***************************************************************************)
(* build_source (src/stavau/core/strategy.py): the source a configured     *)
(* strategy yields on a platform, and whether that is a downgrade; and the *)
(* strategy that setup configures, by what a device advertises             *)
(* (src/stavau/core/deviceid.py).                                          *)
(***************************************************************************)
EXTENDS Sequences, Integers

Strategies ==
  {"adv_scan", "adv_monitor", "gatt_link", "classic_link", "external_presence"}

Platforms == {"linux", "win32", "darwin"}

\* What there is: the platform, the tools and bindings found, an MQTT host with a topic.
Offers ==
  [platform : Platforms, tools : SUBSET {"hcitool", "l2ping", "winrt"}, topic : BOOLEAN]

\* gattlink_supported().
GattSupported(offer) ==
  offer.platform = "darwin" \/ (offer.platform = "linux" /\ "hcitool" \in offer.tools)

\* select_classic_backend().
ClassicBackend(offer) ==
  CASE offer.platform = "linux" /\ {"hcitool", "l2ping"} \subseteq offer.tools -> "hcitool"
    [] offer.platform = "win32" /\ "winrt" \in offer.tools -> "winrt"
    [] OTHER -> "none"

Supported(strategy, offer) ==
  CASE strategy = "external_presence" -> offer.topic
    [] strategy = "adv_monitor"       -> offer.platform = "linux"
    [] strategy = "gatt_link"         -> GattSupported(offer)
    [] strategy = "classic_link"      -> ClassicBackend(offer) # "none"
    [] OTHER                          -> TRUE

\* effective_strategy: what is not supported is replaced by scanning.
Effective(strategy, offer) == IF Supported(strategy, offer) THEN strategy ELSE "adv_scan"

\* The session logs strategy_degraded.
Degraded(strategy, offer) == Effective(strategy, offer) # strategy

-----------------------------------------------------------------------------
(* classify(), by the vendors' ids that were advertised. *)

Vendors == {"apple", "samsung", "google", "microsoft", "garmin", "fitbit"}

\* In the order in which they are looked for.
VendorRules ==
  << [of |-> {"apple"},             kind |-> "apple",     strategy |-> "adv_scan"],
     [of |-> {"samsung", "google"}, kind |-> "android",   strategy |-> "classic_link"],
     [of |-> {"microsoft"},         kind |-> "microsoft", strategy |-> "adv_scan"],
     [of |-> {"garmin", "fitbit"},  kind |-> "wearable",  strategy |-> "adv_scan"] >>

Classified(ids, advertised) ==
  LET applies == {i \in DOMAIN VendorRules : VendorRules[i].of \cap ids # {}}
      first == CHOOSE i \in applies : \A j \in applies : i <= j
  IN  IF applies # {} THEN VendorRules[first]
      ELSE [of |-> {}, kind |-> IF advertised THEN "generic" ELSE "unknown",
            strategy |-> "adv_scan"]

\* _identify_and_associate: the strategy asked for, or else the one recommended.
Chosen(forced, ids, advertised) ==
  IF forced = "auto" THEN Classified(ids, advertised).strategy ELSE forced
=============================================================================
