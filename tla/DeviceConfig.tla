---------------------------- MODULE DeviceConfig ----------------------------
(***************************************************************************)
(* aetus_config_t: the checks and defaults of aetus_start() and            *)
(* aetus_update_config(), the C++ Config builder, and what of a            *)
(* configuration reaches the Wi-Fi driver.                                 *)
(*                                                                         *)
(* A text is one of: "none" (absent or empty), "full" (exactly as long as  *)
(* its field allows), "long" (longer) or a member of Texts (shorter).      *)
(***************************************************************************)
EXTENDS Naturals

CONSTANTS
    Texts,             \* ordinary texts
    DefaultInterval,   \* AETUS_UPLOAD_DEFAULT_INTERVAL_MS
    DefaultDepth       \* the queue depth of a configuration that gives none

ASSUME DeviceConfigAssumption ==
    DefaultInterval \in Nat \ {0} /\ DefaultDepth \in Nat \ {0}

Text == Texts \cup {"none", "full", "long"}

TextFields == {"wifi_ssid", "wifi_password", "wifi_identity", "ingest_url",
               "time_url", "device_id", "device_token"}

NumberFields == {"firmware_version", "upload_interval_ms", "queue_depth",
                 "connected_led_gpio"}

\* aetus_config_t; an enumeration of the C code is the set of its names.
Config ==
    [text : [TextFields -> Text], number : [NumberFields -> Nat],
     wifi_auth : {"psk", "peap"}, auth_mode : {"bearer", "hmac"},
     connected_led_enabled : BOOLEAN]

\* A zeroed aetus_config_t.
EmptyConfig ==
    [text |-> [f \in TextFields |-> "none"], number |-> [f \in NumberFields |-> 0],
     wifi_auth |-> "psk", auth_mode |-> "bearer", connected_led_enabled |-> FALSE]

-----------------------------------------------------------------------------
(* aetus::Config, one operator per method that sets fields. *)

SetWifi(c, ssid, password) ==
    [c EXCEPT !.text["wifi_ssid"] = ssid, !.text["wifi_password"] = password,
              !.text["wifi_identity"] = "none", !.wifi_auth = "psk"]

SetWifiPeap(c, ssid, identity, password) ==
    [c EXCEPT !.text["wifi_ssid"] = ssid, !.text["wifi_password"] = password,
              !.text["wifi_identity"] = identity, !.wifi_auth = "peap"]

SetServer(c, ingest_url, time_url, device_id, device_token) ==
    [c EXCEPT !.text["ingest_url"] = ingest_url, !.text["time_url"] = time_url,
              !.text["device_id"] = device_id, !.text["device_token"] = device_token]

SetAuth(c, mode) == [c EXCEPT !.auth_mode = mode]

SetNumber(c, field, n) == [c EXCEPT !.number[field] = n]

SetConnectedLed(c, gpio) ==
    [c EXCEPT !.connected_led_enabled = TRUE, !.number["connected_led_gpio"] = gpio]

DisableConnectedLed(c) ==
    [c EXCEPT !.connected_led_enabled = FALSE, !.number["connected_led_gpio"] = 0]

-----------------------------------------------------------------------------

StringRequiredFits(t) == t \notin {"none", "long"}
StringFits(t) == t # "long"

\* The checks of aetus_start() and, again, of aetus_update_config().
Valid(c) ==
    /\ \A f \in {"wifi_ssid", "wifi_password", "ingest_url", "device_id", "device_token"} :
         StringRequiredFits(c.text[f])
    /\ c.wifi_auth \in {"psk", "peap"} /\ c.auth_mode \in {"bearer", "hmac"}
    /\ c.wifi_auth = "peap" => StringRequiredFits(c.text["wifi_identity"])
    /\ StringFits(c.text["time_url"])

OrElse(n, default) == IF n = 0 THEN default ELSE n

\* The zeros a configuration may have are replaced: the depth by 16 at the
\* start, by the running depth in an update.
Normalise(c, depth) ==
    [c EXCEPT !.number["upload_interval_ms"] = OrElse(@, DefaultInterval),
              !.number["queue_depth"] = OrElse(@, depth)]

\* copy_string() into a field of wifi_config_t: sta.ssid has 32 bytes and
\* sta.password 64, exactly the lengths the checks admit, and the terminator
\* takes one.
StaText(t) == IF t = "full" THEN "cut" ELSE t

\* What esp_wifi_set_config() is given.
StaConfig(c) ==
    [ssid |-> StaText(c.text["wifi_ssid"]), auth |-> c.wifi_auth,
     password |-> IF c.wifi_auth = "psk" THEN StaText(c.text["wifi_password"]) ELSE "none"]

\* What the EAP client is given.
EapConfig(c) ==
    [identity |-> c.text["wifi_identity"], password |-> c.text["wifi_password"]]

=============================================================================
