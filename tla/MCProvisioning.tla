--------------------------- MODULE MCProvisioning ---------------------------
(***************************************************************************)
(* The application starts with PSK and an LED and updates to PEAP with an  *)
(* SSID of full length; GATT writes of every kind, good and bad; and the   *)
(* answers a time server and a captive portal may give.                    *)
(***************************************************************************)
EXTENDS Provisioning

MCTexts == {"a", "b", "ingest"}
MCIngestUrls == {"ingest"}

Psk == SetAuth(SetConnectedLed(
           SetServer(SetWifi(EmptyConfig, "a", "a"), "ingest", "none", "a", "a"), 1), "hmac")

Peap == SetNumber(DisableConnectedLed(
            SetServer(SetWifiPeap(EmptyConfig, "full", "b", "b"), "a", "none", "a", "full")),
            "queue_depth", 4)

MCBootConfigs == {[Psk EXCEPT !.text["wifi_identity"] = "long"]}
MCAppConfigs == {Peap}

Token(kind) == [kind |-> kind, seconds |-> 0, overflows |-> FALSE]
Number(s, over) == [kind |-> "number", seconds |-> s, overflows |-> over]
Answer(status, chunks, body) == [err |-> FALSE, status |-> status, chunks |-> chunks, body |-> body]
Time(s) == <<Token("key"), Token("quote"), Token("colon"), Token("blank"), Number(s, FALSE)>>

MCAnswers ==
    {[err |-> TRUE, status |-> 0, chunks |-> <<>>, body |-> <<>>],
     Answer(200, <<3, 2>>, Time(21)), Answer(200, <<4, 4>>, Time(22)),
     Answer(302, <<5>>, Time(23)), Answer(200, <<5>>, Time(19)),
     Answer(200, <<5>>, <<Token("key"), Token("colon"), Number(24, TRUE)>>),
     Answer(200, <<2>>, <<Token("colon"), Number(25, FALSE)>>)}

MCTextWrites == {<<"wifi_ssid", "b">>, <<"device_id", "long">>}
MCNumberWrites == {<<"connected_led_gpio", NotANumber>>}
MCLimit == [fault |-> 1, update |-> 2, sync |-> 1, write |-> 2, reset |-> 1]

ble == <<nimble, started, synced, session, advertising, advFailed, callout>>

\* Bound of device_config: updates begin before the BLE service is started or in a
\* session whose timer has not fired, and no session begins or ends and no timer
\* fires meanwhile. Within one the client writes and applies, also while the
\* application updates; sessions come and go everywhere else.
SessionOrUpdate ==
    /\ (\E w \in Callers : update[w] # "none") => UNCHANGED ble \/ Panic
    /\ (\E w \in Callers : update[w] = "none" /\ update'[w] # "none") =>
          ~nimble \/ callout = "armed"

BoundedSpec == Init /\ [][Next /\ SessionOrUpdate]_vars /\ Fairness

=============================================================================
