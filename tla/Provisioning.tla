---------------------------- MODULE Provisioning ----------------------------
(***************************************************************************)
(* The NimBLE provisioning service on top of the Wi-Fi life cycle: its     *)
(* start, the GATT writes into the pending configuration, the `apply`      *)
(* characteristic that calls aetus_update_config() in the host task, and   *)
(* the GAP events that keep one session at a time and advertise between    *)
(* sessions. The NimBLE host and the clients are modelled from how this    *)
(* code uses them.                                                         *)
(***************************************************************************)
EXTENDS WifiLifecycle

CONSTANTS
    TextWrites,     \* <<field, text>>: the GATT writes of texts
    NumberWrites,   \* <<field, n>>: of decimal numbers; n = NotANumber is none
    AuthWrites,     \* the texts written to wifi_auth
    BoolWrites,     \* the texts written to led_enabled
    NotANumber

ASSUME ProvisioningAssumption ==
    /\ TextWrites \subseteq TextFields \X Text
    /\ NumberWrites \subseteq NumberFields \X (Nat \cup {NotANumber})

VARIABLES
    pending,       \* s_prov.config, whose texts are in `buffers`
    nimble,        \* nimble_port_init() has succeeded
    started,       \* s_prov.started, and the host task runs
    synced,        \* the host and the controller are in sync
    advertising,   \* a client can find and open the service
    advFailed,     \* history: the last provisioning_advertise() failed
    session,       \* s_prov.connected
    callout        \* the auto-disconnect timer: off, armed, terminating, spent

provVars == <<pending, nimble, started, synced, advertising, advFailed, session, callout>>
vars == <<wifiVars, provVars>>

ProvInit ==
    /\ pending = EmptyConfig
    /\ nimble = FALSE /\ started = FALSE /\ synced = FALSE
    /\ advertising = FALSE /\ advFailed = FALSE /\ session = FALSE /\ callout = "off"

Init == WifiInit /\ ProvInit /\ spent = [k \in DOMAIN Limit |-> 0]

\* Neither s_ctx nor s_prov survives a reset.
Panic ==
    /\ Panics /\ WifiReset
    /\ pending' = EmptyConfig
    /\ nimble' = FALSE /\ started' = FALSE /\ synced' = FALSE
    /\ advertising' = FALSE /\ advFailed' = FALSE /\ session' = FALSE /\ callout' = "off"

-----------------------------------------------------------------------------
(* aetus_start_provisioning() *)

\* sync_pending_from_runtime(): every field of the running configuration, if there
\* is one, except its auth_mode, which stays zero.
PendingFromRuntime ==
    IF made >= QueueMade
    THEN [Running EXCEPT !.auth_mode = pending.auth_mode, !.text = pending.text]
    ELSE pending

\* copy_string_value() cuts a text that is too long for its buffer: with PSK no
\* check looks at the length of wifi_identity.
CopyStringValue(t) == IF t = "long" THEN "full" ELSE t

BuffersFromRuntime ==
    IF made >= QueueMade THEN [f \in TextFields |-> CopyStringValue(Running.text[f])]
    ELSE buffers

\* It may fail before or after the NimBLE port is initialized; the port is not
\* released, and nimble_port_init() refuses to run twice.
StartProvisioning ==
    /\ ~started /\ AppFree
    /\ buffers' = BuffersFromRuntime /\ pending' = PendingFromRuntime
    /\ \/ ~nimble /\ nimble' = TRUE /\ started' = TRUE /\ UNCHANGED spent
       \/ ~nimble /\ nimble' \in BOOLEAN /\ Spend("fault") /\ UNCHANGED started
       \/ nimble /\ UNCHANGED <<nimble, started, spent>>
    /\ UNCHANGED <<made, config, owner, shown, flags, radio, link, events, handler, start,
                   update, rtc, history, synced, advertising, advFailed, session, callout>>

-----------------------------------------------------------------------------
(* Callbacks of the host task; it runs one at a time, and none while an     *)
(* apply is in aetus_update_config().                                       *)

HostFree == started /\ update["ble"] = "none"

\* ble_gap_adv_set_fields() and ble_gap_adv_start(); errors are only logged.
Advertise ==
    \/ synced' /\ advertising' = TRUE /\ advFailed' = FALSE /\ UNCHANGED spent
    \/ synced' /\ advertising' = FALSE /\ advFailed' = TRUE /\ Spend("fault")
    \/ ~synced' /\ advertising' = FALSE /\ advFailed' = TRUE /\ UNCHANGED spent

hostOnly == <<runtime, shown, flags, radio, link, events, handler, start, update, rtc, history>>

OnSync ==
    /\ HostFree /\ ~synced /\ synced' = TRUE /\ Advertise
    /\ UNCHANGED <<hostOnly, pending, nimble, started, session, callout>>

\* The controller fails: the host drops the connection, and the disconnect
\* event comes while advertising is impossible.
OnReset ==
    /\ HostFree /\ synced /\ synced' = FALSE /\ Spend("reset")
    /\ session' = FALSE /\ callout' = "off"
    /\ advertising' = FALSE /\ advFailed' = (advFailed \/ session)
    /\ UNCHANGED <<hostOnly, pending, nimble, started>>

\* Mutant of GapConnect: the timer is not armed.
GapConnectUntimed ==
    /\ HostFree /\ advertising /\ ~session
    /\ session' = TRUE /\ advertising' = FALSE
    /\ UNCHANGED <<hostOnly, spent, pending, nimble, started, synced, advFailed, callout>>

\* A client connects; advertising ends, and the session gets its ten minutes.
GapConnect ==
    /\ HostFree /\ advertising /\ ~session
    /\ session' = TRUE /\ advertising' = FALSE /\ callout' = "armed"
    /\ UNCHANGED <<hostOnly, spent, pending, nimble, started, synced, advFailed>>

\* An attempt to connect fails, or advertising ends for another reason.
GapRetry ==
    /\ HostFree /\ synced /\ advertising /\ UNCHANGED synced /\ Advertise
    /\ UNCHANGED <<hostOnly, pending, nimble, started, session, callout>>

\* Mutant of GapDisconnect: nothing is advertised after a session.
GapDisconnectHidden ==
    /\ HostFree /\ session
    /\ session' = FALSE /\ callout' = "off"
    /\ UNCHANGED <<hostOnly, pending, nimble, started, synced, advertising, advFailed, spent>>

\* The session is over, by the client, the timer or the air.
GapDisconnect ==
    /\ HostFree /\ session
    /\ session' = FALSE /\ callout' = "off" /\ UNCHANGED synced /\ Advertise
    /\ UNCHANGED <<hostOnly, pending, nimble, started>>

\* The timer fires once. ble_gap_terminate() may fail, and nothing arms the
\* timer again.
DisconnectTimeout ==
    /\ HostFree /\ session /\ callout = "armed"
    /\ \/ callout' = "terminating" /\ UNCHANGED spent
       \/ callout' = "spent" /\ Spend("fault")
    /\ UNCHANGED <<hostOnly, pending, nimble, started, synced, advertising, advFailed, session>>

-----------------------------------------------------------------------------
(* provisioning_write() *)

ClientWrites == HostFree /\ session /\ Spend("write")

writeOnly == <<made, config, owner, shown, flags, radio, link, events, handler, start, update,
               rtc, refused, nimble, started, synced, advertising, advFailed, session, callout>>

\* Mutant of WriteText: the length is not checked.
WriteTextUnchecked(field, text) ==
    /\ ClientWrites
    /\ buffers' = [buffers EXCEPT ![field] = text]
    /\ unapplied' = IF owner = "prov" /\ buffers' # buffers
                    THEN unapplied \cup {"in place"} ELSE unapplied
    /\ UNCHANGED <<writeOnly, pending>>

\* A text that fits replaces the buffer, the running one too when the running
\* texts are the buffers.
WriteText(field, text) ==
    /\ ClientWrites
    /\ buffers' = IF StringFits(text) THEN [buffers EXCEPT ![field] = text] ELSE buffers
    /\ unapplied' = IF owner = "prov" /\ buffers' # buffers
                    THEN unapplied \cup {"in place"} ELSE unapplied
    /\ UNCHANGED <<writeOnly, pending>>

\* A number that cannot be read is answered with an error, and stored as zero.
WriteNumber(field, n) ==
    /\ ClientWrites
    /\ pending' = [pending EXCEPT !.number[field] = IF n = NotANumber THEN 0 ELSE n]
    /\ UNCHANGED <<writeOnly, buffers, unapplied>>

WriteAuth(auth) ==
    /\ ClientWrites
    /\ pending' = IF auth \in {"psk", "peap"} THEN [pending EXCEPT !.wifi_auth = auth] ELSE pending
    /\ UNCHANGED <<writeOnly, buffers, unapplied>>

WriteLedEnabled(text) ==
    /\ ClientWrites
    /\ pending' = IF text \in {"on", "off"}
                  THEN [pending EXCEPT !.connected_led_enabled = (text = "on")] ELSE pending
    /\ UNCHANGED <<writeOnly, buffers, unapplied>>

\* The structure is passed on as it is: its texts are the buffers.
WriteApply ==
    /\ HostFree /\ session
    /\ UpdateConfig("ble", [pending EXCEPT !.text = buffers], "prov")
    /\ UNCHANGED provVars

-----------------------------------------------------------------------------

HostStep ==
    \/ OnSync \/ OnReset \/ GapConnect \/ GapRetry \/ GapDisconnect \/ DisconnectTimeout
    \/ \E w \in TextWrites : WriteText(w[1], w[2])
    \/ \E w \in NumberWrites : WriteNumber(w[1], w[2])
    \/ \E a \in AuthWrites : WriteAuth(a)
    \/ \E b \in BoolWrites : WriteLedEnabled(b)
    \/ WriteApply

Next ==
    \/ WifiStep /\ UNCHANGED provVars
    \/ StartProvisioning \/ HostStep \/ Panic

\* The tasks run on, the driver ends an attempt to connect, and an access point
\* that is tried again and again accepts in the end. Callouts and GAP events of
\* the host are served from one queue. Clients, the application, faults and the
\* loss of a link are under no obligation.
Fairness ==
    /\ \A t \in Waiters : WF_vars((WifiStart(t) \/ WifiStarted(t) \/ WifiWaited(t)
                                    \/ (t = "rtc" /\ SyncRtc)) /\ UNCHANGED provVars)
    /\ \A w \in Callers : WF_vars(UpdateStep(w) /\ UNCHANGED provVars)
    /\ WF_vars((HandleEvent \/ HandlerLed \/ HandlerCheck \/ HandlerConnect)
                /\ UNCHANGED provVars)
    /\ SF_vars(LinkUp /\ UNCHANGED provVars)
    /\ WF_vars(DisconnectTimeout \/ (callout = "terminating" /\ GapDisconnect))
    /\ WF_vars(Panic)

Spec == Init /\ [][Next]_vars /\ Fairness

-----------------------------------------------------------------------------
(* Properties *)

\* Every variable keeps its type: among them, the running configuration is
\* always one that passed the checks, and the events outgrow the queue by one for
\* each update at most.
TypeOK ==
    /\ made \in 0..AllMade /\ config \in Config /\ owner \in {"app", "prov"}
    /\ made >= QueueMade => Valid(config)
    /\ buffers \in [TextFields -> Text \ {"long"}] /\ pending \in Config
    /\ connected \in BOOLEAN /\ led \in [Gpios -> BOOLEAN] /\ outdated \in BOOLEAN
    /\ wifi_started \in BOOLEAN
    /\ wifi_reconfiguring \in BOOLEAN /\ netif \in BOOLEAN
    /\ link \in {"off", "idle", "connecting", "up"}
    /\ events \in Seq({"START", "DISCONNECTED", "GOT_IP"})
    /\ Len(events) <= MaxEvents + spent["update"] /\ spent \in [DOMAIN Limit -> Nat]
    /\ handler \in {"idle", "lost", "gained", "check", "connect"}
    /\ start \in [Waiters -> {"none", "init", "flag", "wait", "fetch"}]
    /\ update \in [Callers -> {"none", "led", "lit", "dark", "timer", "disconnect", "unlight",
                               "flag", "drop", "apply", "applied", "failed", "connect"}]
    /\ rtc \in Nat /\ refused \in BOOLEAN /\ unapplied \subseteq {"error", "early", "in place"}
    /\ callout \in {"off", "armed", "terminating", "spent"} /\ nimble \in BOOLEAN
    /\ started \in BOOLEAN /\ synced \in BOOLEAN /\ session \in BOOLEAN
    /\ advertising \in BOOLEAN /\ advFailed \in BOOLEAN
    /\ (started => nimble) /\ (synced => started) /\ (session \/ advertising => synced)

\* No task is in the middle of starting, handling or updating.
Quiet ==
    /\ handler = "idle" /\ events = <<>>
    /\ \A w \in Callers : update[w] = "none"
    /\ \A t \in Waiters : start[t] \in {"none", "wait", "fetch"}

\* Nothing in the code retries a connection from rest: once every event is
\* handled and every update over, a started station that is neither connected
\* nor connecting was refused by the driver, by esp_wifi_connect() or by the
\* configuration. No interleaving of updates, events and the
\* wifi_reconfiguring flag leaves it stranded.
OfflineIsExplained == Quiet /\ wifi_started /\ link = "idle" => refused

\* However the events of the old connection overlap an update, the bit that the
\* uploader waits for ends as the state of the link, and so does the LED on the
\* pin that is configured now. One order of steps is excepted: an event that
\* comes between configure_connected_led()'s read of the bit and its write of the
\* pin leaves the pin outdated, and an update that then returns, because
\* wifi_start() has not set wifi_started yet, does not set it again.
LinkIsShown ==
    /\ Quiet => connected = (link = "up")
    /\ Quiet /\ wifi_started /\ ~outdated /\ config.connected_led_enabled
         /\ LedConfigurable(config)
         => led[config.number["connected_led_gpio"]] = (link = "up")

\* When no update failed, came early or was bypassed by a write in place, the
\* driver holds the Wi-Fi texts of the running configuration, except that a
\* text of full length has lost its last byte.
DriverHasRunningConfig ==
    Quiet /\ wifi_started /\ unapplied = {} =>
        LET text == Running.text
        IN  /\ sta.auth = config.wifi_auth
            /\ text["wifi_ssid"] # "full" => sta.ssid = text["wifi_ssid"]
            /\ config.wifi_auth = "psk" /\ text["wifi_password"] # "full"
                 => sta.password = text["wifi_password"]
            /\ config.wifi_auth = "peap"
                 => eap = [identity |-> text["wifi_identity"], password |-> text["wifi_password"]]

\* Between sessions the service is advertised, or the last attempt to do so
\* failed: no order of connects, failed connects, disconnects, resets and
\* timeouts leaves it hidden otherwise.
ProvisioningReachable == synced /\ ~session => advertising \/ advFailed

-----------------------------------------------------------------------------
(* What makes these invariants inductive. *)

\* Where an update has still to show the link on its pin, where it has cleared the
\* bit of a link that it has not dropped yet, and where it has not dropped it.
Showing == {"led", "lit", "dark"}
Clearing == {"unlight", "flag", "drop"}
Undropped == Showing \cup Clearing \cup {"timer", "disconnect"}

Disconnecting(w) == IF update[w] \in Undropped THEN 1 ELSE 0

\* Only a call of aetus_update_config() that is about to disconnect adds an event to
\* a full queue.
EventBound ==
    /\ Disconnecting("app") + Disconnecting("ble") <= spent["update"]
    /\ Len(events) + Disconnecting("app") + Disconnecting("ble") <= MaxEvents + spent["update"]

\* Nothing runs before aetus_start() has made its first part, no event comes before
\* the driver is started, and the first one is the start of the station.
StationInv ==
    /\ made = 0 => /\ ~netif /\ \A t \in Waiters : start[t] = "none"
                   /\ \A w \in Callers : update[w] = "none"
                   /\ \A g \in Gpios : ~led[g]
    /\ ~netif => link = "off" /\ ~wifi_started /\ \A t \in Waiters : start[t] # "flag"
    /\ link = "off" => events = <<>> /\ handler = "idle" /\ ~connected
    /\ \A i \in 1..Len(events) : events[i] = "START" => i = 1 /\ handler = "idle"

\* No event that would change the bit is waiting.
Settled == events = <<>> \/ events[Len(events)] = "START"

NobodyAt(pcs) == \A w \in Callers : update[w] \notin pcs

\* The handler is done with the last event, and the pin is that of an LED.
LedSettled ==
    /\ Settled /\ handler \notin {"lost", "gained"} /\ ~outdated
    /\ config.connected_led_enabled /\ LedConfigurable(config)

\* The last event waiting, or else the bit, and behind it the LED, is the state of
\* the link; but an update dims both before it drops the link.
ShownInv ==
    /\ ~Settled => (events[Len(events)] = "GOT_IP" <=> link = "up")
    /\ Settled /\ connected => link = "up"
    /\ Settled /\ link = "up" /\ NobodyAt(Clearing) => connected
    /\ Settled /\ handler \in {"lost", "gained"} => (handler = "gained" <=> link = "up")
    /\ LedSettled /\ NobodyAt(Showing) /\ led[config.number["connected_led_gpio"]] => link = "up"
    /\ LedSettled /\ NobodyAt(Showing \cup Clearing) /\ link = "up"
         => led[config.number["connected_led_gpio"]]

\* A station at rest will be connected by the handler, by an event that waits or by
\* an update, and only an update that will connect keeps the handler from it.
RetryInv ==
    /\ wifi_reconfiguring =>
         \E w \in Callers : update[w] \in {"drop", "apply", "applied", "failed"}
    /\ link = "idle" =>
         \/ refused \/ handler \in {"connect", "lost", "check"}
         \/ \E i \in 1..Len(events) : events[i] \in {"START", "DISCONNECTED"}
         \/ \E w \in Callers : update[w] \in {"drop", "apply", "applied", "failed", "connect"}

DriverMatches ==
    sta = StaConfig(Running) /\ (Running.wifi_auth = "peap" => eap = EapConfig(Running))

\* What the driver lacks of the running configuration, an update will give it.
AppliedInv ==
    /\ owner = "prov" => started
    /\ (wifi_started \/ \E t \in Waiters : start[t] = "flag") /\ unapplied = {} =>
         DriverMatches \/ \E w \in Callers : update[w] \in Undropped \cup {"apply"}

-----------------------------------------------------------------------------

\* A forgotten session ends, unless ble_gap_terminate() itself failed.
SessionEnds == session ~> (~session \/ callout = "spent")

\* A started station gets its connection, unless the driver refused.
Reconnects == wifi_started ~> (connected \/ refused \/ ~wifi_started)

\* The clock is only ever set, and to a plausible time, from an answer that
\* arrived complete, fits the buffer with its terminator and has a 2xx status.
RtcFromWholeAnswer ==
    [][rtc' \notin {rtc, 0} =>
         \E a \in Answers :
            /\ ~a.err /\ a.status \div 100 = 2
            /\ FoldLeft(LAMBDA sum, n : sum + n, 0, a.chunks) < BodyCapacity
            /\ \E i \in DOMAIN a.body : a.body[i].kind = "number" /\ a.body[i].seconds = rtc'
            /\ rtc' >= RtcValidAfter]_vars

\* README.md of the firmware: a GATT write updates the pending values, and only
\* a write to `apply` commits them to the running stack.
RunningConfigStable ==
    [][Running' # Running /\ made' > 0 /\ made > 0 => spent'["update"] > spent["update"]]_vars

=============================================================================
