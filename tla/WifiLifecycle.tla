---------------------------- MODULE WifiLifecycle ---------------------------
(***************************************************************************)
(* How the device gets and keeps its network: aetus_start(), the lazy      *)
(* wifi_start() of whoever first needs the network (the uploader task or   *)
(* aetus_sync_rtc()), the event handler that reconnects, and               *)
(* aetus_update_config(), which the application and the BLE host task call.*)
(* The Wi-Fi driver is modelled from how this code uses it: one station    *)
(* configuration, a link, and a FIFO of events to the handler's task.      *)
(***************************************************************************)
EXTENDS DeviceConfig, TimeSync

CONSTANTS
    BootConfigs,  \* the configurations the application starts with
    AppConfigs,   \* the configurations it updates to
    Gpios,        \* the pins gpio_config() accepts
    Answers,      \* what the time server may answer
    MaxEvents,    \* bound: events waiting when the driver adds one unasked
    Limit,        \* bounds: faults, updates, syncs, writes, resets of a behaviour
    Total         \* bound: of all these together

ASSUME WifiLifecycleAssumption ==
    /\ BootConfigs \cup AppConfigs \subseteq Config
    /\ Gpios \subseteq Nat /\ MaxEvents \in Nat \ {0}
    /\ \A a \in Answers : a \in HttpAnswers
    /\ Limit \in [{"fault", "update", "sync", "write", "reset"} -> Nat] /\ Total \in Nat

VARIABLES
    made,             \* how many parts aetus_start() has created, in its order
    config, owner,    \* s_ctx.config, and whose buffers its texts point to
    buffers,          \* the text buffers of the provisioning state s_prov
    connected,        \* AETUS_WIFI_CONNECTED_BIT
    led,              \* level of each pin
    outdated,         \* history: the LED was last set from a bit that had changed since
    wifi_started, wifi_reconfiguring,
    netif,            \* the default station interface exists
    sta, eap,         \* the driver's station and EAP configuration
    link,             \* the driver: "off", "idle", "connecting" or "up"
    events,           \* driver events not yet handled
    handler,          \* where wifi_event_handler() is
    start,            \* where each caller of wifi_wait_connected_for() is
    update,           \* where each caller of aetus_update_config() is
    rtc,              \* the time last set, in seconds; 0 is unset
    refused,          \* history: the last attempt to connect got nowhere
    unapplied,        \* history: why the driver may lack the running texts
    spent             \* how much of Limit is used

runtime == <<made, config, owner, buffers>>
shown == <<connected, led, outdated>>
flags == <<wifi_started, wifi_reconfiguring>>
radio == <<netif, sta, eap>>
history == <<refused, unapplied>>

wifiVars == <<runtime, shown, flags, radio, link, events, handler, start, update, rtc,
              history, spent>>

Waiters == {"uploader", "rtc"}
Callers == {"app", "ble"}

\* The parts of aetus_start(): queue, events, LED, timer, task, timer start.
QueueMade == 1
EventsMade == 2
LedMade == 3
TimerMade == 4
TaskMade == 5
AllMade == 6

NoSta == [ssid |-> "none", auth |-> "none", password |-> "none"]
NoEap == [identity |-> "none", password |-> "none"]

Spend(what) ==
    /\ spent[what] < Limit[what] /\ FoldFunction(+, 0, spent) < Total
    /\ spent' = [spent EXCEPT ![what] = @ + 1]

\* The configuration the code sees: its texts are pointers, and after a BLE
\* apply they point into the buffers that GATT writes change.
Running == IF owner = "prov" THEN [config EXCEPT !.text = buffers] ELSE config

\* s_ctx and the driver at power-up.
WifiInit ==
    /\ made = 0 /\ config = EmptyConfig /\ owner = "app" /\ buffers = EmptyConfig.text
    /\ connected = FALSE /\ led = [g \in Gpios |-> FALSE] /\ outdated = FALSE
    /\ wifi_started = FALSE /\ wifi_reconfiguring = FALSE
    /\ netif = FALSE /\ sta = NoSta /\ eap = NoEap /\ link = "off" /\ events = <<>>
    /\ handler = "idle" /\ start = [t \in Waiters |-> "none"]
    /\ update = [w \in Callers |-> "none"]
    /\ rtc = 0 /\ refused = FALSE /\ unapplied = {}

\* The application is one task: it makes one call at a time.
AppFree == start["rtc"] = "none" /\ update["app"] = "none"

-----------------------------------------------------------------------------
(* aetus_start() *)

LedConfigurable(c) ==
    c.connected_led_enabled => c.number["connected_led_gpio"] \in Gpios

\* gpio_set_level() on the pin that c names, if there is one.
SetPin(c, level) ==
    [g \in Gpios |-> IF g = c.number["connected_led_gpio"] THEN level ELSE led[g]]

SetLed(c, level) == IF c.connected_led_enabled THEN SetPin(c, level) ELSE led

\* A failure leaves the parts made so far; with the queue among them no later
\* call gets past the first checks.
AetusStart(c) ==
    /\ Valid(c) /\ made = 0
    /\ LET most == IF LedConfigurable(c) THEN AllMade ELSE EventsMade
       IN  \/ made' = most /\ UNCHANGED spent
           \/ made' \in 0..most - 1 /\ Spend("fault")
    /\ config' = Normalise(c, DefaultDepth) /\ owner' = "app"
    /\ led' = IF made' >= LedMade THEN SetLed(c, FALSE) ELSE led
    /\ UNCHANGED <<buffers, connected, outdated, flags, radio, link, events, handler, start,
                   update, rtc, history>>

-----------------------------------------------------------------------------
(* The driver (external) *)

\* esp_wifi_connect(): started from idle, refused, or without effect on a link
\* that is already being made.
EspWifiConnect ==
    \/ link = "idle" /\ link' = "connecting" /\ refused' = FALSE /\ UNCHANGED spent
    \/ link = "idle" /\ refused' = TRUE /\ Spend("fault") /\ UNCHANGED link
    \/ link # "idle" /\ UNCHANGED <<link, refused, spent>>

Emit(event) == Len(events) < MaxEvents /\ events' = Append(events, event)

\* The access point accepts the station.
LinkUp ==
    /\ link = "connecting" /\ link' = "up" /\ Emit("GOT_IP")
    /\ UNCHANGED <<runtime, shown, flags, radio, handler, start, update, rtc, history, spent>>

\* The attempt fails, or the connection is lost.
LinkDown ==
    /\ link \in {"connecting", "up"} /\ link' = "idle" /\ Emit("DISCONNECTED")
    /\ UNCHANGED <<runtime, shown, flags, radio, handler, start, update, rtc, history, spent>>

-----------------------------------------------------------------------------
(* wifi_event_handler(), in the task of the default event loop *)

\* Mutant of HandleEvent: the station start is not answered with a connect.
HandleEventNoStart ==
    /\ handler = "idle" /\ events # <<>>
    /\ Head(events) # "START" => made >= EventsMade
    /\ handler' = (CASE Head(events) = "START" -> "idle"
                     [] Head(events) = "DISCONNECTED" -> "lost"
                     [] Head(events) = "GOT_IP" -> "gained")
    /\ connected' = IF Head(events) = "START" THEN connected ELSE Head(events) = "GOT_IP"
    /\ events' = Tail(events)
    /\ UNCHANGED <<runtime, led, outdated, flags, radio, link, start, update, rtc, history,
                   spent>>

\* The event is taken and its change of the event group made.
HandleEvent ==
    /\ handler = "idle" /\ events # <<>>
    /\ Head(events) # "START" => made >= EventsMade
    /\ handler' = (CASE Head(events) = "START" -> "connect"
                     [] Head(events) = "DISCONNECTED" -> "lost"
                     [] Head(events) = "GOT_IP" -> "gained")
    /\ connected' = IF Head(events) = "START" THEN connected ELSE Head(events) = "GOT_IP"
    /\ events' = Tail(events)
    /\ UNCHANGED <<runtime, led, outdated, flags, radio, link, start, update, rtc, history,
                   spent>>

\* Mutant of HandlerLed: the LED is only ever switched on.
HandlerLedStaysOn ==
    /\ handler \in {"lost", "gained"} /\ handler' = IF handler = "lost" THEN "check" ELSE "idle"
    /\ led' = IF handler = "gained" THEN SetLed(config, TRUE) ELSE led
    /\ outdated' = FALSE
    /\ UNCHANGED <<runtime, connected, flags, radio, link, events, start, update, rtc,
                   history, spent>>

\* The LED follows.
HandlerLed ==
    /\ handler \in {"lost", "gained"} /\ handler' = IF handler = "lost" THEN "check" ELSE "idle"
    /\ led' = SetLed(config, handler = "gained") /\ outdated' = FALSE
    /\ UNCHANGED <<runtime, connected, flags, radio, link, events, start, update, rtc,
                   history, spent>>

\* A disconnection that an update caused is left to it.
HandlerCheck ==
    /\ handler = "check" /\ handler' = IF wifi_reconfiguring THEN "idle" ELSE "connect"
    /\ UNCHANGED <<runtime, shown, flags, radio, link, events, start, update, rtc, history,
                   spent>>

\* The result of esp_wifi_connect() is not looked at.
HandlerConnect ==
    /\ handler = "connect" /\ handler' = "idle" /\ EspWifiConnect
    /\ UNCHANGED <<runtime, shown, flags, radio, events, start, update, rtc, unapplied>>

-----------------------------------------------------------------------------
(* wifi_wait_connected_for() and aetus_sync_rtc() *)

StartAt(t, from, to) == start[t] = from /\ start' = [start EXCEPT ![t] = to]

\* The uploader has something to send, or the application asks for the time.
\* The uploader's waits on a started station change nothing here.
WifiBegin(t) ==
    /\ IF t = "uploader" THEN made >= TaskMade /\ ~wifi_started /\ UNCHANGED spent
                         ELSE made >= QueueMade /\ AppFree /\ Spend("sync")
    /\ StartAt(t, "none", IF wifi_started THEN "wait" ELSE "init")
    /\ UNCHANGED <<runtime, shown, flags, radio, link, events, handler, update, rtc, history>>

\* Mutant of ApplyStaConfig: the EAP client keeps its first identity.
ApplyStaConfigKeepsEap ==
    /\ link # "connecting" /\ sta' = StaConfig(Running) /\ eap' = eap
    /\ unapplied' = {}

\* wifi_apply_sta_config(): the station configuration, then the EAP client. The
\* driver takes no configuration while it is connecting.
ApplyStaConfig ==
    /\ link # "connecting" /\ sta' = StaConfig(Running)
    /\ eap' = IF Running.wifi_auth = "peap" THEN EapConfig(Running) ELSE NoEap
    /\ unapplied' = {}

ApplyFails ==
    /\ IF link = "connecting" THEN UNCHANGED spent ELSE Spend("fault")
    /\ \/ sta' = sta /\ eap' = IF Running.wifi_auth = "psk" THEN NoEap ELSE eap
       \/ /\ Running.wifi_auth = "peap" /\ link # "connecting"
          /\ sta' = StaConfig(Running) /\ eap' = eap
    /\ unapplied' = unapplied \cup {"error"}

\* wifi_start() up to its last statement: NVS, the network interface, the driver
\* and the handler, the configuration and esp_wifi_start(). Each part may fail,
\* and what was made before stays.
WifiStart(t) ==
    /\ ~netif
    /\ \/ /\ StartAt(t, "init", "flag") /\ netif' = TRUE /\ ApplyStaConfig
          /\ link' = "idle" /\ Emit("START") /\ UNCHANGED spent
       \/ /\ StartAt(t, "init", "none") /\ netif' \in BOOLEAN /\ Spend("fault")
          /\ UNCHANGED <<sta, eap, link, events, unapplied>>
       \/ /\ StartAt(t, "init", "none") /\ netif' = TRUE /\ ApplyFails
          /\ UNCHANGED <<link, events>>
       \/ /\ StartAt(t, "init", "none") /\ netif' = TRUE /\ ApplyStaConfig /\ Spend("fault")
          /\ UNCHANGED <<link, events>>
    /\ UNCHANGED <<runtime, shown, flags, handler, update, rtc, refused>>

WifiStarted(t) ==
    /\ StartAt(t, "flag", "wait") /\ wifi_started' = TRUE
    /\ UNCHANGED <<runtime, shown, wifi_reconfiguring, radio, link, events, handler, update,
                   rtc, history, spent>>

\* The wait ends: the bit is set, or the timeout passes.
WifiWaited(t) ==
    /\ made >= EventsMade
    /\ StartAt(t, "wait", IF connected /\ t = "rtc" THEN "fetch" ELSE "none")
    /\ UNCHANGED <<runtime, shown, flags, radio, link, events, handler, update, rtc, history,
                   spent>>

\* The rest of aetus_sync_rtc(): one GET, and the clock if its answer is good.
SyncRtc ==
    /\ StartAt("rtc", "fetch", "none")
    /\ \E answer \in Answers :
         LET time == IF ResolvesTimeUrl(Running.text) THEN FetchServerTimeNs(answer) ELSE NoTime
         IN  rtc' = IF SetsRtc(time) THEN time.seconds ELSE rtc
    /\ UNCHANGED <<runtime, shown, flags, radio, link, events, handler, update, history, spent>>

-----------------------------------------------------------------------------
(* aetus_update_config(), step by step for each of its callers *)

UpdateAt(w, from, to) == update[w] = from /\ update' = [update EXCEPT ![w] = to]

\* The checks and the assignment of the whole structure. A refused configuration
\* changes nothing.
UpdateConfig(w, c, texts) ==
    /\ made >= QueueMade /\ Spend("update")
    /\ \/ ~Valid(c) /\ update[w] = "none" /\ UNCHANGED <<config, owner, update>>
       \/ /\ Valid(c) /\ UpdateAt(w, "none", "led")
          /\ config' = Normalise(c, config.number["queue_depth"]) /\ owner' = texts
    /\ UNCHANGED <<made, buffers, shown, flags, radio, link, events, handler, start, rtc, history>>

\* configure_connected_led() on the configuration of that moment: no LED, no such
\* pin, which ends the update, or the bit is read ...
UpdateReadsBit(w) ==
    /\ \/ /\ ~config.connected_led_enabled
          /\ UpdateAt(w, "led", "timer") /\ UNCHANGED unapplied
       \/ /\ ~LedConfigurable(config)
          /\ UpdateAt(w, "led", "none") /\ unapplied' = unapplied \cup {"error"}
       \/ /\ config.connected_led_enabled /\ LedConfigurable(config)
          /\ UpdateAt(w, "led", IF connected THEN "lit" ELSE "dark") /\ UNCHANGED unapplied
    /\ UNCHANGED <<runtime, shown, flags, radio, link, events, handler, start, rtc, refused, spent>>

\* ... and written to the pin, whatever an event has made of bit and pin since.
UpdateLed(w) ==
    /\ update[w] \in {"lit", "dark"} /\ update' = [update EXCEPT ![w] = "timer"]
    /\ led' = SetPin(config, update[w] = "lit") /\ outdated' = (connected # (update[w] = "lit"))
    /\ UNCHANGED <<runtime, connected, flags, radio, link, events, handler, start, rtc, history,
                   spent>>

\* xTimerChangePeriod() also starts a dormant timer. Before wifi_start() has
\* finished the update ends here, even when that has applied the old texts already.
UpdateTimer(w) ==
    /\ UpdateAt(w, "timer", IF wifi_started THEN "disconnect" ELSE "none")
    /\ made' = IF made = TaskMade THEN AllMade ELSE made
    /\ unapplied' = IF ~wifi_started /\ \E t \in Waiters : start[t] = "flag"
                    THEN unapplied \cup {"early"} ELSE unapplied
    /\ UNCHANGED <<config, owner, buffers, shown, flags, radio, link, events, handler, start,
                   rtc, refused, spent>>

UpdateClear(w) ==
    /\ made >= EventsMade /\ UpdateAt(w, "disconnect", "unlight") /\ connected' = FALSE
    /\ UNCHANGED <<runtime, led, outdated, flags, radio, link, events, handler, start, rtc,
                   history, spent>>

UpdateUnlight(w) ==
    /\ UpdateAt(w, "unlight", "flag") /\ led' = SetLed(config, FALSE) /\ outdated' = FALSE
    /\ UNCHANGED <<runtime, connected, flags, radio, link, events, handler, start, rtc, history,
                   spent>>

UpdateFlag(w) ==
    /\ UpdateAt(w, "flag", "drop") /\ wifi_reconfiguring' = TRUE
    /\ UNCHANGED <<runtime, shown, wifi_started, radio, link, events, handler, start, rtc,
                   history, spent>>

\* esp_wifi_disconnect(); then 250 ms for its event to be handled.
UpdateDrop(w) ==
    /\ UpdateAt(w, "drop", "apply")
    /\ IF link \in {"connecting", "up"} THEN link' = "idle" /\ events' = Append(events, "DISCONNECTED")
                                       ELSE UNCHANGED <<link, events>>
    /\ UNCHANGED <<runtime, shown, flags, radio, handler, start, rtc, history, spent>>

UpdateApply(w) ==
    /\ \/ UpdateAt(w, "apply", "applied") /\ ApplyStaConfig /\ UNCHANGED spent
       \/ UpdateAt(w, "apply", "failed") /\ ApplyFails
    /\ UNCHANGED <<runtime, shown, flags, netif, link, events, handler, start, rtc, refused>>

\* Mutant of UpdateUnflag: the flag is not reset.
UpdateUnflagForgotten(w) ==
    /\ \/ UpdateAt(w, "applied", "connect") /\ UNCHANGED refused
       \/ UpdateAt(w, "failed", "none") /\ refused' = (refused \/ link = "idle")
    /\ UNCHANGED <<runtime, shown, flags, radio, link, events, handler, start, rtc, unapplied,
                   spent>>

\* A configuration that cannot be applied ends the update before its connect.
UpdateUnflag(w) ==
    /\ \/ UpdateAt(w, "applied", "connect") /\ UNCHANGED refused
       \/ UpdateAt(w, "failed", "none") /\ refused' = (refused \/ link = "idle")
    /\ wifi_reconfiguring' = FALSE
    /\ UNCHANGED <<runtime, shown, wifi_started, radio, link, events, handler, start, rtc,
                   unapplied, spent>>

UpdateConnect(w) ==
    /\ UpdateAt(w, "connect", "none") /\ EspWifiConnect
    /\ UNCHANGED <<runtime, shown, flags, radio, events, handler, start, rtc, unapplied>>

UpdateStep(w) ==
    \/ UpdateReadsBit(w) \/ UpdateLed(w) \/ UpdateTimer(w) \/ UpdateClear(w) \/ UpdateUnlight(w)
    \/ UpdateFlag(w) \/ UpdateDrop(w) \/ UpdateApply(w) \/ UpdateUnflag(w) \/ UpdateConnect(w)

-----------------------------------------------------------------------------
(* Where this code brings the system down: a second station interface, or  *)
(* an event group that does not exist.                                     *)

Panics ==
    \/ netif /\ \E t \in Waiters : start[t] = "init"
    \/ /\ made < EventsMade
       /\ \/ \E t \in Waiters : start[t] = "wait"
          \/ \E w \in Callers : update[w] = "disconnect"
          \/ handler = "idle" /\ events # <<>> /\ Head(events) # "START"

\* The reset that follows: s_ctx and the driver are as at power-up.
WifiReset ==
    /\ made' = 0 /\ config' = EmptyConfig /\ owner' = "app" /\ buffers' = EmptyConfig.text
    /\ connected' = FALSE /\ led' = [g \in Gpios |-> FALSE] /\ outdated' = FALSE
    /\ wifi_started' = FALSE /\ wifi_reconfiguring' = FALSE
    /\ netif' = FALSE /\ sta' = NoSta /\ eap' = NoEap /\ link' = "off" /\ events' = <<>>
    /\ handler' = "idle" /\ start' = [t \in Waiters |-> "none"]
    /\ update' = [w \in Callers |-> "none"]
    /\ rtc' = 0 /\ refused' = FALSE /\ unapplied' = {} /\ UNCHANGED spent

WifiStep ==
    \/ \E c \in BootConfigs : AetusStart(c)
    \/ \E c \in AppConfigs : AppFree /\ UpdateConfig("app", c, "app")
    \/ LinkUp \/ LinkDown \/ HandleEvent \/ HandlerLed \/ HandlerCheck \/ HandlerConnect
    \/ \E t \in Waiters : WifiBegin(t) \/ WifiStart(t) \/ WifiStarted(t) \/ WifiWaited(t)
    \/ SyncRtc
    \/ \E w \in Callers : UpdateStep(w)

=============================================================================
