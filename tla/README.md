# A TLA+ model of AETUS

AETUS collects telemetry from ESP32 devices. A firmware component queues
messages and posts them as protobuf; an ingest API authenticates the posts and
publishes them to Kafka; Kafka Connect writes them to PostgreSQL/TimescaleDB; an
anomaly service scans the tables and notifies webhooks; a query API and three web
panels read. This directory models the parts in which tasks, processes, messages
and failures meet, checks small instances with TLC and proves the central
properties for every instance with TLAPS.

Run a check with `tlc -workers 2 -config <run>.cfg <module>` (the pairs are in
`PROJECT.json`), a proof with `tlapm <module>.tla`.

## 1. Inventory

| Component | State | Operations | Correct when |
| --- | --- | --- | --- |
| Upload runtime, `firmware/esp32-aetus/components/aetus/aetus.c` | FreeRTOS queue, event group, `sequence`, `boot_id`, configuration | `aetus_enqueue_*` from tasks and ISRs, `uploader_task`/`drain_queue`, `aetus_flush`, timer and Wi-Fi callbacks | first in, first out; nothing lost silently; a sequence number belongs to one message; a flush returns |
| Sample pool, `aetus_signal_sample_pool.c` | heap blocks, statistics | allocate, release, five counters | every block has one owner; the counters add up |
| Telemetry structs, `aetus.c`, `aetus_queue_item.c` | inline table, heap table, blobs | `aetus_telemetry_*`, deep copy, release | nothing leaks, nothing has two owners, a queued item does not change |
| Wi-Fi, configuration and RTC, `aetus.c` 512-880, 1525-1717 | `config`, `wifi_started`, `wifi_reconfiguring`, connected bit, LED, RTC | `aetus_start`, `aetus_update_config`, `wifi_start`, event handler, `aetus_sync_rtc` | the device is offline only when the driver refused; bit and LED end as the link; the driver holds the running texts |
| BLE provisioning, `aetus_provisioning.c` | pending configuration, session, time-out | GATT reads and writes, apply, advertise, disconnect timer | what runs is what was applied; a session ends; the service stays reachable |
| Builders, `include/aetus.hpp`, `aetus.c` 1210-1523 | the struct, the remembered error | `Telemetry`, `SignalFrame`, `Status`, `Config` and the C functions under them | one failed call keeps the message back; a frame holds the samples it claims |
| Encoding and request, `aetus.c` 197-509, 882-1135, `nanopb/pb_encode.c` | payload buffer, headers | `encode_*`, `pb_encode*`, `post_payload` | what arrives is what was asked for; nothing is written past the buffer; the server takes it |
| Client libraries, `clients/python-ingest`, `clients/rust-ingest` | `sequence` | `send_metrics`, `send_signal_frame`, `send_status`, `send_alert`, `send_event` | the sequence moves on success only |
| Ingest API, `services/ingest-api`: ingest | producer buffer | `POST /v1/ingest`, `/v1/time` | an accepted event is published whole |
| Control store, `control_db.py` in SQLite or PostgreSQL | `devices`, `hardware_allowlist` | `POST /v1/provision`, the admin endpoints, seeds at every start | one device id per hardware id, for good; an answer carries a committed token; no request hangs |
| Backups, `control_backup.py` | `*.db` and `*.db.tmp` files | copy, rename, prune, loop | every backup is whole, the newest survives, every change is backed up |
| Rate limits, `rate_limit.py` | a token bucket per key | `consume`, eviction, `cleanup`, Retry-After | never more than the plan; refusals are free; Retry-After is enough |
| Admin sessions, `app.py` 46-64, 198-204, 358-383, 563-590 | deadlines by token, the browser's cookie | two logins, two logouts, guard | signed in is served, signed out is refused |
| Sinks and schema, `services/kafka-connect`, `services/postgres/initdb` | offsets, staging tables, points, frames, raw events | upserts, staging triggers, restarts | a redelivery changes nothing; accepted events arrive |
| Anomaly worker, `services/anomaly/src/worker.rs` | `anomaly_events`, `anomaly_job_state` | one pass over jobs and windows | a recorded window has announced its events |
| Outbox and dispatcher, `dispatcher.rs`, `repository.rs` | `webhook_outbox`, `webhook_deliveries` | select, POST, log, update | delivered means received; attempts are bounded; every row settles |
| Detectors, `services/anomaly/src/detectors` | none | one pure function each | agrees with its definition at the boundaries |
| Query API, `services/query-api` | Redis cache | read-only queries, signal decoding | pure over the tables |
| Panels, `frontend/` | none | views | not a subject here |

How they interact: firmware and client libraries reach the ingest API by HTTP
only. The event is known downstream by `device_id`, `boot_id` and `sequence`,
and each attempt to send it by a `request_id` that the server makes up. The API
reaches the sinks through three topics, the sinks reach the tables through
staging tables with triggers. The worker and the dispatcher share nothing but
tables, and every SQL statement of theirs commits on its own.

What is hard to test here is listed with its line under `hazards` in
`PROJECT.json`: the drop of a requeued message and the reuse of its number;
answers that are lost after the server has acted; a flush that overlaps a drain;
allocations that fail in the middle of a deep copy; statistics kept in separate
critical sections; an event whose records are published one at a time; records
that arrive after their request has failed; sinks that restart; rows selected by
two dispatchers; statuses computed from counts that are stale; failures between
any two statements; updates of the configuration that overlap each other, the
events of the old connection and the first start of Wi-Fi; a running configuration
that points into buffers somebody else writes; lengths, products and varints at
their limits; requests that draw the same device id from two processes; a `COMMIT`
that is carried out and not answered; starts that write seeds over what was issued,
and wait for each other's rows.

## 2. Modules

| Module | Models | Composes |
| --- | --- | --- |
| `SignalSamplePool` | the statistics of the pool, one operator per critical section | |
| `AetusUpload` | the running upload runtime and the side of the server that a POST reaches | `SignalSamplePool` |
| `FifoUplink` | abstract: a bounded first-in-first-out line | refined by `AetusUpload` |
| `TelemetryOwnership` | telemetry structs, the heap and the queue items made of them | |
| `DeviceConfig` | `aetus_config_t`: its builder, checks and defaults, and what of it the driver gets | |
| `TimeSync` | the answer of the time server and what of it sets the clock | |
| `WifiLifecycle` | start, lazy Wi-Fi start, event handler, configuration updates, RTC sync, LED | `DeviceConfig`, `TimeSync` |
| `Provisioning` | the BLE service on top of it: the complete specification of both | `WifiLifecycle` |
| `NanopbEncode` | nanopb's encoder on the descriptors of `ingest.pb.h`, and a decoder of the wire format | |
| `SignalFrameCheck` | `validate_signal_frame()` and its `size_t` arithmetic, with its theorem | |
| `AetusEncode` | events, headers and signatures, the server's checks | `NanopbEncode`, `SignalFrameCheck` |
| `MessageBuilder` | a message from the first builder call to the POST | `AetusEncode` |
| `IngestPipeline` | client, ingest API, publisher, topics, sinks, triggers and tables | |
| `AnomalyOutbox` | workers, outbox, dispatchers, endpoints | |
| `ControlStore` | token issuing over both backends, seeds, starts and stops | |
| `MC*` | the instances for TLC | |
| `AetusUploadProofs`, `UploadLineProofs` | theorems about the upload runtime, its flush, its sample pool and its refinement | `AetusUpload` |
| `TelemetryOwnershipProofs` | theorems about the owners of heap blocks and the contents of queued items | `TelemetryOwnership` |
| `IngestPipelineProofs`, `AnomalyOutboxProofs`, `ControlStoreProofs` | theorems about the services | each its module |
| `ProvisioningProofs` | theorems about the Wi-Fi life cycle, the clock and the BLE service | `Provisioning` |

Definitions named as mutants ("Mutant of ...") are not part of any
specification. Each is a plausible mistake in the code that it stands for, and
TLC finds the property it is paired with violated when it takes the place of the
original.

### AetusUpload

A step is what happens between two points at which another task can run: a
FreeRTOS call, one critical section of the pool, an allocation or a free, one
event on the network. `queue`, `bits`, `sequence`, `stats` are fields of `s_ctx`;
`upc` and `item` are the uploader's program counter and its local item; `ppc`
and `pmsg` are those of the producers, `fpc` those of the tasks in
`aetus_flush()`. `heap` is the set of signal frames whose sample block is
allocated. Event groups follow FreeRTOS: setting bits wakes every waiting task
and clears what they wait for before the call returns (`SetTrigger`, `SetDone`).

A POST is three things: the request (`Post`), what the server does with it
(`ServerAccepts`, `ServerAnswers400`, or `ServerHandlesLate` once the uploader has
given up on it) and what `post_payload()` returns (`PostOk`, `PostFails`). `row`
is the raw table of this boot, upserted by sequence number. A message is one call
of an enqueue function, so `used` keeps two calls apart; the other history
variables record fates.

### TelemetryOwnership

Structs are records with an inline table, a heap table that may be absent and
metrics that are scalars or pointers to blobs. `hand[s]`, the item that a caller is
sending, and `item`, the uploader's, are sequences of at most one item. `mem` maps
addresses to contents; `Address` hands out the lowest free one and `With` adds
blocks to a heap. Reading a block that was freed is
undefined, so the model stops there: every action requires `Intact`, and
`StructsStayValid` is the property that notices. The deep copy is `CopyTo`, which
starts with all of the source's pointers, as `memcpy()` does, and replaces them
one by one; `EnqueueCopyFails` is the failure at any of them. `Shape` in the MC
module is a VIEW: states that differ only by a renaming of addresses are one.

### IngestPipeline

A request is its number, which stands for `request_id` and `received_at`; its
i-th record is `<<request, i>>`, the raw event first. `sent` counts the records
that `_publish_sync()` has got through. `PublishFails` is an exception of
`send()` or `get(timeout=10)`, after which the record may still sit in the
producer (`buffer`) and be sent later. A sink has a position and a committed
offset and goes back to the latter when it restarts. `points` holds the rows of
`device_metric_points` and `device_signal_frames`, upserted under exactly the
conflict keys of the triggers. Tables that only intern names are left out, and
so are the staging rows, which nothing but their trigger reads. The refusals
415, 403, 429, 413, 401 and 400 are one action, because all of them happen
before the event is normalised. A duplicate that the producer itself makes is
the same record twice and behaves like a redelivery.

### AnomalyOutbox

Each SQL statement is an action, and `WorkerFails` and `DispatcherFails` may come
between any two (a lost connection, a restarted process, the `?` that ends a
batch). `Deliveries` carry the `attempt_count` and `max_attempts` as they were
read, because that is what `record_delivery_failure` decides with. A dispatcher is
`Overtaken` when it records an outcome for a row whose count has moved since it read
it; `overtaken` counts these per row and `ceiling` is the largest limit that each
endpoint has had, two histories that say how far stale counts and changed limits
reach. Time is
abstract: `wait` counts down by `Tick`, and `Backoff` is `next_backoff_seconds`.
Whether a window crosses its threshold is a free choice.

### WifiLifecycle and Provisioning

Five actors: the application (one task: one call at a time), the uploader, the
NimBLE host task, the task of the default event loop, and the Wi-Fi driver, which
is external and known by one station configuration, one EAP configuration, a
`link` and a FIFO of `events`. `made` counts the parts that `aetus_start()` has
created, in its order; every one may fail and leave those before it.

`aetus_update_config()` is eleven steps for each of its two callers, one for each
access to what other tasks read or write: checks and assignment (`UpdateConfig`);
in `configure_connected_led()` the read of the bit (`UpdateReadsBit`) and the write of
the pin (`UpdateLed`), each on the configuration of that moment; the timer and the
test of `wifi_started` (`UpdateTimer`); then the bit (`UpdateClear`), the LED
(`UpdateUnlight`), the flag (`UpdateFlag`), `esp_wifi_disconnect()` (`UpdateDrop`),
`wifi_apply_sta_config()` (`UpdateApply`), the flag again (`UpdateUnflag`) and
`esp_wifi_connect()` (`UpdateConnect`). The event handler is in the same way the
change of the event group, the LED, the test of `wifi_reconfiguring` and the
connect. `wifi_start()` is one step up to its last statement, because before
`esp_wifi_start()` nobody else sees what it makes, and `wifi_started` is a step of
its own. `wifi_apply_sta_config()` is one step too. What that leaves out is an update
that stays inside it, between its read of the texts and the driver calls, for longer
than the 250 ms that another update lets pass between its assignment and its own
apply; the driver could then end with the older texts.

`config` is `s_ctx.config`, whose texts are pointers: `owner` says whether they
point to the application's constants or into the buffers of `s_prov`, and
`Running` is what the code reads through them. A panic (a second default station
interface, an event group that was never made) resets the device.

A text is known by what the code can tell apart: absent or empty (`"none"`), of full
length, too long, or an ordinary one. `CopyStringValue` is the copy into a buffer of
`s_prov`, which cuts what is too long; with PSK that can be the identity, whose length
no check looks at then. `unapplied`, `refused` and `outdated` are histories that
record why the driver may lack the running texts, the station its connection, or the
LED the state of the bit.

### NanopbEncode, AetusEncode and MessageBuilder

A number is the set of its one bits, so widths, shifts and sign extension are
those of C. A text has an identity, a length and the place of its first NUL; the
output is a sequence of bytes and of runs of a text, with the length counted as in
`bytes_written`. The encoder keeps the functions of `pb_encode.c` and their names;
of the field types and rules it has those that the seven messages of
`ingest.pb.h` use. `Decode` reads the result back by the wire format alone, and
`EventOf` says what the server sees.

`MessageBuilder` is the state machine around it: any sequence of builder calls,
with failing allocations (`fails`), then `Enqueue` and one `Upload` under any
context (device id, token, authentication, sequence, uptime). `asked` is what the
caller passed to calls that succeeded, `lost` that a call failed. SHA-256 is an
injective constructor.

### ControlStore

`req[r]` is one call of `issue_device_token()`: its program counter, attempt, drawn
id, the row its transaction has written and the row it read back. Every statement
is a step, because every one of them is awaited. The two backends differ where
their code does: SQLite takes the write lock first (`Begin`, or `BeginBusy` when the
3 s of `busy_timeout` run out) and reads its answer after `COMMIT`; PostgreSQL locks the row
it finds, sees only what is committed, waits in an `INSERT` for a key somebody else
has inserted, and reads its answer before `COMMIT`. Any statement may also fail
(`StatementFails`): only constraint errors are retried, every other one is raised.
What matters then is whether the token is stored. It is when SQLite's `SELECT` after
the `COMMIT` fails, and when the connection to PostgreSQL breaks before the `COMMIT`,
which leaving the `async with` sends, is answered (`CommitUnanswered`); such a request
ends as `unsure`, the others as `error`.

The locks themselves are external: `RowLocked`, `Pending`, `HasListed`, `SeedWaits`,
`WriterFree`. An `INSERT` takes the keys of both unique indexes of `devices` in one
step. An issued token is named by its request, a seeded one by its device id. `pod` is
a process of the API: `Start` picks the seeds of its environment in their order, and the
two seeding transactions write them row by row (`ListHardware`, `SeedDevice`), holding
what they have written (`listed`, `seeded`) until their commits
(`SeedHardwareAllowlist`, `SeedDevices`). So a start waits for a request that has locked
a row, a request for a start that has inserted its allowlist entry, and two starts
with different orders for each other, until PostgreSQL ends one of them
(`SeedDeadlock`). Requests are taken after the second commit.
A device id is a prefix, what stands before the number and the number, with `"-"`
before the number of every id that `_next_device_id()` draws.
`Crash` rolls back what was not committed. Creating the tables is not a step of
its own.

`backend` is chosen once, so that one run covers both; SQLite is served by one
process.

## 3. Runs

| Run | Instance | Question | Result |
| --- | --- | --- | --- |
| `upload_safety` | two producers, ISR, one telemetry, one status that is answered 400, two signal frames of different size of which one cannot be encoded, queue of 2 | is every block owned, every count exact, every number and row with its message, and the whole a FIFO line? | holds, 0.3 M states |
| `upload_flush` | two flushers, a telemetry and two status messages through the ISR, queue of 2, fairness | does a flush mean something, return, and is every queued message resolved, behind a failed one too? | holds, 0.2 M states |
| `telemetry_owner` | one struct, two values, one inline metric of two, queue of 1, ISR path | leaks, sharing, changes of queued items | holds, 0.1 M states |
| `telemetry_copy_fails` | the same with one value | is the caller's struct intact after a failed enqueue? | violated |
| `outbox_two` | two workers, two dispatchers, one row, one fault, limits 1 and 2 | what survives dispatchers that overlap: delivered is received, attempts are logged; how far can stale counts go past the limit or re-open a row? | holds, 0.8 M states |
| `outbox_single` | one worker, one dispatcher, two rows in a batch, one fault, fairness | does every row settle, also behind the one that ended a batch? | holds, 0.1 M states |
| `ingest_pipeline` | one client, a two-metric event and a signal frame, two requests, one restart, fairness | published whole, points have raw events, idempotent redelivery, last writer wins, accepted is stored | holds, 0.3 M states |
| `ingest_duplicate` | the same without a restart | one point per event and metric | violated |
| `device_config` | PSK boot configuration with an LED, update to PEAP with an SSID of full length, GATT writes good and bad, seven answers of a time server; any two of faults, updates, syncs, writes and resets (one fault, sync and reset at most); fairness | does the device find back to its network, show it, hold the running configuration, stay reachable over BLE? | holds, 0.2 M states |
| `provisioning_in_place` | the same | does only `apply` change the running configuration? | violated |
| `message_encode` | the real limits of texts, frames of 2 400 bytes, encode buffer of 2 912, two metrics of which one is inline, four contexts | does a message arrive as it was asked for, within the buffer, and is it accepted? | holds, 0.05 M states |
| `control_store` | both backends, three processes (one for SQLite), starts with two seeds in either order or none, two requests for one hardware id and one for that of a seed, two attempts, one failing statement or stop, fairness | committed answers, tokens that somebody knows, stable ids, allowlist; does every request end? | holds, 0.2 M states |

Why the bounds are enough to be interesting: with two signal frames and a queue
of two, a producer can fill the slot that a failed message left, which is the
only way to the final drop; with a queue of one the drop hands its number on.
In `upload_flush` three messages and a queue of two are a message that waits behind a
failed one and a requeue that finds the queue full; `FlushOrQueue` keeps flushes that
overlap and messages that wait apart, which only bounds the run: overlapping flushes
are checked with one message, waiting messages without a flush.
One inline metric of two makes the second append allocate the heap table. Two
requests are an attempt and its retry, or two events under one number, and two
metrics make a failure fall between two records of a kind. One fault is a
failure at any one statement; two dispatchers and one row are what stale counts
need, and two limits let one be lowered while a delivery is under way. Two rows in
one batch leave one behind when the other's record fails. In `device_config` two budgeted events (`Total`) are an update that
overlaps another, one that fails, an apply and a write after it, or a reset in a
session. `SessionOrUpdate` keeps what would only multiply the states apart: updates
begin before the BLE service is started or in a session whose timer has not fired,
and sessions begin and end while no update is under way. The driver's own events are not budgeted, and it adds one unasked only
while fewer than `MaxEvents` = 1 wait, which still lets a disconnect event of an
update queue up behind it. In `message_encode` the buffer is the smallest that
the static assertion of `aetus.c` admits, `SizeMax` is scaled to 16 bits so that a
product can wrap, the texts have the lengths where a limit bites, and the numbers
are those at the edges of a varint byte, of the 32-bit halves and of the sign.
In `control_store` two requests of one hardware id and a seed whose id is the first
that would be drawn are what the locks, the unique constraints and the seeds can
disagree about, and two seeds in both orders what two starts deadlock on while a
third process serves requests. Its module bounds the sum of requests and starts
(`Room`) and failures to the first (`Healthy`), and starts processes in order
(`InOrder`). With two attempts instead of the code's three, a seed and a rival
are enough to use them up, so that the constraint error is raised too.
Symmetry is used where nothing tells the members of a set apart and no liveness is
checked; the temporal properties of these runs are safety properties:
`ImplementsFifoUplink`, over variables that the symmetric sets do not occur in, and
`SettledIsFinal`, which quantifies over them.

The three violations are recorded as findings with the lines they quote:

* **A failed enqueue frees the caller's blobs** (`telemetry_copy_fails`).
* **A GATT write changes the running configuration** (`provisioning_in_place`):
  after the first `apply` the running texts are the pending buffers.
* **A retried event is stored twice** (`ingest_duplicate`): the key of a point
  contains the `request_id` of the attempt.

Six more facts that the models state as they are, without a run of their own:

* A number is given to two events: `sequence` moves only after a 2xx. When the
  requeue finds the queue full the message is dropped, and the next one is posted
  under its number although the server may have stored the first
  (`docs/06-2-standard-embedded-upload-stack.md:273` says that the server can tell
  a retransmission by it). `KeySharedOnlyAfterDrop` and `AckedRowKept`, both
  proved, say how far this goes: only ever with dropped messages.
* A restart undoes a re-issue: `SeedDevices` writes the seeds over existing rows at
  every start (`docs/02-api.md:93` names only provisioning and manual re-issue).
* A text of full length loses its last byte on its way to the driver
  (`DriverHasRunningConfig`).
* A row of the outbox can be attempted more often than `max_attempts`, which
  `docs/11-anomaly-detection-service.md:611` rules out, when dispatchers overlap or the
  limit is lowered; `MaxAttemptsDeadLetters` says by how much.
* An update that reads the connected bit before `GOT_IP` and writes the pin after it,
  while `wifi_start()` has not set `wifi_started`, leaves the LED dark on a link that is
  up (`LinkIsShown`).
* A token can be stored that nobody was told, without a process that stops, when the
  `COMMIT` is not answered or the `SELECT` after it fails (`ToldIsStored`).

### Fairness

* `AetusUpload!Fairness`: a ready task runs and a call with a time-out ends
  (FreeRTOS schedules the uploader and the flushers), and the auto-reload timer
  fires. `ServerFairness` is strong fairness of an accepted POST whose answer
  arrives: the service does not refuse or lose every attempt for ever. It matters
  for `QueuedIsResolved` only, which also assumes that the link stays up from some
  point on. Nobody is obliged to enqueue, to flush, or to connect.
* `AnomalyOutbox!LiveSpec`: the dispatcher process is running and time passes.
  Nothing is assumed of the target: a POST may always fail. Faults are bounded by
  `MaxFaults`, which says that the process does not fail for ever.
* `IngestPipeline!LiveSpec`: the sink tasks run. Clients, the API and the producer
  may stop anywhere.
* `Provisioning!Fairness`: tasks run, calls end, an attempt to connect is decided,
  and strong fairness of `LinkUp`: an access point that is tried again and again
  accepts in the end. One-shot callouts and GAP events are served from the host's
  queue. An update goes on from each of its steps to the next. Clients, the
  application, faults and the loss of a link are free.
* `ControlStore!FairSpec`: a request that arrived, and a start, is carried on with while
  its process runs; a lock is granted when it is free, and PostgreSQL's deadlock
  detection ends one of a circle of starts (`deadlock_timeout`). Requests are finite,
  so that no queue is needed. New starts, failing statements and stops are free.

`CHECK_DEADLOCK FALSE` is set where a run ends because its bounded number of
requests, messages or budgeted events is used up (`ingest_*`, `telemetry_*`,
`message_encode`, `device_config`, `provisioning_in_place`, `control_store`).

### What the properties except

* `OfflineIsExplained` and `Reconnects` except a station that the driver refused:
  `esp_wifi_connect()` failed, or the configuration could not be applied, after
  which nothing in the code tries again. That is the extent of the hazard at the
  early return of `aetus_update_config()`.
* `LinkIsShown` excepts the LED, never the bit, when it was last set from a bit that had
  changed since (`outdated`): an event came between the two statements of
  `configure_connected_led()` and the update returned because `wifi_started` was not
  set. Every later event or update sets the LED right.
* `SettledIsFinal` and `MaxAttemptsDeadLetters` except the updates of a dispatcher that
  was overtaken, and the second measures the limit by the largest that the endpoint has
  had. Nothing in the code keeps a second dispatcher away; with one
  (`OneDispatcherTheorem`) the first exception is empty.
* `DriverHasRunningConfig` excepts updates that failed, that came between
  `esp_wifi_start()` and the assignment of `wifi_started`, and writes in place; and
  an SSID of 32 or a password of 64 bytes, whose last byte `copy_string()` replaces
  by a terminator although the checks admit it.
* `ServerTakesIt` is an equivalence: a device id of more than 31 bytes or a bearer
  token of more than 120 is never accepted, although `aetus_start()` admits 63 and
  127.
* `DroppedOnlyBy` names the two ways in which an accepted telemetry message cannot
  be encoded: a bytes metric without bytes, and blobs that exceed the buffer.
* `ToldIsStored` excepts a request that was lost with its process between `COMMIT` and
  the answer, or that ended with an error in or after the `COMMIT` (`unsure`); one that
  failed before it leaves no token. It says that the current token was told to one of the requests of a device, not
  that it was told to the last one: two requests that overlap, such as one that a
  device gave up on and its retry, are ordered by nothing.

## 4. Proofs

All theorems are for arbitrary constants, under the named assumptions of the
modules. `UploadAssumption`, `PipelineAssumption` and `OutboxAssumption` say no more
than that sizes are numbers and that the special values are not ordinary ones.
`ControlStoreAssumption` types the constants and says that the environment lists
finitely many seeds and that a token of `secrets.token_urlsafe()` is not one of
theirs. `WifiLifecycleAssumption`, `TimeSyncAssumption`, `DeviceConfigAssumption` and
`ProvisioningAssumption` type the configurations, writes and answers and ask for
room for one event. `OwnershipAssumption` says that a struct has an inline table and can
outgrow it, and that no block has the address `NULL`. The bounds of the instances (`Limit`, `Total`, `MaxEvents`,
`MaxStarts`, `MaxFaults`) are arbitrary numbers in every theorem.

**AetusUploadProofs.** `TypeCorrect` is inductive as it stands. `KeyTheorem` and
`RowTheorem` need `KeyInv`: everything ever sent under a number is dropped, or is
the message that got the acknowledgement for it (older numbers), or is the
message at the front (the current one); the number of acknowledgements is the
current sequence; and a row holds something the server accepted under its number.
The properties alone are not inductive, because they do not say which message a
late request of the current number can belong to. One lemma per group of steps
(`KeyProduce`, `KeyPostOk`, `KeyRequeue`, ...) rests on `KeyFrame`, which covers the
steps that leave fates and requests alone.

**UploadLineProofs.** Four results on the same runtime:

* `FlushTheorem` from `FlushInv`: once the first call of a pair has its wake-up
  (`Woken`), no drain runs that began before it, and a second call that has its
  wake-up has a whole drain behind it. The property alone does not say what a set
  `DONE` bit means for a task that has not waited yet.
* `LineInvariant`: a message in the hands of a producer is nowhere else and has no
  fate yet, the uploader's item is not in the queue, and the queue repeats none
  (`LineInv`). With it `BlocksTheorem` follows: a block is on the heap exactly while its
  message is in a place that will release it.
* `UplinkRefinement`, the refinement of `FifoUplink`: `LineInv` makes the mapping
  of initial states and steps go through; every step of the runtime is a step of the line or
  changes nothing that it maps to.
* `StatisticsTheorem`: `PoolStatisticsExact`, in two halves. `PoolTheorem`, from
  `PoolInv`, has the counter of blocks and the four reasons of release, up to the
  critical sections still to come; the proof needs that only finitely many calls are
  under way, which is part of the invariant. `BytesTheorem` has the counter of bytes,
  which is a sum over the blocks noted. `AdditiveExists` and `AdditiveUnique` show that
  there is one function on finite sets that adds up the sizes, by an induction
  (`FiniteInduction`) that takes a family of sets where the library's takes a
  predicate; `BytesByAdditive` identifies it with the fold of the model. `Accounted` then
  says of each step that it leaves the noted blocks and the counter alone, enters a
  block with its size or strikes one with its size.

**TelemetryOwnershipProofs.** `OwnershipInvariant`, for any structs, values, sizes of
the tables and depth of the queue:

* A *holder* is a struct, a hand, a place of the queue or the uploader, and the
  invariant (`Good`) is about the function from holders to the structs they keep. While
  nothing dangles, `Own` holds: tables are tables (`AllSound`), every block is pointed at (`Covered`), and two
  pointers to one block are both table pointers, of which one holder uses no slot of the
  table (`Exclusive`, `Shared`). That exception is real: a failed
  `aetus_telemetry_add_string()` leaves a table in a struct that still fits inline, and
  the ISR path copies the pointer. Always, every item says what was enqueued.
* About the heap: `AddressIsNew` and `AddressesDiffer` (what the n-th allocation returns
  is free), `Frame` (a struct whose blocks are untouched reads the same), and what
  allocating, releasing, copying, sharing and moving do to `Own` (`ExtendOwn`,
  `ReleaseOwn`, `CopyOwn`, `ShareOwn`, `MoveOwn`). One lemma per action puts them together.
* `OneOwnerTheorem` and `SnapshotTheorem` follow. The second holds even after a failed copy
  has freed blobs of its source, because what it frees belongs to a struct and never to
  an item (`CopyFailsBreaks`).
* `IntactTheorem` says when nothing ever dangles: the allocations of a deep copy do not
  fail, and those of a new blob do not where the ISR path is compiled in (`Survivable`).
  The invariant gains `Tight`, with an ISR path no struct that fits inline has a table. The
  theorem delimits the finding of `telemetry_copy_fails`: failing allocations are
  the only way to it.

**SignalFrameCheck.** `ValidFrameIsWhole`: a frame that passes the check has exactly the
bytes it claims, for any counts and any width of `size_t` that holds
`AETUS_SIGNAL_SAMPLES_MAX`. It is the arithmetic of `FrameIsWhole`, which
`message_encode` checks on whole messages.

**IngestPipelineProofs.** Two facts about steps come first: `Grows` (requests and
records are only added, a request keeps its event and its key, and what is new in
a topic was next in line or in the buffer) and `Counts` (a count goes up with the
record that was published, and only a full count is accepted). From them
`PipelineTypeCorrect`, and three inductive invariants:

* `PublishInv`: the first `sent` records of a request are in their topics and none
  later than the next has left the publisher. It gives `PublishTheorem`.
* `PointInv`: a point is the row its record makes. It gives `RedeliveryTheorem`.
* `RawInv`: each raw row is a record of the topic that nothing the sink has
  written since replaces; after a restart the record may lie ahead of the sink. It
  gives `RawTheorem`, and with the other two `PointsTheorem`: a record of a point has
  number 2 or more, so the raw record was sent before it.

**AnomalyOutboxProofs.** `OutboxTypeCorrect`; `DeliveredTheorem` for any number of
dispatchers, with `SuccessWasReceived`, the fact that a dispatcher carries from its
POST to its UPDATE. `FinalTheorem` and `MaxAttemptsTheorem` are for any number of
dispatchers and any change of `max_attempts`. The first needs `BehindInv`: the count
that a dispatcher has read is at most that of the row, and less if the row has been
settled since. The second needs `LimitInv`, which adds that what was read was
within the largest limit, and counts per row: an update that is not overtaken closes the row
at the limit, and one that is adds its own attempt and at most one more by the row it
re-opens. `OneDispatcherTheorem` says when the exceptions are empty, with `HeldInv`:
what the only dispatcher has read is still what the row says. `AnnouncedTheorem` rests on
`PassInv` (the rows that a worker has behind it in its pass are there, and its event
is stored), and `LoggedTheorem` on `LoggedInv`: the entries of the log cover the
count of a row and one attempt for each dispatcher that is about to count one, and
only finitely many are.

**ControlStoreProofs.** `StoreInvariant` for both backends, any processes, requests,
seeds and restarts. Its parts: `LockInv`, at most one request holds the write lock of
SQLite or the row of a hardware id in PostgreSQL; `RequestInv`, what a transaction
knows (`Knows`) of the committed row at each statement, which is what the locks
keep true between two of them; `SeedInv`, the same for the seeds that a start has
written and not committed, against requests and other starts; `LogInv`, the tokens committed and remembered; and
`StoreInv`, answers and rows agree and a device id has one owner. `NextIdIsNew` shows
that the id which `_next_device_id()` draws is in no committed row, for which the table has
to be finite (`FiniteHasMax`). It gives `IdentityTheorem`, `ToldTheorem` and the action
property `TablesTheorem`.

**ProvisioningProofs.** One inductive invariant, `DeviceInvariant`, in seven parts:

* `TypeOK` with `EventBound`: only a call of `aetus_update_config()` that is about to
  disconnect adds an event to a full queue, so the events waiting exceed the
  bound by at most one for each call ever made (`TypesTheorem`).
* `StationInv`: what cannot run yet. No event comes before the driver, and the
  station's start is the first.
* `ShownInv`: the last event that waits, or else the bit, is the state of the link,
  unless an update has cleared the bit and not yet disconnected (`BitShown`); and the LED
  is the bit unless somebody is left to set it, or `outdated` (`LedShown`). That is why
  `LinkIsShown` survives a disconnection event of the old link that is handled after an
  update, and two updates that overlap (`ShownTheorem`).
* `RetryInv`: somebody is left to connect a station at rest (the handler, an event
  or an update), and `wifi_reconfiguring` is set only while some update is before its
  `esp_wifi_connect()` (`OfflineTheorem`).
* `AppliedInv`: what the driver lacks of the running configuration, an update has
  yet to apply, or the history names the reason (`DriverTheorem`).
* `ProvisioningReachable`, inductive as it stands (`ReachableTheorem`).

`CoreCases` divides the steps into those that touch the runtime and the driver and
all the others, so that the three station lemmas have one case for the BLE service.
`ClockTheorem` is the action property `RtcFromWholeAnswer`: `ParseFacts` shows that what
`parse_unix_time_ns()` returns stands in the body, and `WholeFits` that the buffer, which is
filled piece by piece, has not overflowed exactly when the sum of the pieces is
below its capacity. Both are folds over the pieces; `FoldExists` and `UnfoldFolds` turn them
into functions of the number of pieces.

What the proofs changed in the models: `TypeOK` of `Provisioning` had a bound on the
events that held only for two updates; it is now stated for any number. A boot
configuration with an identity that is too long reached a buffer uncut, because
the copy was modelled as the identity function; no instance had such a text, and
`device_config` now has one. `ControlStoreAssumption` did not say that seeds are
finitely many, without which an id that is new need not exist. In `TelemetryOwnership`
the absence of an item was a value that an item might have been equal to; it is now
the empty sequence, and `OwnershipAssumption` says that no block has the address
`NULL`. `SignalFrameCheck` was split off `AetusEncode` so that it can be proved about.

Checked by TLC only:

* the liveness properties, which TLAPS 1.4.5 does not prove under fairness:
  `FlushReturns`, `QueuedIsResolved`, `OpenRowSettles`, `AcceptedIsStored`, `SessionEnds`,
  `Reconnects`, `EveryRequestEnds`;
* the properties of `MessageBuilder` (`ArrivesAsAsked`, `StaysInBuffer`, `DroppedOnlyBy`,
  `ServerTakesIt`, and `FrameIsWhole` beyond the arithmetic of its check): the encoder is
  recursive over the descriptors and the bytes, which keeps `NanopbEncode`, `AetusEncode`
  and `MessageBuilder` out of the prover's reach.

## 5. Not modelled

* In the firmware: GATT reads and the callbacks to the application, which change
  nothing of the stack; newline trimming of GATT texts; TLS and the HTTP client
  beyond its result; the arithmetic of SHA-256.
* In nanopb: packed arrays, pointer fields, extensions, proto2 rules, UTF-8 checks
  and the decoder, none of which the firmware uses.
* In the ingest API: listing and searching devices, metrics, status and HTML pages,
  which only report; the refusals of an ingest request, which are one action; two
  processes that create the tables of an empty PostgreSQL at the same time; backups,
  rate limits and admin sessions, which are small sequential parts planned for
  later (below).
* In the anomaly service: reading windows and the detectors, whose result is a
  free choice; the statistical detectors and the FFT are floating point.
* The query API, apart from a possible later module: it only reads.
* The panels, the Helm chart, examples and test applications.
* Retention and compression in TimescaleDB, which act after a week or a year.

## 6. Plan

In this order:

1. An abstract specification of the control store, a map from hardware ids to devices
   and tokens that issuing changes in one step, and its refinement, on `StoreInvariant`.
2. `Detectors`: the integer detectors as operators against reference definitions.
3. The rest of the ingest API: token buckets that are evicted and made anew and
   their Retry-After, admin sessions with both logins and the cookie, backups that
   stop half-way.
