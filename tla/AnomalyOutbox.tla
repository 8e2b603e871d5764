----------------------------- MODULE AnomalyOutbox -----------------------------
(***************************************************************************)
(* The webhook outbox of the anomaly service: workers that announce an     *)
(* event by inserting one outbox row per enabled endpoint                  *)
(* (worker.rs, repository.rs), dispatchers that post the rows that are due *)
(* and record the outcome (dispatcher.rs, repository.rs), and the admin    *)
(* API that changes endpoints.  Every SQL statement commits on its own, so *)
(* every statement is a step, and a process can fail between any two.      *)
(***************************************************************************)
EXTENDS Naturals, FiniteSets

CONSTANTS
    Workers,        \* `aetus-anomaly worker' processes
    Dispatchers,    \* `aetus-anomaly dispatcher' processes
    Events,         \* unique keys of anomaly_events (job, device, stream, start)
    Endpoints,      \* webhook_endpoints
    MaxChoices,     \* values an administrator gives max_attempts
    Limit,          \* the limit of claim_pending_deliveries
    MaxFaults,      \* bound: failures of a process or of a statement
    NoEvent, NoRow

ASSUME OutboxAssumption ==
    /\ MaxChoices \subseteq Nat \ {0} /\ MaxChoices # {}
    /\ Limit \in Nat \ {0} /\ MaxFaults \in Nat
    /\ NoEvent \notin Events /\ NoRow \notin Events \X Endpoints

VARIABLES
    events,         \* anomaly_events
    outbox,         \* webhook_outbox: status, attempt_count, seconds until due
    endpoint,       \* webhook_endpoints: enabled, max_attempts
    wpc, wevent,    \* where each worker is, and its event
    wrows, wtodo,   \* endpoints it selected, and still has to insert a row for
    dpc,            \* where each dispatcher is
    batch,          \* deliveries it claimed and has not posted yet
    job,            \* the delivery it is working on
    result,         \* whether its POST was answered with 2xx
    faults,         \* failures so far
    (* history variables *)
    logged,         \* rows of webhook_deliveries, per outbox row
    received,       \* outbox rows whose POST the target has accepted
    overtaken,      \* updates of a row from a count that was no longer current
    ceiling,        \* the largest max_attempts an endpoint has had
    announced       \* outbox rows of the passes that ended in anomaly_job_state

workerVars == <<events, wpc, wevent, wrows, wtodo, announced>>
dispatchVars == <<dpc, batch, job, result, logged, received, overtaken, ceiling>>
vars == <<events, outbox, endpoint, wpc, wevent, wrows, wtodo, dpc, batch,
          job, result, faults, logged, received, overtaken, ceiling, announced>>

Rows == Events \X Endpoints
Open == {"pending", "retry"}

\* PendingDelivery: the row, and the counts as they were read.
Deliveries == [row : Rows, attempt_count : Nat, max_attempts : Nat]
NoDelivery == [row |-> NoRow, attempt_count |-> 0, max_attempts |-> 0]

Init ==
    /\ events = {}
    /\ outbox = [r \in Rows |-> [status |-> "none", attempt_count |-> 0, wait |-> 0]]
    /\ endpoint \in [Endpoints -> [enabled : {TRUE}, max_attempts : MaxChoices]]
    /\ wpc = [w \in Workers |-> "idle"] /\ wevent = [w \in Workers |-> NoEvent]
    /\ wrows = [w \in Workers |-> {}] /\ wtodo = [w \in Workers |-> {}]
    /\ dpc = [d \in Dispatchers |-> "idle"] /\ batch = [d \in Dispatchers |-> {}]
    /\ job = [d \in Dispatchers |-> NoDelivery]
    /\ result = [d \in Dispatchers |-> FALSE]
    /\ faults = 0
    /\ logged = [r \in Rows |-> 0] /\ received = {}
    /\ overtaken = [r \in Rows |-> 0]
    /\ ceiling = [e \in Endpoints |-> endpoint[e].max_attempts]
    /\ announced = {}

-------------------------------------------------------------------------------
(* run_detection_once and upsert_detection_event.                          *)

\* A window crossed the threshold: anomaly_scores and anomaly_events are
\* upserted, a known event again when its window is scanned again.
Detect(w, v) ==
    /\ wpc[w] = "idle"
    /\ events' = events \cup {v}
    /\ wpc' = [wpc EXCEPT ![w] = "select"]
    /\ wevent' = [wevent EXCEPT ![w] = v]
    /\ UNCHANGED <<outbox, endpoint, wrows, wtodo, announced, faults, dispatchVars>>

\* enqueue_webhooks selects the enabled endpoints ...
SelectEndpoints(w) ==
    LET es == {e \in Endpoints : endpoint[e].enabled}
    IN  /\ wpc[w] = "select"
        /\ wrows' = [wrows EXCEPT ![w] = es]
        /\ wtodo' = [wtodo EXCEPT ![w] = es]
        /\ wpc' = [wpc EXCEPT ![w] = "insert"]
        /\ UNCHANGED <<events, outbox, endpoint, wevent, announced, faults, dispatchVars>>

\* Mutant of InsertOutbox: ON CONFLICT resets the row.
InsertOutboxOverwrites(w, e) ==
    LET r == <<wevent[w], e>>
    IN  /\ wpc[w] = "insert" /\ e \in wtodo[w]
        /\ outbox' = [outbox EXCEPT ![r] =
                         [status |-> "pending", attempt_count |-> 0, wait |-> 0]]
        /\ wtodo' = [wtodo EXCEPT ![w] = @ \ {e}]
        /\ UNCHANGED <<events, endpoint, wpc, wevent, wrows, announced, faults,
                       dispatchVars>>

\* ... and inserts their rows, ON CONFLICT DO NOTHING.
InsertOutbox(w, e) ==
    LET r == <<wevent[w], e>>
    IN  /\ wpc[w] = "insert" /\ e \in wtodo[w]
        /\ outbox' = IF outbox[r].status = "none"
                     THEN [outbox EXCEPT ![r].status = "pending"]
                     ELSE outbox
        /\ wtodo' = [wtodo EXCEPT ![w] = @ \ {e}]
        /\ UNCHANGED <<events, endpoint, wpc, wevent, wrows, announced, faults,
                       dispatchVars>>

\* Mutant of UpdateJobState: it does not wait for the rows.
UpdateJobStateEarly(w) ==
    /\ wpc[w] = "insert"
    /\ announced' = announced \cup ({wevent[w]} \X wrows[w])
    /\ wpc' = [wpc EXCEPT ![w] = "idle"]
    /\ wevent' = [wevent EXCEPT ![w] = NoEvent]
    /\ wrows' = [wrows EXCEPT ![w] = {}]
    /\ wtodo' = [wtodo EXCEPT ![w] = {}]
    /\ UNCHANGED <<events, outbox, endpoint, faults, dispatchVars>>

\* update_job_state_success ends the pass over the window.  Nothing reads
\* last_window_end, so only that it was written is kept.
UpdateJobState(w) ==
    /\ wpc[w] = "insert" /\ wtodo[w] = {}
    /\ announced' = announced \cup ({wevent[w]} \X wrows[w])
    /\ wpc' = [wpc EXCEPT ![w] = "idle"]
    /\ wevent' = [wevent EXCEPT ![w] = NoEvent]
    /\ wrows' = [wrows EXCEPT ![w] = {}]
    /\ UNCHANGED <<events, outbox, endpoint, wtodo, faults, dispatchVars>>

\* A statement fails, which ends the cycle, or the process stops and restarts.
WorkerFails(w) ==
    /\ wpc[w] # "idle" /\ faults < MaxFaults
    /\ faults' = faults + 1
    /\ wpc' = [wpc EXCEPT ![w] = "idle"]
    /\ wevent' = [wevent EXCEPT ![w] = NoEvent]
    /\ wrows' = [wrows EXCEPT ![w] = {}]
    /\ wtodo' = [wtodo EXCEPT ![w] = {}]
    /\ UNCHANGED <<events, outbox, endpoint, announced, dispatchVars>>

-------------------------------------------------------------------------------
(* dispatch_once.                                                          *)

\* Mutant of Due: the query forgets the rows that wait for a retry.
DuePendingOnly == {r \in Rows : /\ outbox[r].status = "pending"
                                /\ outbox[r].wait = 0
                                /\ endpoint[r[2]].enabled}

\* The rows the query of claim_pending_deliveries selects.
Due == {r \in Rows : /\ outbox[r].status \in Open
                     /\ outbox[r].wait = 0
                     /\ endpoint[r[2]].enabled}

Read(r) == [row |-> r, attempt_count |-> outbox[r].attempt_count,
            max_attempts |-> endpoint[r[2]].max_attempts]

\* claim_pending_deliveries: the rows that are due, at most Limit of them, are
\* read; nothing marks them as taken.
Claim(d) ==
    /\ dpc[d] = "idle" /\ Due # {}
    /\ \E c \in SUBSET Due :
          /\ Cardinality(c) = IF Cardinality(Due) < Limit THEN Cardinality(Due) ELSE Limit
          /\ batch' = [batch EXCEPT ![d] = {Read(r) : r \in c}]
    /\ dpc' = [dpc EXCEPT ![d] = "next"]
    /\ UNCHANGED <<outbox, endpoint, workerVars, job, result, faults, logged, received, overtaken,
                   ceiling>>

\* The loop of dispatch_once ends; run_dispatcher_loop sleeps.
BatchDone(d) ==
    /\ dpc[d] = "next" /\ batch[d] = {}
    /\ dpc' = [dpc EXCEPT ![d] = "idle"]
    /\ UNCHANGED <<outbox, endpoint, workerVars, batch, job, result, faults, logged, received, overtaken,
                   ceiling>>

\* Mutant of Post: whatever answer arrives counts as a success.
PostIgnoresStatus(d, p) ==
    /\ dpc[d] = "next" /\ p \in batch[d]
    /\ batch' = [batch EXCEPT ![d] = @ \ {p}]
    /\ job' = [job EXCEPT ![d] = p]
    /\ dpc' = [dpc EXCEPT ![d] = "log"]
    /\ \E accepts, answered \in BOOLEAN :
          /\ received' = IF accepts THEN received \cup {p.row} ELSE received
          /\ result' = [result EXCEPT ![d] = answered]
    /\ UNCHANGED <<outbox, endpoint, workerVars, faults, logged, overtaken,
                   ceiling>>

\* Mutant of Post: the delivery is not handed on to the statements that record it.
PostLosesDelivery(d, p) ==
    /\ dpc[d] = "next" /\ p \in batch[d]
    /\ batch' = [batch EXCEPT ![d] = @ \ {p}]
    /\ dpc' = [dpc EXCEPT ![d] = "log"]
    /\ \E accepts, answered \in BOOLEAN :
          /\ received' = IF accepts THEN received \cup {p.row} ELSE received
          /\ result' = [result EXCEPT ![d] = accepts /\ answered]
    /\ UNCHANGED <<outbox, endpoint, workerVars, job, faults, logged, overtaken,
                   ceiling>>

\* send_delivery posts one delivery.  The target accepts it or not; an answer
\* may fail to arrive before the timeout.
Post(d, p) ==
    /\ dpc[d] = "next" /\ p \in batch[d]
    /\ batch' = [batch EXCEPT ![d] = @ \ {p}]
    /\ job' = [job EXCEPT ![d] = p]
    /\ dpc' = [dpc EXCEPT ![d] = "log"]
    /\ \E accepts, answered \in BOOLEAN :
          /\ received' = IF accepts THEN received \cup {p.row} ELSE received
          /\ result' = [result EXCEPT ![d] = accepts /\ answered]
    /\ UNCHANGED <<outbox, endpoint, workerVars, faults, logged, overtaken,
                   ceiling>>

\* Mutant of InsertDelivery: the log entry is left out.
InsertDeliverySkipped(d) ==
    /\ dpc[d] = "log"
    /\ dpc' = [dpc EXCEPT ![d] = "update"]
    /\ UNCHANGED <<outbox, endpoint, workerVars, batch, job, result, faults, received, logged, overtaken,
                   ceiling>>

\* insert_delivery
InsertDelivery(d) ==
    /\ dpc[d] = "log"
    /\ logged' = [logged EXCEPT ![job[d].row] = @ + 1]
    /\ dpc' = [dpc EXCEPT ![d] = "update"]
    /\ UNCHANGED <<outbox, endpoint, workerVars, batch, job, result, faults, received, overtaken,
                   ceiling>>

\* next_backoff_seconds: 2^n with n clamped to 0..8, which the cap of 300 never
\* changes.
Backoff(n) == <<1, 2, 4, 8, 16, 32, 64, 128, 256>>[1 + IF n > 8 THEN 8 ELSE n]

\* The delivery d records was read with a count that is no longer the row's: a
\* dispatcher that took the same row has recorded an outcome since.
Overtaken(d) == job[d].attempt_count < outbox[job[d].row].attempt_count

NoteOvertaken(d) ==
    overtaken' = IF Overtaken(d) THEN [overtaken EXCEPT ![job[d].row] = @ + 1] ELSE overtaken

\* record_delivery_success, after the insert.
UpdateDelivered(d) ==
    /\ dpc[d] = "update" /\ result[d]
    /\ outbox' = [outbox EXCEPT ![job[d].row].status = "delivered",
                                ![job[d].row].attempt_count = @ + 1]
    /\ dpc' = [dpc EXCEPT ![d] = "next"]
    /\ job' = [job EXCEPT ![d] = NoDelivery]
    /\ NoteOvertaken(d)
    /\ UNCHANGED <<endpoint, workerVars, batch, result, faults, logged, received, ceiling>>

\* Mutant of NextStatus: one attempt too many.
NextStatusLate(p) == IF p.attempt_count >= p.max_attempts THEN "dead_letter" ELSE "retry"

\* The status record_delivery_failure chooses, from the counts as they were read.
NextStatus(p) == IF p.attempt_count + 1 >= p.max_attempts THEN "dead_letter" ELSE "retry"

\* record_delivery_failure, after the insert.
UpdateFailed(d) ==
    /\ dpc[d] = "update" /\ ~result[d]
    /\ outbox' = [outbox EXCEPT ![job[d].row].status = NextStatus(job[d]),
                                ![job[d].row].attempt_count = @ + 1,
                                ![job[d].row].wait = Backoff(job[d].attempt_count)]
    /\ dpc' = [dpc EXCEPT ![d] = "next"]
    /\ job' = [job EXCEPT ![d] = NoDelivery]
    /\ NoteOvertaken(d)
    /\ UNCHANGED <<endpoint, workerVars, batch, result, faults, logged, received, ceiling>>

\* A statement fails, which ends the cycle, or the process stops and restarts:
\* the rest of the batch is forgotten.
DispatcherFails(d) ==
    /\ dpc[d] # "idle" /\ faults < MaxFaults
    /\ faults' = faults + 1
    /\ dpc' = [dpc EXCEPT ![d] = "idle"]
    /\ batch' = [batch EXCEPT ![d] = {}]
    /\ job' = [job EXCEPT ![d] = NoDelivery]
    /\ UNCHANGED <<outbox, endpoint, workerVars, result, logged, received, overtaken,
                   ceiling>>

-------------------------------------------------------------------------------

\* create_webhook_endpoint on an existing key.
UpsertEndpoint(e, enabled, max) ==
    /\ endpoint' = [endpoint EXCEPT ![e] = [enabled |-> enabled, max_attempts |-> max]]
    /\ endpoint' # endpoint
    /\ ceiling' = [ceiling EXCEPT ![e] = IF max > @ THEN max ELSE @]
    /\ UNCHANGED <<outbox, workerVars, faults, dpc, batch, job, result, logged, received,
                   overtaken>>

\* A second passes.
Tick ==
    /\ \E r \in Rows : outbox[r].wait > 0
    /\ outbox' = [r \in Rows |-> [outbox[r] EXCEPT !.wait = IF @ > 0 THEN @ - 1 ELSE 0]]
    /\ UNCHANGED <<endpoint, workerVars, faults, dispatchVars>>

Work(w) ==
    \/ \E v \in Events : Detect(w, v)
    \/ SelectEndpoints(w) \/ UpdateJobState(w)
    \/ \E e \in Endpoints : InsertOutbox(w, e)

Dispatch(d) ==
    \/ Claim(d) \/ BatchDone(d) \/ InsertDelivery(d) \/ UpdateDelivered(d) \/ UpdateFailed(d)
    \/ \E p \in batch[d] : Post(d, p)

Next ==
    \/ \E w \in Workers : Work(w) \/ WorkerFails(w)
    \/ \E d \in Dispatchers : Dispatch(d) \/ DispatcherFails(d)
    \/ \E e \in Endpoints, b \in BOOLEAN, n \in MaxChoices : UpsertEndpoint(e, b, n)
    \/ Tick

Spec == Init /\ [][Next]_vars

\* The dispatcher process runs and time passes; nothing is assumed of the target.
LiveSpec ==
    /\ Spec
    /\ \A d \in Dispatchers : WF_vars(Dispatch(d))
    /\ WF_vars(Tick)

-------------------------------------------------------------------------------
(* Properties.                                                             *)

\* Every variable has a value of the type the code gives it.
TypeOK ==
    /\ events \subseteq Events
    /\ outbox \in [Rows -> [status : Open \cup {"none", "delivered", "dead_letter"},
                            attempt_count : Nat, wait : Nat]]
    /\ endpoint \in [Endpoints -> [enabled : BOOLEAN, max_attempts : Nat]]
    /\ wpc \in [Workers -> {"idle", "select", "insert"}]
    /\ wevent \in [Workers -> Events \cup {NoEvent}]
    /\ \A w \in Workers : wpc[w] # "idle" => wevent[w] \in Events
    /\ wrows \in [Workers -> SUBSET Endpoints] /\ wtodo \in [Workers -> SUBSET Endpoints]
    /\ dpc \in [Dispatchers -> {"idle", "next", "log", "update"}]
    /\ batch \in [Dispatchers -> SUBSET Deliveries]
    /\ job \in [Dispatchers -> Deliveries \cup {NoDelivery}]
    /\ \A d \in Dispatchers : dpc[d] \in {"log", "update"} => job[d] \in Deliveries
    /\ result \in [Dispatchers -> BOOLEAN]
    /\ faults \in Nat
    /\ logged \in [Rows -> Nat] /\ received \subseteq Rows
    /\ overtaken \in [Rows -> Nat] /\ ceiling \in [Endpoints -> Nat]
    /\ announced \subseteq Rows

\* A row is marked delivered only if its target has accepted the POST, however
\* dispatchers overlap, fail and restart.
DeliveredWasReceived ==
    \A r \in Rows : outbox[r].status = "delivered" => r \in received

\* Every attempt that an outbox row counts has its entry in webhook_deliveries:
\* the log may be ahead of attempt_count after a failure, never behind it.
AttemptsAreLogged ==
    \A r \in Rows :
        outbox[r].attempt_count
          + Cardinality({d \in Dispatchers : dpc[d] = "update" /\ job[d].row = r}) <= logged[r]

\* When a window end is written to anomaly_job_state, each endpoint that
\* enqueue_webhooks had selected for the event has an outbox row, and keeps it,
\* whatever two workers that scan the same window and their failures do.
RecordedWasAnnounced == \A r \in announced : r[1] \in events /\ outbox[r].status # "none"

\* A row that was delivered or given up stays so, whatever workers detect again
\* and wherever processes fail, but for one case: record_delivery_success and
\* record_delivery_failure update the row unconditionally, so a dispatcher that
\* was overtaken writes its own outcome over that of the other.
SettledIsFinal ==
    [][\A r \in Rows :
          outbox[r].status \in {"delivered", "dead_letter"} =>
              \/ outbox'[r].status = outbox[r].status
              \/ \E d \in Dispatchers : dpc[d] = "update" /\ job[d].row = r /\ Overtaken(d)]_vars

\* How far the code keeps docs/11-anomaly-detection-service.md:611, max attempts
\* exceeded means dead_letter.  record_delivery_failure compares a count and a
\* limit that were read before the POST.  So the limit that holds is the largest
\* the endpoint has had, and an overtaken dispatcher can re-open a row that was
\* given up: each such outcome costs the attempt itself and one to close the row
\* again.  Without one an open row has attempts left and no row exceeds the limit.
MaxAttemptsDeadLetters ==
    \A r \in Rows :
        LET most == ceiling[r[2]] + 2 * overtaken[r]
        IN  /\ outbox[r].attempt_count <= most
            /\ outbox[r].status \in Open => outbox[r].attempt_count < most

\* An open row is in the end delivered or given up, unless its endpoint is
\* disabled: failures and back-off never leave it behind.
OpenRowSettles ==
    \A r \in Rows :
        outbox[r].status \in Open ~>
            outbox[r].status \in {"delivered", "dead_letter"} \/ ~endpoint[r[2]].enabled
===============================================================================
