---------------------------- MODULE IngestPipeline ----------------------------
(***************************************************************************)
(* The way of an event from a client library to the tables: the client     *)
(* (clients/python-ingest, clients/rust-ingest) posts it, the ingest API   *)
(* (app.py, normalize.py) checks it, gives it a fresh request_id and       *)
(* publishes its records one after the other (publisher.py), and three     *)
(* Kafka Connect sinks upsert the records into PostgreSQL, where triggers  *)
(* turn staging rows into points and frames (00-base.sql).                 *)
(*                                                                         *)
(* A request is known by its number, which stands for its request_id and   *)
(* its received_at.  The i-th record of a request is <<request, i>>: the   *)
(* raw event comes first, then the metrics or the signal frame.  The       *)
(* tables devices, device_boot_sessions and *_definitions only intern      *)
(* names and are left out, and so are the staging rows, which nothing but  *)
(* their trigger reads.                                                    *)
(***************************************************************************)
EXTENDS Naturals, Sequences

CONSTANTS
    Clients,        \* client objects, each with a device_id and a boot_id
    Events,         \* what callers want to upload
    MetricCount,    \* MetricCount[e]: the metrics of e, 0 for a status or an alert
    Frames,         \* events that carry a signal frame
    Timed,          \* events that carry timestamp_ns
    MaxRequests,    \* bound: requests the clients make
    MaxRestarts,    \* bound: restarts of sink tasks
    NoCall          \* the client waits for no answer

ASSUME PipelineAssumption ==
    /\ MetricCount \in [Events -> Nat]
    /\ Frames \subseteq Events /\ Timed \subseteq Events
    /\ MaxRequests \in Nat /\ MaxRestarts \in Nat
    /\ NoCall \notin Nat

Topics == {"raw", "metric", "signal"}

VARIABLES
    sequence,       \* the clients' self.sequence
    call,           \* the request each client waits for
    done,           \* events whose send_event() has returned
    reqs,           \* the requests: who, what, under which sequence, how far
    buffer,         \* records whose send timed out, still in the producer
    log,            \* the topics, one partition each
    position,       \* how many records each sink has written
    committed,      \* the offset each sink starts from after a restart
    raw,            \* raw_device_events: <<client, sequence>> -> request
    points,         \* device_metric_points and device_signal_frames
    restarts        \* restarts so far

clientVars == <<sequence, call, done>>
sinkVars == <<position, committed, raw, points, restarts>>
vars == <<sequence, call, done, reqs, buffer, log, position, committed, raw,
          points, restarts>>

Init ==
    /\ sequence = [c \in Clients |-> 0] /\ call = [c \in Clients |-> NoCall]
    /\ done = {} /\ reqs = <<>> /\ buffer = {}
    /\ log = [t \in Topics |-> <<>>]
    /\ position = [t \in Topics |-> 0] /\ committed = [t \in Topics |-> 0]
    /\ raw = [k \in {} |-> 0] /\ points = {} /\ restarts = 0

-------------------------------------------------------------------------------
(* The records of an event: build_sink_record, build_metric_records,       *)
(* build_signal_frame_records.                                             *)

PartCount(e) == 1 + IF e \in Frames THEN 1 ELSE MetricCount[e]

\* Mutant of TopicOf: the raw event is published last.
TopicOfRawLast(e, i) ==
    IF i = PartCount(e) THEN "raw" ELSE IF e \in Frames THEN "signal" ELSE "metric"

\* The topic of the i-th record of the event e.
TopicOf(e, i) ==
    IF i = 1 THEN "raw" ELSE IF e \in Frames THEN "signal" ELSE "metric"

Topic(x) == TopicOf(reqs[x[1]].event, x[2])

\* Key of a request in raw_device_events.
Key(r) == <<reqs[r].client, reqs[r].sequence>>

-------------------------------------------------------------------------------
(* The client library: send_metrics, send_signal_frame, send_status,       *)
(* send_alert, which build an event with the current sequence, and         *)
(* send_event.                                                             *)

\* A caller uploads an event, for the first time or after a failure; a failed
\* event may also be given up for another one.
SendEvent(c, e) ==
    /\ call[c] = NoCall /\ e \notin done /\ Len(reqs) < MaxRequests
    /\ \A r \in DOMAIN reqs : reqs[r].event = e => reqs[r].client = c
    /\ reqs' = Append(reqs, [client |-> c, event |-> e, sequence |-> sequence[c],
                             pc |-> "check", sent |-> 0])
    /\ call' = [call EXCEPT ![c] = Len(reqs) + 1]
    /\ UNCHANGED <<sequence, done, buffer, log, sinkVars>>

\* The answer was 2xx: the sequence moves on and the call returns.
Succeed(c) ==
    /\ call[c] # NoCall /\ reqs[call[c]].pc = "accepted"
    /\ sequence' = [sequence EXCEPT ![c] = @ + 1]
    /\ done' = done \cup {reqs[call[c]].event}
    /\ call' = [call EXCEPT ![c] = NoCall]
    /\ UNCHANGED <<reqs, buffer, log, sinkVars>>

\* IngestClientError, or no answer within the timeout: the call raises and the
\* sequence stays.  The request goes on if it has reached the server.
Fail(c) ==
    /\ call[c] # NoCall
    /\ call' = [call EXCEPT ![c] = NoCall]
    /\ UNCHANGED <<sequence, done, reqs, buffer, log, sinkVars>>

-------------------------------------------------------------------------------
(* POST /v1/ingest.                                                        *)

Goto(r, pc) == reqs' = [reqs EXCEPT ![r].pc = pc]

\* 415, 403, 429, 413, 401 or 400.
Refuse(r) ==
    /\ reqs[r].pc = "check"
    /\ Goto(r, "refused")
    /\ UNCHANGED <<clientVars, buffer, log, sinkVars>>

\* The request is authenticated and parsed, and normalize_event() makes the
\* event that a thread then publishes.
Admit(r) ==
    /\ reqs[r].pc = "check"
    /\ Goto(r, "publish")
    /\ UNCHANGED <<clientVars, buffer, log, sinkVars>>

\* Mutant of Publish: the loop runs one record too far.
PublishOneMore(r) ==
    LET x == <<r, reqs[r].sent + 1>>
    IN  /\ reqs[r].pc = "publish" /\ reqs[r].sent <= PartCount(reqs[r].event)
        /\ log' = [log EXCEPT ![Topic(x)] = Append(@, x)]
        /\ reqs' = [reqs EXCEPT ![r].sent = @ + 1]
        /\ UNCHANGED <<clientVars, buffer, sinkVars>>

\* producer.send() and future.get(): the next record is in its topic.
Publish(r) ==
    LET x == <<r, reqs[r].sent + 1>>
    IN  /\ reqs[r].pc = "publish" /\ x[2] <= PartCount(reqs[r].event)
        /\ log' = [log EXCEPT ![Topic(x)] = Append(@, x)]
        /\ reqs' = [reqs EXCEPT ![r].sent = @ + 1]
        /\ UNCHANGED <<clientVars, buffer, sinkVars>>

\* Mutant of PublishFails: the failure of one record does not end the loop.
PublishFailsIgnored(r) ==
    LET x == <<r, reqs[r].sent + 1>>
    IN  /\ reqs[r].pc = "publish" /\ x[2] <= PartCount(reqs[r].event)
        /\ buffer' \in {buffer, buffer \cup {x}}
        /\ reqs' = [reqs EXCEPT ![r].sent = @ + 1]
        /\ UNCHANGED <<clientVars, log, sinkVars>>

\* send() or get(timeout=10) raises: 503, and the records that are out stay out.
\* After a timeout the record is still in the producer's buffer.
PublishFails(r) ==
    LET x == <<r, reqs[r].sent + 1>>
    IN  /\ reqs[r].pc = "publish" /\ x[2] <= PartCount(reqs[r].event)
        /\ buffer' \in {buffer, buffer \cup {x}}
        /\ Goto(r, "unavailable")
        /\ UNCHANGED <<clientVars, log, sinkVars>>

\* producer.flush(), which has nothing of this request left to wait for, and 202.
Accept(r) ==
    /\ reqs[r].pc = "publish" /\ reqs[r].sent = PartCount(reqs[r].event)
    /\ Goto(r, "accepted")
    /\ UNCHANGED <<clientVars, buffer, log, sinkVars>>

\* The producer gets a buffered record through after all, or lets it expire.
BufferedSend(x) ==
    /\ x \in buffer
    /\ buffer' = buffer \ {x}
    /\ log' \in {log, [log EXCEPT ![Topic(x)] = Append(@, x)]}
    /\ UNCHANGED <<clientVars, reqs, sinkVars>>

-------------------------------------------------------------------------------
(* The sinks and the triggers.                                             *)

\* Mutant of UpsertRaw: insert.mode is not upsert, a row that exists stays.
InsertRaw(x) ==
    raw' = [k \in DOMAIN raw \cup {Key(x[1])} |->
              IF k \in DOMAIN raw THEN raw[k] ELSE x[1]]

\* raw_device_events, upsert by device_id, boot_id, sequence.
UpsertRaw(x) ==
    raw' = [k \in DOMAIN raw \cup {Key(x[1])} |->
              IF k = Key(x[1]) THEN x[1] ELSE raw[k]]

\* Mutant of EventTime: the time of the delivery.
EventTimeOfDelivery(r) == <<"now", restarts>>

\* event_time: the device's time stamp if there is one, else received_at.
EventTime(r) == IF reqs[r].event \in Timed THEN <<"device", reqs[r].event>> ELSE <<"received", r>>

\* The row that a record becomes.
Row(x) == [time |-> EventTime(x[1]), record |-> x, key |-> Key(x[1])]

\* Mutant of UpsertPoint: the conflict target lacks metric_index.
UpsertPointOfRequest(x) ==
    points' = {p \in points : p.record[1] # x[1]} \cup {Row(x)}

\* metric_ingest_staging by request_id and metric_index, and its trigger's upsert
\* into device_metric_points by event_time, request_id and metric_index.
UpsertPoint(x) ==
    points' = {p \in points : ~(p.time = EventTime(x[1]) /\ p.record = x)} \cup {Row(x)}

\* signal_frame_ingest_staging by request_id, and its trigger's upsert into
\* device_signal_frames by event_time and request_id.
UpsertFrame(x) ==
    points' = {p \in points : ~(p.time = EventTime(x[1]) /\ p.record[1] = x[1])} \cup {Row(x)}

\* A sink task writes the next record of its topic.
Deliver(t) ==
    /\ position[t] < Len(log[t])
    /\ LET x == log[t][position[t] + 1]
       IN  \/ t = "raw" /\ UpsertRaw(x) /\ UNCHANGED points
           \/ t = "metric" /\ UpsertPoint(x) /\ UNCHANGED raw
           \/ t = "signal" /\ UpsertFrame(x) /\ UNCHANGED raw
    /\ position' = [position EXCEPT ![t] = @ + 1]
    /\ UNCHANGED <<clientVars, reqs, buffer, log, committed, restarts>>

CommitOffset(t) ==
    /\ committed[t] # position[t]
    /\ committed' = [committed EXCEPT ![t] = position[t]]
    /\ UNCHANGED <<clientVars, reqs, buffer, log, position, raw, points, restarts>>

\* The task restarts and reads again what it had written but not committed.
Restart(t) ==
    /\ restarts < MaxRestarts /\ committed[t] # position[t]
    /\ restarts' = restarts + 1
    /\ position' = [position EXCEPT ![t] = committed[t]]
    /\ UNCHANGED <<clientVars, reqs, buffer, log, committed, raw, points>>

-------------------------------------------------------------------------------

Client(c) == (\E e \in Events : SendEvent(c, e)) \/ Succeed(c) \/ Fail(c)

Serve(r) == Refuse(r) \/ Admit(r) \/ Publish(r) \/ PublishFails(r) \/ Accept(r)

Sink(t) == Deliver(t) \/ CommitOffset(t) \/ Restart(t)

Next ==
    \/ \E c \in Clients : Client(c)
    \/ \E r \in DOMAIN reqs : Serve(r)
    \/ \E x \in buffer : BufferedSend(x)
    \/ \E t \in Topics : Sink(t)

Spec == Init /\ [][Next]_vars

\* The sinks run; nothing obliges a client, a request or the producer to go on.
LiveSpec == Spec /\ \A t \in Topics : WF_vars(Deliver(t))

-------------------------------------------------------------------------------
(* Properties.                                                             *)

\* The records of a topic.
InTopic(t) == {log[t][i] : i \in DOMAIN log[t]}

RequestType ==
    [client : Clients, event : Events, sequence : Nat,
     pc : {"check", "refused", "publish", "unavailable", "accepted"}, sent : Nat]

\* Every variable has a value of the type the code gives it.
TypeOK ==
    /\ sequence \in [Clients -> Nat]
    /\ call \in [Clients -> Nat \cup {NoCall}]
    /\ \A c \in Clients : call[c] # NoCall => call[c] \in DOMAIN reqs
    /\ done \subseteq Events
    /\ reqs \in Seq(RequestType)
    /\ \A r \in DOMAIN reqs : reqs[r].sent <= PartCount(reqs[r].event)
    /\ \A x \in buffer : x \in (DOMAIN reqs) \X Nat /\ x[2] \in 1..PartCount(reqs[x[1]].event)
    /\ log \in [Topics -> Seq(Nat \X Nat)]
    /\ \A t \in Topics : \A x \in InTopic(t) :
          x[1] \in DOMAIN reqs /\ x[2] \in 1..PartCount(reqs[x[1]].event)
    /\ position \in [Topics -> Nat] /\ committed \in [Topics -> Nat]
    /\ \A t \in Topics : committed[t] <= position[t] /\ position[t] <= Len(log[t])
    /\ \A k \in DOMAIN raw : raw[k] \in DOMAIN reqs
    /\ restarts \in Nat

(* The strengthening that makes the properties below inductive.            *)

\* The records before the sent-th of a request are in their topics, and no later
\* one than the next has ever left the publisher.
PublishInv ==
    /\ \A r \in DOMAIN reqs :
          /\ \A i \in 1..reqs[r].sent : <<r, i>> \in InTopic(TopicOf(reqs[r].event, i))
          /\ reqs[r].pc = "accepted" => reqs[r].sent = PartCount(reqs[r].event)
    /\ \A x \in buffer : x[2] <= reqs[x[1]].sent + 1
    /\ \A t \in Topics : \A x \in InTopic(t) :
          x[2] <= reqs[x[1]].sent + 1 /\ t = Topic(x)

\* A row of the raw table is a record that no record the sink has written since
\* replaces; after a restart it may be one the sink has yet to write again.
RawInv ==
    /\ \A n \in 1..position["raw"] : Key(log["raw"][n][1]) \in DOMAIN raw
    /\ \A k \in DOMAIN raw : \E m \in DOMAIN log["raw"] :
          /\ log["raw"][m][1] = raw[k] /\ Key(raw[k]) = k
          /\ \A n \in m+1..position["raw"] : Key(log["raw"][n][1]) # k

\* A point is what its record says.
PointInv ==
    \A p \in points :
        /\ \E t \in Topics \ {"raw"} : p.record \in InTopic(t)
        /\ p = Row(p.record)

\* What was answered with 202 is in the topics with every record, although the
\* records go out one by one and each send can fail.
AcceptedIsPublished ==
    \A r \in DOMAIN reqs : reqs[r].pc = "accepted" =>
        \A i \in 1..PartCount(reqs[r].event) : <<r, i>> \in InTopic(TopicOf(reqs[r].event, i))

\* There is no point and no frame without a raw event: whatever a request that
\* failed half-way leaves behind, and whatever arrives late, the raw record of
\* the request is in its topic and has its row, or gets it.
PointsHaveRaw ==
    \A p \in points : \E n \in DOMAIN log["raw"] :
        /\ log["raw"][n][1] = p.record[1]
        /\ n <= position["raw"] => p.key \in DOMAIN raw

\* A redelivery after a restart of a sink changes nothing: one record, one row.
RedeliveryIsIdempotent ==
    \A p, q \in points : p.record = q.record => p = q

\* A sink that has caught up shows the last record published under each key,
\* although after a restart it shows older ones for a while.
RawIsLastPublished ==
    position["raw"] = Len(log["raw"]) =>
        \A n \in DOMAIN log["raw"] :
            LET k == Key(log["raw"][n][1])
            IN  /\ k \in DOMAIN raw
                /\ (\A m \in n+1..Len(log["raw"]) : Key(log["raw"][m][1]) # k) =>
                       raw[k] = log["raw"][n][1]

\* Every metric and the frame of an accepted event is in the end in its table.
AcceptedIsStored ==
    \A r \in 1..MaxRequests :
        (r \in DOMAIN reqs /\ reqs[r].pc = "accepted") ~>
            /\ r \in DOMAIN reqs /\ Key(r) \in DOMAIN raw
            /\ \A i \in 2..PartCount(reqs[r].event) : \E p \in points : p.record = <<r, i>>

\* docs/02-api.md: device_id + boot_id + sequence is the key that keeps an event
\* from being loaded twice downstream.  Points are keyed by the request_id, which
\* is new for every attempt.
OnePointPerEvent ==
    \A p, q \in points :
        p.key = q.key /\ p.record[2] = q.record[2]
          /\ reqs[p.record[1]].event = reqs[q.record[1]].event => p = q
===============================================================================
