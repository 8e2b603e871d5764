----------------------------- MODULE AetusEncode -----------------------------
(***************************************************************************)
(* From a queue item to the POST: the checks on a signal frame, the        *)
(* protobuf event that encode_telemetry, encode_signal_frame and           *)
(* encode_status fill and encode, the headers of post_payload, and what    *)
(* POST /v1/ingest checks of them.                                         *)
(*                                                                         *)
(* A telemetry message is [kind, timestamp_ns, heap, metrics], a metric    *)
(* [key, unit, value] with value <<type, v>>; a string or bytes metric     *)
(* holds [data, size].  A signal frame and a status have the fields of     *)
(* their structs.                                                          *)
(***************************************************************************)
EXTENDS NanopbEncode

CONSTANTS
    SamplesMax,      \* AETUS_SIGNAL_SAMPLES_MAX
    ChannelsMax,     \* AETUS_SIGNAL_CHANNELS_MAX
    EncodeBuffer,    \* AETUS_ENCODE_BUFFER_BYTES
    MaxMetrics,      \* AETUS_MAX_METRICS
    SizeMax          \* SIZE_MAX, scaled

\* The static assertions of aetus.c and aetus.h.
ASSUME EncodeAssumption ==
    /\ MaxMetrics <= ProtoMetrics
    /\ 0 < SamplesMax /\ SamplesMax + 512 <= EncodeBuffer
    /\ SamplesMax < SizeMax

-----------------------------------------------------------------------------
(* Signal frames.                                                          *)

INSTANCE SignalFrameCheck

map_signal_encoding ==
    [float32_le |-> {0}, int16_le |-> {1}, uint16_le |-> {0, 1}, int32_le |-> {2}]
map_signal_layout == [interleaved |-> {0}, planar |-> {1}]
map_device_status == [online |-> {0}, degraded |-> {1}, offline |-> {0, 1}]

-----------------------------------------------------------------------------
(* Events.  c is what the event takes from s_ctx and the clock.            *)

fill_event_header(c) ==
    [schema_version |-> {0}, device_id |-> copy_string(32, c.device_id),
     sequence |-> c.sequence, boot_id |-> copy_string(32, c.boot_id),
     firmware_version |-> c.firmware_version, uptime_ms |-> c.uptime_ms]

EventTelemetry == {0}
EventStatus == {1}

Event(c, type, timestamp, which, name, body) ==
    Message(which, {}, fill_event_header(c) @@ [event_type |-> type, timestamp_ns |-> timestamp]
                         @@ (name :> body))

fill_metric(x) ==
    LET type == x.value[1]
        v == x.value[2]
        fill(tag, name, held) ==
            Message(tag, {}, [key |-> copy_string(20, x.key), unit |-> copy_string(8, x.unit)]
                               @@ (name :> held))
    IN  CASE type = "int64"  -> fill(2, "int_value", v)
          [] type = "double" -> fill(3, "double_value", v)
          [] type = "bool"   -> fill(4, "bool_value", v)
          [] type = "string" -> fill(5, "string_value", [encode |-> "string", arg |-> v.data])
          [] type = "bytes"  -> fill(6, "bytes_value", [encode |-> "bytes", arg |-> v])

\* The event and its encoding into the uploader's buffer.
Encode(event) == pb_encode(pb_ostream_from_buffer(EncodeBuffer), "IngestEvent", event)

TelemetryEvent(c, timestamp, tag, name, payload) ==
    Event(c, EventTelemetry, timestamp, 10, "telemetry", Message(tag, {}, (name :> payload)))

encode_telemetry(c, t) ==
    LET metrics == SubSeq(t.metrics, 1, Min({Len(t.metrics), MaxMetrics}))
        set == Message(0, {}, [metrics |-> [i \in DOMAIN metrics |-> fill_metric(metrics[i])]])
    IN  Encode(TelemetryEvent(c, t.timestamp_ns, 1, "metric_set", set))

encode_signal_frame(c, f) ==
    LET frame == Message(0, {},
            [stream_key |-> copy_string(32, f.stream_key),
             sample_interval_ns |-> f.sample_interval_ns, sample_count |-> Bits(f.sample_count),
             encoding |-> map_signal_encoding[f.encoding], layout |-> map_signal_layout[f.layout],
             channels |-> [encode |-> "channels", arg |-> f.channels],
             samples |-> [encode |-> "bytes", arg |-> [data |-> f.samples, size |-> f.samples_size]]])
    IN  IF ~validate_signal_frame(f) THEN Fail(pb_ostream_from_buffer(EncodeBuffer))
        ELSE Encode(TelemetryEvent(c, f.timestamp_ns, 2, "signal_frame", frame))

encode_status(c, s) ==
    Encode(Event(c, EventStatus, s.timestamp_ns, 11, "status",
        Message(0, {}, [status |-> map_device_status[s.status], rssi |-> s.rssi,
                        free_heap |-> s.free_heap,
                        reboot_reason |-> copy_string(24, s.reboot_reason)])))

encode_queue_item(c, item) ==
    CASE item.kind = "status"       -> encode_status(c, item)
      [] item.kind = "signal_frame" -> encode_signal_frame(c, item)
      [] item.kind = "telemetry"    -> encode_telemetry(c, item)

-----------------------------------------------------------------------------
(* The request.                                                            *)

\* SHA-256 and the key block of the HMAC: a key of more than 64 bytes is hashed.
sha256(x) == [sha256 |-> x]
HmacKey(token) == IF token.nul > 64 THEN sha256(CString(token)) ELSE CString(token)

\* hmac_sha256_digest over the prefix with the device id and the body's hash.
hmac_sha256_digest(token, id, body) ==
    [key |-> HmacKey(token), id |-> CString(id), body |-> sha256(body)]

\* The prefix "AETUS-HMAC-SHA256-V1\nPOST\n/v1/ingest\n" has 37 bytes, a newline
\* follows the id and the buffer has 128 bytes.
HmacPrefixFits(id) == 37 + id.nul + 1 < 128

NoCredential == [scheme |-> NULL]

hmac_signature_header(c, body) ==
    IF HmacPrefixFits(c.device_id)
    THEN [scheme |-> "hmac", signature |-> hmac_sha256_digest(c.device_token, c.device_id, body)]
    ELSE NoCredential

\* Mutant of bearer_header: the buffer of the signature header.
bearer_header_short(c) == [scheme |-> "bearer", token |-> Prefix(c.device_token, Min({c.device_token.nul, 95 - 7}))]

\* snprintf() of "Bearer " and the token into 128 bytes.
bearer_header(c) == [scheme |-> "bearer", token |-> Prefix(c.device_token, Min({c.device_token.nul, 127 - 7}))]

\* What post_payload hands to the HTTP client.
post_payload(c, body) ==
    [device_id |-> CString(c.device_id), body |-> body,
     credential |-> IF c.auth_mode = "hmac" THEN hmac_signature_header(c, body) ELSE bearer_header(c)]

\* require_ingest_auth and the checks of ingest(), for a device that is
\* registered with the id and the token it is configured with.
AuthOK(c, r) ==
    CASE r.credential.scheme = "hmac" ->
           r.credential.signature = hmac_sha256_digest(c.device_token, r.device_id, r.body)
      [] r.credential.scheme = "bearer" -> r.credential.token = CString(c.device_token)
      [] r.credential.scheme = NULL -> FALSE

ServerAccepts(c, r) ==
    LET event == Decode(r.body)
    IN  /\ AuthOK(c, r)
        /\ TextOf(OneOf(event, 2, <<>>)) = r.device_id
        /\ OneOf(event, 5, <<>>) # <<>>
        /\ AllOf(event, 10) # <<>> \/ AllOf(event, 11) # <<>>

-----------------------------------------------------------------------------
(* What the server reads.                                                  *)

MetricOf(tokens) ==
    LET f == Decode(tokens)
        has(tag) == AllOf(f, tag) # <<>>
    IN  [key |-> TextOf(OneOf(f, 1, <<>>)), unit |-> TextOf(OneOf(f, 7, <<>>)),
         value |-> CASE has(2) -> <<"int64", Unfold(OneOf(f, 2, {}))>>
                     [] has(3) -> <<"double", OneOf(f, 3, {})>>
                     [] has(4) -> <<"bool", OneOf(f, 4, {}) = {0}>>
                     [] has(5) -> <<"string", TextOf(OneOf(f, 5, <<>>))>>
                     [] has(6) -> <<"bytes", TextOf(OneOf(f, 6, <<>>))>>]

\* An optional number that is absent is NULL.
ChannelOf(tokens) ==
    LET f == Decode(tokens)
        opt(tag) == IF AllOf(f, tag) = <<>> THEN <<NULL>> ELSE <<"some", OneOf(f, tag, {})>>
    IN  [key |-> TextOf(OneOf(f, 1, <<>>)), unit |-> TextOf(OneOf(f, 2, <<>>)),
         scale |-> opt(3), offset |-> opt(4)]

EachOf(Op(_), s) == [i \in 1..Len(s) |-> Op(s[i])]

EventOf(tokens) ==
    LET event == Decode(tokens)
        telemetry == Decode(OneOf(event, 10, <<>>))
        set == Decode(OneOf(telemetry, 1, <<>>))
        frame == Decode(OneOf(telemetry, 2, <<>>))
        status == Decode(OneOf(event, 11, <<>>))
        head == [sequence |-> OneOf(event, 3, {}), boot_id |-> TextOf(OneOf(event, 5, <<>>)),
                 timestamp_ns |-> OneOf(event, 8, {})]
    IN  head @@
        (CASE AllOf(telemetry, 1) # <<>> ->
                [kind |-> "telemetry", metrics |-> EachOf(MetricOf, AllOf(set, 1))]
           [] AllOf(telemetry, 2) # <<>> ->
                [kind |-> "signal_frame", stream_key |-> TextOf(OneOf(frame, 1, <<>>)),
                 sample_interval_ns |-> OneOf(frame, 2, {}),
                 sample_count |-> Value(OneOf(frame, 3, {})),
                 encoding |-> OneOf(frame, 4, {}), layout |-> OneOf(frame, 5, {}),
                 channels |-> EachOf(ChannelOf, AllOf(frame, 6)),
                 samples |-> TextOf(OneOf(frame, 7, <<>>))]
           [] AllOf(event, 11) # <<>> ->
                [kind |-> "status", status |-> OneOf(status, 1, {}),
                 rssi |-> Unfold(OneOf(status, 2, {})), free_heap |-> OneOf(status, 3, {}),
                 reboot_reason |-> TextOf(OneOf(status, 4, <<>>))])

=============================================================================
