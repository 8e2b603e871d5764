---------------------------- MODULE MessageBuilder ----------------------------
(***************************************************************************)
(* The life of one message: the C++ builders aetus::Telemetry, SignalFrame *)
(* and Status on top of the aetus_telemetry_*, aetus_signal_frame_* and    *)
(* aetus_status_* functions, the enqueue that takes it, and the uploader   *)
(* that encodes and posts it.  The queue and the memory behind it are in   *)
(* AetusUpload and TelemetryOwnership.                                     *)
(***************************************************************************)
EXTENDS AetusEncode

CONSTANTS
    InlineMetrics,       \* AETUS_TELEMETRY_INLINE_METRICS
    Names,               \* what callers name a metric: <<key, unit>>
    Int64s, Doubles, Strings,
    Timestamps,          \* for timestamp(); and what the RTC may read
    StreamKeys, Intervals, SampleCounts, Encodings, Samples,
    Channels,            \* [key, unit, has, scale, offset]
    Rssis, Heaps, Reasons,
    Contexts             \* what an event takes from s_ctx: see AetusEncode

\* Texts with a NUL inside them, and numbers of at most 64 bits.
ASSUME BuilderAssumption ==
    /\ InlineMetrics \in Nat \ {0} /\ InlineMetrics <= MaxMetrics
    /\ \A t \in Strings \cup StreamKeys \cup Samples \cup Reasons : t.nul <= t.len
    /\ \A v \in Int64s \cup Doubles \cup Timestamps \cup Intervals : v \subseteq 0..63
    /\ \A v \in Rssis \cup Heaps : v \subseteq 0..31
    /\ Encodings \subseteq DOMAIN map_signal_encoding

VARIABLES
    value,    \* value_: the struct inside the builder
    error,    \* error_: what remember() kept
    asked,    \* what the caller asked for with the calls that returned no error
    lost,     \* a call had an error
    item,     \* the queue item, or NULL
    sent      \* the encoded item and its request, or NULL

vars == <<value, error, asked, lost, item, sent>>

KeyMax == 20     \* AETUS_METRIC_KEY_MAX, with the terminator
UnitMax == 8     \* AETUS_METRIC_UNIT_MAX
StreamKeyMax == 32
ReasonMax == 24

-------------------------------------------------------------------------------
(* The structs.                                                            *)

aetus_telemetry_init == [kind |-> "telemetry", timestamp_ns |-> {}, heap |-> FALSE, metrics |-> <<>>]

aetus_signal_frame_init ==
    [kind |-> "signal_frame", timestamp_ns |-> {}, stream_key |-> NoText,
     sample_interval_ns |-> {}, sample_count |-> 0, encoding |-> "float32_le",
     layout |-> "interleaved", channels |-> <<>>, samples |-> NULL, samples_size |-> 0]

aetus_status_init(s) ==
    [kind |-> "status", timestamp_ns |-> {}, status |-> s, rssi |-> {}, free_heap |-> {},
     reboot_reason |-> NoText]

Result(err, val) == [err |-> err, val |-> val]

\* A call on C strings: fails says which allocation returns NULL.
append_metric(t, key, unit, fails, metric) ==
    LET grow == Len(t.metrics) >= InlineMetrics /\ ~t.heap
    IN  IF key.nul = 0 \/ key.nul >= KeyMax \/ unit.nul >= UnitMax \/ Len(t.metrics) >= MaxMetrics
        THEN Result("invalid_arg", t)
        ELSE IF grow /\ fails = "table" THEN Result("no_mem", t)
        ELSE Result("ok", [t EXCEPT !.heap = @ \/ grow,
                                    !.metrics = Append(@, [key |-> copy_string(KeyMax, key),
                                                           unit |-> copy_string(UnitMax, unit),
                                                           value |-> metric])])

\* aetus_telemetry_add_int64, _double, _bool
aetus_telemetry_add_scalar(t, key, unit, fails, type, v) ==
    append_metric(t, key, unit, fails, <<type, v>>)

\* A blob is allocated once the metric is in place, and takes it back when it
\* cannot be.
WithBlob(t, r, fails) ==
    IF r.err = "ok" /\ fails = "blob" THEN Result("no_mem", [r.val EXCEPT !.metrics = t.metrics])
    ELSE r

aetus_telemetry_add_string_n(t, key, v, unit, fails) ==
    WithBlob(t, append_metric(t, key, unit, fails, <<"string", [data |-> v, size |-> v.len]>>), fails)

\* No bytes need no blob.
aetus_telemetry_add_bytes(t, key, v, unit, fails) ==
    LET r == append_metric(t, key, unit, fails,
                           <<"bytes", [data |-> IF v.len = 0 THEN NULL ELSE v, size |-> v.len]>>)
    IN  IF v.len = 0 THEN r ELSE WithBlob(t, r, fails)

aetus_signal_frame_set_stream_key(f, key) ==
    IF key.nul = 0 \/ key.nul >= StreamKeyMax THEN Result("invalid_arg", f)
    ELSE Result("ok", [f EXCEPT !.stream_key = copy_string(StreamKeyMax, key)])

\* scale and offset are given by pointers: has says which are not NULL.
aetus_signal_frame_add_channel(f, c) ==
    IF c.key.nul = 0 \/ c.key.nul >= KeyMax \/ c.unit.nul >= UnitMax \/ Len(f.channels) >= ChannelsMax
    THEN Result("invalid_arg", f)
    ELSE Result("ok", [f EXCEPT !.channels = Append(@,
            [c EXCEPT !.key = copy_string(KeyMax, @), !.unit = copy_string(UnitMax, @)])])

aetus_signal_frame_set_samples(f, v) ==
    IF v.len > SamplesMax THEN Result("invalid_arg", f)
    ELSE Result("ok", [f EXCEPT !.samples = v, !.samples_size = v.len])

aetus_status_set_reboot_reason(s, reason) ==
    IF reason.nul >= ReasonMax THEN Result("invalid_arg", s)
    ELSE Result("ok", [s EXCEPT !.reboot_reason = copy_string(ReasonMax, reason)])

\* aetus_rtc_timestamp_ns: a clock that was never set is refused.
aetus_set_timestamp_rtc(x, valid, ns) ==
    IF valid THEN Result("ok", [x EXCEPT !.timestamp_ns = ns]) ELSE Result("invalid_state", x)

-------------------------------------------------------------------------------
(* The builders.                                                           *)

Init ==
    /\ value \in {aetus_telemetry_init, aetus_signal_frame_init}
                   \cup {aetus_status_init(s) : s \in {"online", "degraded", "offline"}}
    /\ error = "ok"
    /\ asked = value /\ lost = FALSE
    /\ item = NULL /\ sent = NULL

Building(kind) == item = NULL /\ value.kind = kind

\* remember()
Remember(err) == error' = IF error = "ok" THEN err ELSE error

\* A call of a builder: its result, and what the struct would be if it held what
\* the caller passed.
Call(r, meant) ==
    /\ value' = r.val
    /\ Remember(r.err)
    /\ asked' = IF r.err = "ok" THEN meant ELSE asked
    /\ lost' = (lost \/ r.err # "ok")
    /\ UNCHANGED <<item, sent>>

\* detail::copy_string(): a view that leaves no room for the terminator is refused
\* before the C function is called, which reads the copy up to its first NUL.
Fits(t, size) == t.len < size
Checked(ok, r) == IF ok THEN r ELSE Result("invalid_arg", value)

AddMetric(key, unit, r, meant) ==
    /\ Building("telemetry")
    /\ Call(Checked(Fits(key, KeyMax) /\ Fits(unit, UnitMax), r),
            [asked EXCEPT !.metrics = Append(@, [key |-> key, unit |-> unit, value |-> meant])])

AddInt64(key, unit, fails) ==
    \E v \in Int64s : AddMetric(key, unit,
        aetus_telemetry_add_scalar(value, key, unit, fails, "int64", v), <<"int64", v>>)

AddDouble(key, unit, fails) ==
    \E v \in Doubles : AddMetric(key, unit,
        aetus_telemetry_add_scalar(value, key, unit, fails, "double", v), <<"double", v>>)

AddBool(key, unit, fails) ==
    \E v \in BOOLEAN : AddMetric(key, unit,
        aetus_telemetry_add_scalar(value, key, unit, fails, "bool", v), <<"bool", v>>)

AddString(key, unit, fails) ==
    \E v \in Strings : AddMetric(key, unit,
        aetus_telemetry_add_string_n(value, key, v, unit, fails), <<"string", v>>)

AddBytes(key, unit, fails) ==
    \E v \in Strings : AddMetric(key, unit,
        aetus_telemetry_add_bytes(value, key, v, unit, fails), <<"bytes", v>>)

\* Telemetry::timestamp, SignalFrame::timestamp, Status::timestamp
Timestamp(ns) ==
    /\ item = NULL
    /\ Call(Result("ok", [value EXCEPT !.timestamp_ns = ns]), [asked EXCEPT !.timestamp_ns = ns])

\* timestamp_from_rtc of the three
TimestampFromRtc(valid, ns) ==
    /\ item = NULL
    /\ Call(aetus_set_timestamp_rtc(value, valid, ns), [asked EXCEPT !.timestamp_ns = ns])

StreamKey(key) ==
    /\ Building("signal_frame")
    /\ Call(Checked(Fits(key, StreamKeyMax), aetus_signal_frame_set_stream_key(value, key)),
            [asked EXCEPT !.stream_key = key])

\* sample_interval_ns, sample_count, encoding_*, layout_*
SetFrameField(field, v) ==
    /\ Building("signal_frame")
    /\ Call(Result("ok", [value EXCEPT ![field] = v]), [asked EXCEPT ![field] = v])

\* add_channel, add_channel_with_scale, add_channel_with_affine
AddChannel(c) ==
    /\ Building("signal_frame")
    /\ Call(Checked(Fits(c.key, KeyMax) /\ Fits(c.unit, UnitMax),
                    aetus_signal_frame_add_channel(value, c)),
            [asked EXCEPT !.channels = Append(@, c)])

\* set_sample_bytes, set_samples
SetSamples(v) ==
    /\ Building("signal_frame")
    /\ Call(aetus_signal_frame_set_samples(value, v),
            [asked EXCEPT !.samples = v, !.samples_size = v.len])

\* rssi, free_heap
SetStatusField(field, v) ==
    /\ Building("status")
    /\ Call(Result("ok", [value EXCEPT ![field] = v]), [asked EXCEPT ![field] = v])

RebootReason(reason) ==
    /\ Building("status")
    /\ Call(Checked(Fits(reason, ReasonMax), aetus_status_set_reboot_reason(value, reason)),
            [asked EXCEPT !.reboot_reason = reason])

-------------------------------------------------------------------------------
(* The enqueue and the uploader.                                           *)

\* enqueue() of the builder: aetus_enqueue_telemetry, _status, and
\* _signal_frame, which checks the frame.
Enqueue ==
    /\ item = NULL /\ error = "ok"
    /\ value.kind = "signal_frame" => validate_signal_frame(value)
    /\ item' = value
    /\ UNCHANGED <<value, error, asked, lost, sent>>

\* drain_queue: the item is encoded, and posted when that succeeded.
Upload(c) ==
    /\ item # NULL /\ sent = NULL
    /\ LET stream == encode_queue_item(c, item)
       IN  sent' = [context |-> c, stream |-> stream,
                    request |-> IF stream.ok THEN post_payload(c, stream.out) ELSE NULL]
    /\ UNCHANGED <<value, error, asked, lost, item>>

BuildTelemetry ==
    \E n \in Names :
        \/ \E fails \in {"none", "table"} :
              AddInt64(n[1], n[2], fails) \/ AddDouble(n[1], n[2], fails) \/ AddBool(n[1], n[2], fails)
        \/ \E fails \in {"none", "table", "blob"} :
              AddString(n[1], n[2], fails) \/ AddBytes(n[1], n[2], fails)

BuildFrame ==
    \/ \E key \in StreamKeys : StreamKey(key)
    \/ \E v \in Intervals : SetFrameField("sample_interval_ns", v)
    \/ \E n \in SampleCounts : SetFrameField("sample_count", n)
    \/ \E e \in Encodings : SetFrameField("encoding", e)
    \/ \E l \in DOMAIN map_signal_layout : SetFrameField("layout", l)
    \/ \E c \in Channels : AddChannel(c)
    \/ \E v \in Samples : SetSamples(v)

BuildStatus ==
    \/ \E v \in Rssis : SetStatusField("rssi", v)
    \/ \E v \in Heaps : SetStatusField("free_heap", v)
    \/ \E v \in Reasons : RebootReason(v)

Next ==
    \/ BuildTelemetry \/ BuildFrame \/ BuildStatus
    \/ \E ns \in Timestamps : Timestamp(ns) \/ \E valid \in BOOLEAN : TimestampFromRtc(valid, ns)
    \/ Enqueue
    \/ \E c \in Contexts : Upload(c)

Spec == Init /\ [][Next]_vars

-------------------------------------------------------------------------------
(* Properties.                                                             *)

\* What a receiver should read of a metric and of a channel: texts up to their
\* first NUL, bytes whole.
HeardMetric(x) ==
    [key |-> CString(x.key), unit |-> CString(x.unit),
     value |-> CASE x.value[1] = "string" -> <<"string", CString(x.value[2])>>
                 [] x.value[1] = "bytes"  -> <<"bytes", Prefix(x.value[2], x.value[2].len)>>
                 [] OTHER -> x.value]

HeardChannel(x) ==
    LET opt(name, v) == IF name \in x.has THEN <<"some", v>> ELSE <<NULL>>
    IN  [key |-> CString(x.key), unit |-> CString(x.unit),
         scale |-> opt("scale", x.scale), offset |-> opt("offset", x.offset)]

\* The event that says what the caller asked for.
Heard(c) ==
    [sequence |-> c.sequence, boot_id |-> CString(c.boot_id), timestamp_ns |-> asked.timestamp_ns] @@
    (CASE asked.kind = "telemetry" ->
            [kind |-> "telemetry", metrics |-> EachOf(HeardMetric, asked.metrics)]
       [] asked.kind = "signal_frame" ->
            [kind |-> "signal_frame", stream_key |-> CString(asked.stream_key),
             sample_interval_ns |-> asked.sample_interval_ns, sample_count |-> asked.sample_count,
             encoding |-> map_signal_encoding[asked.encoding],
             layout |-> map_signal_layout[asked.layout],
             channels |-> EachOf(HeardChannel, asked.channels),
             samples |-> Prefix(asked.samples, asked.samples.len)]
       [] asked.kind = "status" ->
            [kind |-> "status", status |-> map_device_status[asked.status],
             rssi |-> IF 31 \in asked.rssi THEN asked.rssi \cup 32..63 ELSE asked.rssi,
             free_heap |-> asked.free_heap, reboot_reason |-> CString(asked.reboot_reason)])

\* A message that is posted decodes, by the wire format, to all that the caller
\* asked the builder for and nothing else: every call of the chain succeeded (one
\* that failed, at any place in it, keeps the message from being enqueued), and
\* nanopb's varints, zigzag codes, two-pass submessages and skipped defaults give
\* back the same numbers at every width.  Texts arrive up to their first NUL.
ArrivesAsAsked ==
    sent # NULL /\ sent.stream.ok => ~lost /\ EventOf(sent.stream.out) = Heard(sent.context)

\* A frame that validate_signal_frame() let into the queue has exactly the samples
\* it claims, as whole numbers: no product that wraps around size_t passes for a
\* smaller one.
FrameIsWhole ==
    item # NULL /\ item.kind = "signal_frame" =>
        item.sample_count * Len(item.channels) * signal_sample_width_bytes(item.encoding)
            = item.samples_size

\* pb_encode() never writes past drain_queue()'s payload buffer, and what it says
\* it wrote (the size that post_payload() sends) is what is in the buffer.
StaysInBuffer ==
    sent # NULL =>
        LET bytes == FoldLeft(LAMBDA n, t : n + t.len, 0, sent.stream.out)
        IN  bytes <= EncodeBuffer /\ (sent.stream.ok => bytes = sent.stream.written)

\* The bytes of a telemetry message's strings and blobs.
BlobBytes(t) ==
    FoldLeft(LAMBDA n, x : IF x.value[1] \in {"string", "bytes"} THEN n + x.value[2].size ELSE n,
             0, t.metrics)

\* What enqueue() accepted is lost in drain_queue() for two reasons only: a bytes
\* metric without bytes, or strings and bytes that leave no room for the envelope
\* (128 bytes and 48 a metric).  Frames and statuses are never lost there, not
\* even with the smallest buffer that the static assertion of aetus.c admits.
DroppedOnlyBy ==
    sent # NULL /\ ~sent.stream.ok =>
        /\ item.kind = "telemetry"
        /\ \/ \E i \in DOMAIN item.metrics :
                 item.metrics[i].value = <<"bytes", [data |-> NULL, size |-> 0]>>
           \/ BlobBytes(item) + 128 + 48 * Len(item.metrics) > EncodeBuffer

\* POST /v1/ingest takes every request of a device whose id has at most 31 bytes
\* and whose bearer token at most 120, and of no other: the event's device_id and
\* the Authorization header are cut there, though aetus_start() admits ids of 63
\* bytes and tokens of 127.
ServerTakesIt ==
    sent # NULL /\ sent.request # NULL =>
        LET c == sent.context
        IN  ServerAccepts(c, sent.request) <=>
                c.device_id.nul <= 31 /\ (c.auth_mode = "hmac" \/ c.device_token.nul <= 120)

=============================================================================
