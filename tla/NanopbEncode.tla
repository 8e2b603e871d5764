---------------------------- MODULE NanopbEncode ----------------------------
(***************************************************************************)
(* The protobuf encoder of the firmware: nanopb's pb_encode.c on the       *)
(* message descriptors of ingest.pb.h, with the encode callbacks of        *)
(* aetus.c, and a decoder of the wire format to read the result with.      *)
(*                                                                         *)
(* A number is the set of its one bits, so that it has the width it has in *)
(* C.  A text is [id, len, nul]: what it says, how many bytes it has and   *)
(* where the first NUL is (nul = len when there is none).  What is written *)
(* is a sequence of tokens, each a byte or a run of bytes of a text.       *)
(***************************************************************************)
EXTENDS Naturals, Sequences, FiniteSetsExt, SequencesExt

CONSTANT
    NULL,
    ProtoMetrics   \* the size of the metrics array of MetricSet

NoText == [id |-> NULL, len |-> 0, nul |-> 0]

\* The first n bytes, none of them a NUL.
Prefix(t, n) == IF n = 0 THEN NoText ELSE [id |-> t.id, len |-> n, nul |-> n]

\* What a reader of a NUL-terminated string sees.
CString(t) == Prefix(t, t.nul)

\* Mutant of copy_string: the terminator is not counted.
copy_string_full(size, t) == Prefix(t, Min({t.nul, size}))

\* copy_string(target, size, source)
copy_string(size, t) == Prefix(t, Min({t.nul, size - 1}))

Power == [b \in 0..30 |-> 2^b]
Bits(n) == {b \in 0..30 : (n \div Power[b]) % 2 = 1}
Value(bits) == MapThenSumSet(LAMBDA b : Power[b], bits)
ShiftRight(bits, n) == {b - n : b \in {c \in bits : c >= n}}
ShiftLeft(bits, n) == {b + n : b \in bits} \cap 0..63
Byte(bits) == [len |-> 1, byte |-> bits \cap 0..7]

-----------------------------------------------------------------------------
(* Descriptors.                                                            *)

Field(tag, rule, type, name, arg) ==
    [tag |-> tag, rule |-> rule, alloc |-> "STATIC", type |-> type, name |-> name, arg |-> arg]

CallbackField(tag, rule, type, name, arg) ==
    [Field(tag, rule, type, name, arg) EXCEPT !.alloc = "CALLBACK"]

\* The fields of each message in the order of its FIELDLIST; arg is the bytes
\* of a number or a string, the message of a submessage.  The third member of
\* IngestEvent's oneof, an alert, is never set by the firmware.
Fields ==
    [IngestEvent |->
       << Field(1, "SINGULAR", "UVARINT", "schema_version", 4),
          Field(2, "SINGULAR", "STRING",  "device_id", 32),
          Field(3, "SINGULAR", "UVARINT", "sequence", 8),
          Field(4, "SINGULAR", "UVARINT", "event_type", 4),
          Field(5, "SINGULAR", "STRING",  "boot_id", 32),
          Field(6, "SINGULAR", "UVARINT", "firmware_version", 4),
          Field(7, "SINGULAR", "UVARINT", "uptime_ms", 8),
          Field(8, "SINGULAR", "UVARINT", "timestamp_ns", 8),
          Field(10, "ONEOF", "SUBMESSAGE", "telemetry", "TelemetryPayload"),
          Field(11, "ONEOF", "SUBMESSAGE", "status", "StatusPayload") >>,
     TelemetryPayload |->
       << Field(1, "ONEOF", "SUBMESSAGE", "metric_set", "MetricSet"),
          Field(2, "ONEOF", "SUBMESSAGE", "signal_frame", "SignalFrame") >>,
     MetricSet |->
       << Field(1, "REPEATED", "SUBMESSAGE", "metrics", "Metric") >>,
     Metric |->
       << Field(1, "SINGULAR", "STRING", "key", 20),
          Field(2, "ONEOF", "SVARINT", "int_value", 8),
          Field(3, "ONEOF", "FIXED64", "double_value", 8),
          Field(4, "ONEOF", "BOOL", "bool_value", 1),
          CallbackField(5, "ONEOF", "STRING", "string_value", 0),
          CallbackField(6, "ONEOF", "BYTES", "bytes_value", 0),
          Field(7, "SINGULAR", "STRING", "unit", 8) >>,
     StatusPayload |->
       << Field(1, "SINGULAR", "UVARINT", "status", 4),
          Field(2, "SINGULAR", "SVARINT", "rssi", 4),
          Field(3, "SINGULAR", "UVARINT", "free_heap", 4),
          Field(4, "SINGULAR", "STRING", "reboot_reason", 24) >>,
     SignalFrame |->
       << Field(1, "SINGULAR", "STRING", "stream_key", 32),
          Field(2, "SINGULAR", "UVARINT", "sample_interval_ns", 8),
          Field(3, "SINGULAR", "UVARINT", "sample_count", 4),
          Field(4, "SINGULAR", "UVARINT", "encoding", 4),
          Field(5, "SINGULAR", "UVARINT", "layout", 4),
          CallbackField(6, "REPEATED", "SUBMESSAGE", "channels", "SignalChannel"),
          CallbackField(7, "SINGULAR", "BYTES", "samples", 0) >>,
     SignalChannel |->
       << Field(1, "SINGULAR", "STRING", "key", 20),
          Field(2, "SINGULAR", "STRING", "unit", 8),
          Field(3, "OPTIONAL", "FIXED32", "scale", 4),
          Field(4, "OPTIONAL", "FIXED32", "offset", 4) >>]

\* A message: the tag of the oneof member that is set, the optional fields that
\* are, and the values.
Message(which, has, val) == [which |-> which, has |-> has, val |-> val]

-----------------------------------------------------------------------------
(* Streams.  One that failed stays failed: each caller returns at once.    *)

PB_OSTREAM_SIZING == [ok |-> TRUE, sizing |-> TRUE, max |-> 0, written |-> 0, out |-> <<>>]

pb_ostream_from_buffer(size) ==
    [ok |-> TRUE, sizing |-> FALSE, max |-> size, written |-> 0, out |-> <<>>]

Fail(s) == [s EXCEPT !.ok = FALSE]

pb_write(s, count, tokens) ==
    IF ~s.ok THEN s
    ELSE IF count > 0 /\ ~s.sizing /\ s.written + count > s.max THEN Fail(s)
    ELSE [s EXCEPT !.written = @ + count,
                   !.out = IF s.sizing \/ count = 0 THEN @ ELSE @ \o tokens]

-----------------------------------------------------------------------------
(* Numbers, tags and strings.                                              *)

\* A varint in the making: the bytes in the buffer and the one being filled.
Spill(v, bits) == [buffer |-> Append(v.buffer, v.byte \cup {7}), byte |-> bits \cap 0..6]

RECURSIVE SpillLow(_, _, _)
SpillLow(v, low, high) ==
    IF Len(v.buffer) < 4 /\ (low # {} \/ high # {})
    THEN SpillLow(Spill(v, low), ShiftRight(low, 7), high)
    ELSE v

RECURSIVE SpillHigh(_, _)
SpillHigh(v, high) ==
    IF high = {} THEN v ELSE SpillHigh(Spill(v, high), ShiftRight(high, 7))

\* Mutant of pb_encode_varint_32: the three bits that share the fifth byte are
\* not shifted out of the high word.
pb_encode_varint_32_unshifted(s, low, high) ==
    LET start == SpillLow([buffer |-> <<>>, byte |-> low \cap 0..6], ShiftRight(low, 7), high)
        fifth == [start EXCEPT !.byte = @ \cup ShiftLeft(high \cap 0..2, 4)]
        done == SpillHigh(fifth, high)
        bytes == Append(done.buffer, done.byte)
    IN  pb_write(s, Len(bytes), [i \in 1..Len(bytes) |-> Byte(bytes[i])])

pb_encode_varint_32(s, low, high) ==
    LET start == SpillLow([buffer |-> <<>>, byte |-> low \cap 0..6], ShiftRight(low, 7), high)
        fifth == [start EXCEPT !.byte = @ \cup ShiftLeft(high \cap 0..2, 4)]
        done == SpillHigh(fifth, ShiftRight(high, 3))
        bytes == Append(done.buffer, done.byte)
    IN  pb_write(s, Len(bytes), [i \in 1..Len(bytes) |-> Byte(bytes[i])])

pb_encode_varint(s, v) ==
    IF v \subseteq 0..6
    THEN pb_write(s, 1, <<Byte(v)>>)
    ELSE pb_encode_varint_32(s, v \cap 0..31, ShiftRight(v, 32))

pb_encode_svarint(s, v) ==
    pb_encode_varint(s, IF 63 \in v THEN 0..63 \ ShiftLeft(v \ {63}, 1) ELSE ShiftLeft(v, 1))

\* pb_encode_fixed32, pb_encode_fixed64
pb_encode_fixed(s, v, size) ==
    pb_write(s, size, [i \in 1..size |-> Byte(ShiftRight(v, 8 * (i - 1)))])

pb_encode_tag(s, wiretype, tag) == pb_encode_varint(s, Bits(8 * tag + wiretype))

pb_encode_tag_for_field(s, field) ==
    pb_encode_tag(s, CASE field.type \in {"BOOL", "UVARINT", "SVARINT"} -> 0
                       [] field.type = "FIXED64" -> 1
                       [] field.type \in {"BYTES", "STRING", "SUBMESSAGE"} -> 2
                       [] field.type = "FIXED32" -> 5, field.tag)

pb_encode_string(s, t, size) ==
    pb_write(pb_encode_varint(s, Bits(size)), size, <<[len |-> size, text |-> t.id]>>)

\* Signed integers are extended to 64 bits before they are folded.
pb_enc_varint(s, field, v) ==
    IF field.type = "UVARINT" THEN pb_encode_varint(s, v)
    ELSE pb_encode_svarint(s, IF field.arg = 4 /\ 31 \in v THEN v \cup 32..63 ELSE v)

\* The array must hold the terminator.
pb_enc_string(s, field, t) ==
    IF t.nul > field.arg - 1 THEN Fail(s) ELSE pb_encode_string(s, t, t.nul)

-----------------------------------------------------------------------------
(* The callbacks of aetus.c.  A callback field holds [encode, arg].        *)

encode_string_callback(s, field, t) ==
    pb_encode_string(pb_encode_tag_for_field(s, field), t, t.nul)

encode_bytes_callback(s, field, arg) ==
    IF arg.data = NULL THEN Fail(s)
    ELSE pb_encode_string(pb_encode_tag_for_field(s, field), arg.data, arg.size)

RECURSIVE pb_encode(_, _, _)

\* Mutant of pb_encode_submessage: the room in the stream is not checked.
pb_encode_submessage_unchecked(s, desc, m) ==
    LET sizing == pb_encode(PB_OSTREAM_SIZING, desc, m)
        size == sizing.written
        head == pb_encode_varint(s, Bits(size))
        sub == pb_encode(pb_ostream_from_buffer(size), desc, m)
    IN  IF ~sizing.ok \/ ~head.ok THEN Fail(s)
        ELSE IF s.sizing THEN pb_write(head, size, <<>>)
        ELSE [head EXCEPT !.written = @ + sub.written, !.out = @ \o sub.out,
                          !.ok = sub.ok /\ sub.written = size]

\* A sizing pass, the size, and a second pass that may write just as much.
pb_encode_submessage(s, desc, m) ==
    LET sizing == pb_encode(PB_OSTREAM_SIZING, desc, m)
        size == sizing.written
        head == pb_encode_varint(s, Bits(size))
        sub == pb_encode(pb_ostream_from_buffer(size), desc, m)
    IN  IF ~sizing.ok \/ ~head.ok THEN Fail(s)
        ELSE IF s.sizing THEN pb_write(head, size, <<>>)
        ELSE IF head.written + size > head.max THEN Fail(s)
        ELSE [head EXCEPT !.written = @ + sub.written, !.out = @ \o sub.out,
                          !.ok = sub.ok /\ sub.written = size]

SignalChannelMessage(c) ==
    Message(0, c.has,
            [key |-> copy_string(20, c.key), unit |-> copy_string(8, c.unit),
             scale |-> c.scale, offset |-> c.offset])

encode_signal_channels_callback(s, field, channels) ==
    FoldLeft(LAMBDA t, c : pb_encode_submessage(pb_encode_tag_for_field(t, field), field.arg,
                                                SignalChannelMessage(c)),
             s, SubSeq(channels, 1, Min({Len(channels), 4})))

\* encode_callback_field, pb_default_field_callback
encode_callback_field(s, field, callback) ==
    CASE callback.encode = "string"   -> encode_string_callback(s, field, callback.arg)
      [] callback.encode = "bytes"    -> encode_bytes_callback(s, field, callback.arg)
      [] callback.encode = "channels" -> encode_signal_channels_callback(s, field, callback.arg)
      [] callback.encode = NULL       -> s

-----------------------------------------------------------------------------
(* Fields and messages.                                                    *)

encode_basic_field(s, field, v) ==
    LET t == pb_encode_tag_for_field(s, field)
    IN  CASE field.type = "BOOL" -> pb_encode_varint(t, IF v THEN {0} ELSE {})
          [] field.type \in {"UVARINT", "SVARINT"} -> pb_enc_varint(t, field, v)
          [] field.type \in {"FIXED32", "FIXED64"} -> pb_encode_fixed(t, v, field.arg)
          [] field.type = "STRING" -> pb_enc_string(t, field, v)
          [] field.type = "SUBMESSAGE" -> pb_encode_submessage(t, field.arg, v)

\* An array of submessages is not packed.
encode_array(s, field, items) ==
    IF Len(items) > ProtoMetrics THEN Fail(s)
    ELSE FoldLeft(LAMBDA t, v : encode_basic_field(t, field, v), s, items)

pb_check_proto3_default_value(field, v) ==
    CASE field.type = "STRING" -> v.nul = 0
      [] field.type = "UVARINT" -> v = {}
      [] field.type = "SVARINT" -> v = {}

Present(field, m) ==
    CASE field.rule = "ONEOF" -> m.which = field.tag
      [] field.rule = "OPTIONAL" -> field.name \in m.has
      [] field.rule = "SINGULAR" ->
           field.alloc = "STATIC" => ~pb_check_proto3_default_value(field, m.val[field.name])
      [] field.rule = "REPEATED" -> TRUE

encode_field(s, field, m) ==
    IF ~s.ok \/ ~Present(field, m) THEN s
    ELSE LET v == m.val[field.name]
         IN  IF field.alloc = "CALLBACK" THEN encode_callback_field(s, field, v)
             ELSE IF field.rule = "REPEATED" THEN encode_array(s, field, v)
             ELSE encode_basic_field(s, field, v)

\* The fields from the i-th on, in the order of the iterator.
RECURSIVE encode_fields(_, _, _, _)
encode_fields(s, fields, m, i) ==
    IF i > Len(fields) THEN s ELSE encode_fields(encode_field(s, fields[i], m), fields, m, i + 1)

pb_encode(s, desc, m) == encode_fields(s, Fields[desc], m, 1)

-----------------------------------------------------------------------------
(* The wire format, read back.                                             *)

RECURSIVE ReadVarint(_)
ReadVarint(tokens) ==
    LET b == Head(tokens).byte
    IN  IF 7 \notin b THEN [value |-> b, rest |-> Tail(tokens)]
        ELSE LET r == ReadVarint(Tail(tokens))
             IN  [value |-> (b \ {7}) \cup ShiftLeft(r.value, 7), rest |-> r.rest]

ReadFixed(tokens, size) ==
    [value |-> UNION {ShiftLeft(tokens[i].byte, 8 * (i - 1)) : i \in 1..size},
     rest |-> SubSeq(tokens, size + 1, Len(tokens))]

RECURSIVE ReadTokens(_, _)
ReadTokens(tokens, size) ==
    IF size = 0 THEN [value |-> <<>>, rest |-> tokens]
    ELSE LET r == ReadTokens(Tail(tokens), size - Head(tokens).len)
         IN  [value |-> <<Head(tokens)>> \o r.value, rest |-> r.rest]

\* The fields of a message, <<tag, value>> in the order of the wire; a string or
\* a submessage is a sequence of tokens.
RECURSIVE Decode(_)
Decode(tokens) ==
    IF tokens = <<>> THEN <<>>
    ELSE LET key == ReadVarint(tokens)
             wiretype == Value(key.value \cap 0..2)
             field == CASE wiretype = 0 -> ReadVarint(key.rest)
                        [] wiretype = 1 -> ReadFixed(key.rest, 8)
                        [] wiretype = 5 -> ReadFixed(key.rest, 4)
                        [] wiretype = 2 -> LET size == ReadVarint(key.rest)
                                           IN  ReadTokens(size.rest, Value(size.value))
         IN  <<<<Value(ShiftRight(key.value, 3)), field.value>>>> \o Decode(field.rest)

\* The values of a field, and the one of a singular field or its default.
AllOf(fields, tag) == LET of == SelectSeq(fields, LAMBDA f : f[1] = tag)
                      IN  [i \in 1..Len(of) |-> of[i][2]]
OneOf(fields, tag, default) == IF AllOf(fields, tag) = <<>> THEN default ELSE Last(AllOf(fields, tag))

\* The text in the tokens of a string or bytes field.
TextOf(tokens) == IF tokens = <<>> THEN NoText
                  ELSE Prefix([id |-> Head(tokens).text], Head(tokens).len)

\* The inverse of the zigzag code.
Unfold(v) == IF 0 \in v THEN 0..63 \ ShiftRight(v, 1) ELSE ShiftRight(v, 1)

=============================================================================
