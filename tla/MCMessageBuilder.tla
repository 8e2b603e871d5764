--------------------------- MODULE MCMessageBuilder ---------------------------
(***************************************************************************)
(* Texts of the lengths where a limit bites, with NULs in them; numbers at *)
(* the edges of a varint byte, of the 32-bit halves and of the sign.       *)
(***************************************************************************)
EXTENDS MessageBuilder

Plain(id, len) == [id |-> id, len |-> len, nul |-> len]
Cut(id, len, nul) == [id |-> id, len |-> len, nul |-> nul]

Key == Plain("key", 19)
Unit == Plain("unit", 7)

MCNames ==
    {<<Key, Unit>>, <<Cut("nul", 5, 2), NoText>>,
     <<Plain("long", 20), NoText>>, <<Cut("none", 2, 0), NoText>>, <<Key, Plain("long", 8)>>}

\* 0, -1, the least and 2^34; the other edges are in the statuses.
MCInt64s == {{}, 0..63, {63}, {34}}
MCDoubles == {{62, 51}}

\* The last leaves room for the envelope of some contexts and not of others.
MCStrings == {NoText, Cut("s", 9, 4), Plain("v", 2762)}

MCTimestamps == {0..63}
MCStreamKeys == {Plain("stream", 31), Plain("long", 32), Cut("none", 3, 0)}
MCIntervals == {0..63}

\* 16385 * 4 wraps around the scaled size_t.
MCSampleCounts == {150, 16385}
MCSamples == {Plain("few", 16), Plain("some", 600), Plain("most", 2400), Plain("many", 2401)}

Channel(key, unit, has, v) ==
    [key |-> key, unit |-> unit, has |-> has, scale |-> IF "scale" \in has THEN v ELSE {},
     offset |-> IF "offset" \in has THEN v ELSE {}]
MCChannels ==
    {Channel(Key, Unit, {"scale", "offset"}, {31, 7}), Channel(Cut("nul", 4, 1), NoText, {"scale"}, {}),
     Channel(Cut("none", 2, 0), NoText, {}, {})}

MCRssis == {{}, {0}, 0..31, {31}, 0..30, {6}, {5}}
MCHeaps == {0..31, {28}, {7}}
MCReasons == {Plain("panic", 23), Plain("long", 24), Cut("nul", 8, 3)}

Context(id, token, mode, n) ==
    [device_id |-> Plain("id", id), device_token |-> Plain("token", token), auth_mode |-> mode,
     boot_id |-> Plain("boot", 31), firmware_version |-> n \cap 0..31, sequence |-> n,
     uptime_ms |-> n]
MCContexts ==
    {Context(31, 120, "bearer", 0..63), Context(31, 121, "bearer", {}),
     Context(31, 127, "hmac", {35}), Context(32, 39, "hmac", {0})}

===============================================================================
