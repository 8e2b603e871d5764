------------------------------ MODULE TimeSync ------------------------------
(***************************************************************************)
(* How aetus_sync_rtc() turns the answer of the time server into the RTC:  *)
(* the bounded body buffer that esp_http_client fills piece by piece, the  *)
(* search for "unix_time_ns" in it and the checks before settimeofday().   *)
(* An answer is a record [err, status, chunks, body]: whether the transport*)
(* failed, the HTTP status, the sizes of the pieces the body arrives in,   *)
(* and the body as a sequence of tokens.  A number token is a record with  *)
(* its value in seconds and whether it overflows strtoull().               *)
(***************************************************************************)
EXTENDS Integers, Sequences, SequencesExt

CONSTANTS
    BodyCapacity,     \* AETUS_TIME_RESPONSE_BUFFER_BYTES
    RtcValidAfter,    \* AETUS_RTC_VALID_AFTER_UNIX_S
    IngestUrls        \* the URL texts that end with /v1/ingest

ASSUME TimeSyncAssumption == BodyCapacity \in Nat \ {0} /\ RtcValidAfter \in Nat

Tokens ==
    [kind : {"key", "quote", "colon", "blank", "number", "other"}, seconds : Nat,
     overflows : BOOLEAN]

HttpAnswers == [err : BOOLEAN, status : Nat, chunks : Seq(Nat), body : Seq(Tokens)]

\* The body buffer when one more piece has arrived: what does not fit before
\* the terminator is cut and marked.
CollectHttpBody(body, incoming) ==
    LET fits == body.length + incoming < BodyCapacity
    IN  [length   |-> IF fits THEN body.length + incoming ELSE BodyCapacity - 1,
         overflow |-> body.overflow \/ ~fits]

Body(chunks) ==
    FoldLeft(CollectHttpBody, [length |-> 0, overflow |-> FALSE], chunks)

\* An explicit time_url, or the ingest URL with its path exchanged.
ResolvesTimeUrl(text) == text["time_url"] # "none" \/ text["ingest_url"] \in IngestUrls

\* The number after the first key and the first colon behind it, with blanks
\* and one quote in between: a token sequence, or the error NoTime.
NoTime == [kind |-> "none", seconds |-> 0, overflows |-> FALSE]

After(tokens, kind) ==
    LET at == {i \in 1..Len(tokens) : tokens[i].kind = kind}
    IN  IF at = {} THEN <<>>
        ELSE SubSeq(tokens, (CHOOSE i \in at : \A j \in at : i <= j) + 1, Len(tokens))

SkipBlanks(tokens) ==
    LET solid == {i \in 1..Len(tokens) : tokens[i].kind # "blank"}
    IN  IF solid = {} THEN <<>>
        ELSE SubSeq(tokens, CHOOSE i \in solid : \A j \in solid : i <= j, Len(tokens))

SkipQuote(tokens) ==
    IF tokens # <<>> /\ Head(tokens).kind = "quote" THEN Tail(tokens) ELSE tokens

ParseUnixTimeNs(tokens) ==
    LET rest == SkipQuote(SkipBlanks(After(After(tokens, "key"), "colon")))
    IN  IF rest # <<>> /\ Head(rest).kind = "number" /\ ~Head(rest).overflows
        THEN Head(rest)
        ELSE NoTime

\* Mutant of FetchServerTimeNs: a body that was cut is parsed.
FetchServerTimeNsCut(answer) ==
    IF answer.err \/ answer.status \notin 200..299 THEN NoTime ELSE ParseUnixTimeNs(answer.body)

\* The time an answer carries, when the client takes it.
FetchServerTimeNs(answer) ==
    IF answer.err \/ answer.status \notin 200..299 \/ Body(answer.chunks).overflow
    THEN NoTime
    ELSE ParseUnixTimeNs(answer.body)

\* Whether set_rtc_from_unix_time_ns() writes the clock.
SetsRtc(time) == time.kind = "number" /\ time.seconds >= RtcValidAfter

=============================================================================
