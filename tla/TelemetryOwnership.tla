-------------------------- MODULE TelemetryOwnership --------------------------
(***************************************************************************)
(* Who owns the heap blocks of a telemetry message.  A struct holds its    *)
(* first metrics inline; the rest are in a table on the heap, and every    *)
(* string or bytes metric points at a blob on the heap.  aetus_telemetry_* *)
(* build and destroy the caller's struct (aetus.c), the enqueue functions  *)
(* copy it into a queue item and the uploader releases the item            *)
(* (aetus_queue_item.c).                                                   *)
(*                                                                         *)
(* What happens after a block was freed under its owner is undefined and   *)
(* is not modelled: every action needs Intact.                             *)
(***************************************************************************)
EXTENDS Naturals, Sequences, FiniteSets, Functions

CONSTANTS
    Structs,        \* the callers' aetus_telemetry_t, one per task
    Values,         \* what a metric can hold
    Inline,         \* AETUS_TELEMETRY_INLINE_METRICS
    MaxMetrics,     \* AETUS_MAX_METRICS
    QueueDepth,     \* config.queue_depth
    MallocFails,    \* the call sites where pvPortMalloc() may return NULL
    IsrSafeEnqueue, \* CONFIG_AETUS_ISR_SAFE_ENQUEUE
    NULL, Garbage

ASSUME OwnershipAssumption ==
    /\ Inline \in Nat \ {0} /\ MaxMetrics \in Nat /\ Inline < MaxMetrics
    /\ QueueDepth \in Nat \ {0}
    /\ MallocFails \subseteq {"blob", "copyBlob"}
    /\ IsrSafeEnqueue \in BOOLEAN
    /\ NULL \notin Nat      \* no block has the address NULL

VARIABLES
    tel,        \* tel[s]: the struct of caller s
    hand,       \* hand[s]: the item its aetus_enqueue_telemetry() is sending, if any
    queue,      \* the telemetry items of s_ctx.queue
    item,       \* drain_queue's local item, if any
    mem         \* the live heap blocks and what they contain

vars == <<tel, hand, queue, item, mem>>

-------------------------------------------------------------------------------
(* Structs and the heap.                                                   *)

TableSlots == 1..(MaxMetrics - Inline)

\* A metric after memset(); scalars hold their value, blobs a pointer.
Zero == [kind |-> "scalar", val |-> NULL]

\* aetus_telemetry_init
EmptyTelemetry == [count |-> 0, inline |-> [i \in 1..Inline |-> Zero], table |-> NULL]

\* pvPortMalloc(): the address of the n-th of several successive allocations.
\* Addresses are handed out lowest first and used again after a free.
Address(m, n) == CHOOSE a \in 1..(Cardinality(DOMAIN m) + n) :
                    /\ a \notin DOMAIN m
                    /\ Cardinality({b \in 1..a : b \notin DOMAIN m}) = n

\* The heap m with the blocks n added; a block of its own at the address a.
With(m, n) == [a \in DOMAIN m \cup DOMAIN n |-> IF a \in DOMAIN m THEN m[a] ELSE n[a]]

Block(a, content) == [b \in {a} |-> content]

Deref(m, p) == IF p \in DOMAIN m THEN m[p] ELSE Garbage

\* The i-th metric of a struct; a table that was freed reads as nothing.
Slot(t, m, i) ==
    IF i <= Inline THEN t.inline[i]
    ELSE IF t.table \in DOMAIN m THEN m[t.table][i - Inline] ELSE Zero

\* The metrics of a struct that point at a blob.
BlobSlots(t, m) ==
    {i \in 1..t.count : Slot(t, m, i).kind = "blob" /\ Slot(t, m, i).val # NULL}

\* The pointers of a struct, by the place they are stored in.
Pointers(t, m) ==
    {<<i, Slot(t, m, i).val>> : i \in BlobSlots(t, m)}
      \cup (IF t.table = NULL THEN {} ELSE {<<0, t.table>>})

Live(t, m) == \A p \in Pointers(t, m) : p[2] \in DOMAIN m

\* What a reader of the struct sees.
View(t, m) ==
    [i \in 1..t.count |->
        LET x == Slot(t, m, i)
        IN  <<x.kind, IF i \in BlobSlots(t, m) THEN Deref(m, x.val) ELSE x.val>>]

\* Write the i-th metric of the struct t in the heap m.
Write(t, m, i, x) ==
    IF i <= Inline
    THEN [tel |-> [t EXCEPT !.inline[i] = x], mem |-> m]
    ELSE [tel |-> t, mem |-> [m EXCEPT ![t.table][i - Inline] = x]]

\* Mutant of Release: the table is forgotten.
ReleaseKeepsTable(t, m) ==
    Restrict(m, DOMAIN m \ {Slot(t, m, i).val : i \in BlobSlots(t, m)})

\* aetus_internal_release_telemetry_queue_item, and the same loops of
\* aetus_telemetry_deinit: every blob, then the table.
Release(t, m) == Restrict(m, DOMAIN m \ {p[2] : p \in Pointers(t, m)})

\* Mutant of CopyTo: the memcpy() of the struct is all that is done.
CopyToShallow(t, m, copied) == [tel |-> t, mem |-> m]

\* aetus_internal_copy_telemetry_to_queue_item: a memcpy() of the struct, a table
\* of its own, and a blob of its own for each of the slots in copied.
CopyTo(t, m, copied) ==
    LET tables == IF t.table = NULL THEN 0 ELSE 1
        addr(i) == Address(m, tables + Cardinality({j \in copied : j <= i}))
        slot(i) == IF i \in copied THEN [Slot(t, m, i) EXCEPT !.val = addr(i)] ELSE Slot(t, m, i)
        blobs == {addr(i) : i \in copied}
        content(a) == m[Slot(t, m, CHOOSE i \in copied : addr(i) = a).val]
        table == Address(m, 1)
        withBlobs == With(m, [a \in blobs |-> content(a)])
    IN  IF tables = 0
        THEN [tel |-> [t EXCEPT !.inline = [i \in 1..Inline |-> slot(i)]],
              mem |-> withBlobs]
        ELSE [tel |-> [t EXCEPT !.inline = [i \in 1..Inline |-> slot(i)], !.table = table],
              mem |-> With(withBlobs, Block(table, [i \in TableSlots |-> slot(i + Inline)]))]

-------------------------------------------------------------------------------

\* hand[s] and item are sequences of at most one item.
Items == (UNION {Range(hand[s]) : s \in Structs}) \cup Range(queue) \cup Range(item)

\* No pointer of a struct or of an item dangles.
Intact ==
    /\ \A s \in Structs : Live(tel[s], mem)
    /\ \A x \in Items : Live(x.tel, mem)

Init ==
    /\ tel = [s \in Structs |-> EmptyTelemetry]
    /\ hand = [s \in Structs |-> <<>>]
    /\ queue = <<>> /\ item = <<>>
    /\ mem = [a \in {} |-> NULL]

\* The caller is not inside aetus_enqueue_telemetry().
Ready(s) == Intact /\ hand[s] = <<>>

-------------------------------------------------------------------------------
(* The caller builds and destroys its struct.                              *)

\* append_metric: a slot is taken, after the table was allocated if need be.
\* (When that allocation fails nothing has changed.)
AppendMetric(t, m) ==
    LET grow == t.count >= Inline /\ t.table = NULL
        a == Address(m, 1)
    IN  [tel |-> [t EXCEPT !.count = @ + 1, !.table = IF grow THEN a ELSE @],
         mem |-> IF grow THEN With(m, Block(a, [i \in TableSlots |-> Zero])) ELSE m]

\* A new metric of the given kind is written into the slot.
AddMetric(s, m, kind, v) ==
    LET r == AppendMetric(tel[s], mem)
        w == Write(r.tel, m, r.tel.count, [kind |-> kind, val |-> v])
    IN  /\ tel' = [tel EXCEPT ![s] = w.tel]
        /\ mem' = w.mem
        /\ UNCHANGED <<hand, queue, item>>

\* aetus_telemetry_add_int64, _double, _bool
AddScalar(s, v) ==
    /\ Ready(s) /\ tel[s].count < MaxMetrics
    /\ AddMetric(s, AppendMetric(tel[s], mem).mem, "scalar", v)

\* aetus_telemetry_add_bytes with no bytes: there is no blob.
AddEmptyBytes(s) ==
    /\ Ready(s) /\ tel[s].count < MaxMetrics
    /\ AddMetric(s, AppendMetric(tel[s], mem).mem, "blob", NULL)

\* aetus_telemetry_add_string_n, aetus_telemetry_add_bytes
AddBlob(s, v) ==
    /\ Ready(s) /\ tel[s].count < MaxMetrics
    /\ LET m == AppendMetric(tel[s], mem).mem
           a == Address(m, 1)
       IN  AddMetric(s, With(m, Block(a, v)), "blob", a)

\* The blob cannot be allocated: the slot is given back, the table stays.
AddBlobFails(s) ==
    /\ Ready(s) /\ tel[s].count < MaxMetrics /\ "blob" \in MallocFails
    /\ tel' = [tel EXCEPT ![s].table = AppendMetric(tel[s], mem).tel.table]
    /\ mem' = AppendMetric(tel[s], mem).mem
    /\ UNCHANGED <<hand, queue, item>>

\* aetus_telemetry_deinit
Deinit(s) ==
    /\ Ready(s)
    /\ mem' = Release(tel[s], mem)
    /\ tel' = [tel EXCEPT ![s] = EmptyTelemetry]
    /\ UNCHANGED <<hand, queue, item>>

-------------------------------------------------------------------------------
(* aetus_enqueue_telemetry.                                                *)

\* A queue item of the struct t; said is what the struct said at the call.
ItemOf(t, s) == [tel |-> t, said |-> View(tel[s], mem)]

EnqueueCopy(s) ==
    /\ Ready(s)
    /\ LET c == CopyTo(tel[s], mem, BlobSlots(tel[s], mem))
       IN  /\ hand' = [hand EXCEPT ![s] = <<ItemOf(c.tel, s)>>]
           /\ mem' = c.mem
    /\ UNCHANGED <<tel, queue, item>>

\* The blob of slot k cannot be allocated: the half-made copy is released, with
\* the pointers that memcpy() took over from the caller's struct.
EnqueueCopyFails(s) ==
    /\ Ready(s) /\ "copyBlob" \in MallocFails
    /\ \E k \in BlobSlots(tel[s], mem) :
          LET c == CopyTo(tel[s], mem, {i \in BlobSlots(tel[s], mem) : i < k})
          IN  mem' = Release(c.tel, c.mem)
    /\ UNCHANGED <<tel, hand, queue, item>>

Send(s) ==
    /\ Intact /\ hand[s] # <<>> /\ Len(queue) < QueueDepth
    /\ queue' = queue \o hand[s]
    /\ hand' = [hand EXCEPT ![s] = <<>>]
    /\ UNCHANGED <<tel, item, mem>>

SendTimeout(s) ==
    /\ Intact /\ hand[s] # <<>> /\ Len(queue) = QueueDepth
    /\ mem' = Release(Head(hand[s]).tel, mem)
    /\ hand' = [hand EXCEPT ![s] = <<>>]
    /\ UNCHANGED <<tel, queue, item>>

\* aetus_enqueue_telemetry_from_isr copies the struct byte by byte; it refuses
\* more metrics than fit inline, and strings and bytes.
EnqueueFromIsr(s) ==
    /\ Intact /\ IsrSafeEnqueue
    /\ tel[s].count <= Inline
    /\ \A i \in 1..tel[s].count : tel[s].inline[i].kind # "blob"
    /\ Len(queue) < QueueDepth
    /\ queue' = Append(queue, ItemOf(tel[s], s))
    /\ UNCHANGED <<tel, hand, item, mem>>

-------------------------------------------------------------------------------
(* The uploader: drain_queue, as far as the item is concerned.             *)

Receive ==
    /\ Intact /\ item = <<>> /\ queue # <<>>
    /\ item' = <<Head(queue)>>
    /\ queue' = Tail(queue)
    /\ UNCHANGED <<tel, hand, mem>>

\* The POST failed and there is room.
Requeue ==
    /\ Intact /\ item # <<>> /\ Len(queue) < QueueDepth
    /\ queue' = item \o queue
    /\ item' = <<>>
    /\ UNCHANGED <<tel, hand, mem>>

\* The item was uploaded, dropped, or could not be encoded.
ReleaseItem ==
    /\ Intact /\ item # <<>>
    /\ mem' = Release(Head(item).tel, mem)
    /\ item' = <<>>
    /\ UNCHANGED <<tel, hand, queue>>

-------------------------------------------------------------------------------

Next ==
    \/ \E s \in Structs :
          \/ \E v \in Values : AddScalar(s, v) \/ AddBlob(s, v)
          \/ AddEmptyBytes(s) \/ AddBlobFails(s) \/ Deinit(s)
          \/ EnqueueCopy(s) \/ EnqueueCopyFails(s) \/ Send(s) \/ SendTimeout(s)
          \/ EnqueueFromIsr(s)
    \/ Receive \/ Requeue \/ ReleaseItem

Spec == Init /\ [][Next]_vars

-------------------------------------------------------------------------------
(* Properties.                                                             *)

\* The places where a struct is kept.
Holders ==
    ({"struct", "hand"} \X Structs) \cup ({"queue"} \X DOMAIN queue) \cup {<<"item", 0>>}

\* The struct kept there.
Kept(h) ==
    CASE h[1] = "struct" -> tel[h[2]]
      [] h[1] = "hand"   -> IF hand[h[2]] = <<>> THEN EmptyTelemetry ELSE Head(hand[h[2]]).tel
      [] h[1] = "queue"  -> queue[h[2]].tel
      [] h[1] = "item"   -> IF item = <<>> THEN EmptyTelemetry ELSE Head(item).tel

References == UNION {{<<h, p>> : p \in Pointers(Kept(h), mem)} : h \in Holders}

\* Every block on the heap is pointed at, and from one place only: append_metric,
\* the copy, release_queue_item and aetus_telemetry_deinit leak nothing, and
\* hand nothing to two owners, even when allocations fail.  The one exception is
\* the table that a failed aetus_telemetry_add_string() left in a struct and the
\* ISR path then copied: of the two that share it, one uses no slot of it.
\* (Stated for the states before that exception, or a failed copy, has freed a
\* block under its owner.)
BlocksHaveOneOwner == Intact =>
    /\ DOMAIN mem \subseteq {r[2][2] : r \in References}
    /\ \A q, r \in References :
          q # r /\ q[2][2] = r[2][2] =>
              /\ q[2][1] = 0 /\ r[2][1] = 0
              /\ Kept(q[1]).count <= Inline \/ Kept(r[1]).count <= Inline

\* An item says until it is released what the caller's struct said when it was
\* enqueued, whatever the caller does with the struct in the meantime.
QueuedIsSnapshot ==
    \A x \in Items : View(x.tel, mem) = x.said

\* firmware/esp32-aetus/README.md: the enqueue functions copy the message, so that
\* callers may reuse their structs after the call returns: nothing but the
\* caller's own aetus_telemetry_deinit() frees what its struct points at.
StructsStayValid == \A s \in Structs : Live(tel[s], mem)
===============================================================================
