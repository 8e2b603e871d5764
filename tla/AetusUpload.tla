------------------------------ MODULE AetusUpload ------------------------------
(***************************************************************************)
(* The upload runtime of the firmware component (aetus.c) once             *)
(* aetus_start() has succeeded: producer tasks and ISRs that enqueue       *)
(* messages, the uploader task that drains the queue by HTTP POST, the     *)
(* upload timer, the tasks that call aetus_flush(), and the part of the    *)
(* server a POST reaches (the raw row keyed by device, boot and sequence). *)
(*                                                                         *)
(* One action is one step between two points where another task can run:  *)
(* a FreeRTOS call, a critical section of the sample pool, a malloc or a   *)
(* free, or an event on the network.                                       *)
(***************************************************************************)
EXTENDS Integers, Sequences, FiniteSets, SignalSamplePool

CONSTANTS
    Producers,      \* tasks that call aetus_enqueue_*()
    Flushers,       \* tasks that call aetus_flush()
    Telemetry,      \* messages of kind AETUS_QUEUE_ITEM_TELEMETRY
    Status,         \* messages of kind AETUS_QUEUE_ITEM_STATUS
    Signals,        \* messages of kind AETUS_QUEUE_ITEM_SIGNAL_FRAME
    Size,           \* Size[m]: frame->samples_size of a signal frame m
    Unencodable,    \* messages for which encode_queue_item() returns false
    BadRequests,    \* messages the server answers with 400
    QueueDepth,     \* config.queue_depth
    NoMsg           \* no message

Messages == Telemetry \cup Status \cup Signals

ASSUME UploadAssumption ==
    /\ Telemetry \cap Status = {}
    /\ Telemetry \cap Signals = {}
    /\ Status \cap Signals = {}
    /\ Size \in [Signals -> Nat \ {0}]
    /\ Unencodable \subseteq Messages
    /\ BadRequests \subseteq Messages
    /\ QueueDepth \in Nat \ {0}
    /\ NoMsg \notin Messages

VARIABLES
    queue,          \* s_ctx.queue, a FreeRTOS queue
    bits,           \* the DUE, FLUSH, DONE and CONNECTED bits of s_ctx.events
    sequence,       \* s_ctx.sequence
    stats,          \* s_ctx.signal_pool_stats
    heap,           \* signal messages whose sample block is on the heap
    upc,            \* where uploader_task / drain_queue is
    item,           \* drain_queue's local item
    req,            \* the current HTTP request, and the result of post_payload
    ppc,            \* where each producer is in aetus_enqueue_*()
    pmsg,           \* the message it is enqueuing
    fpc,            \* where each flusher is in aetus_flush()
    late,           \* requests the uploader gave up on, still under way
    row,            \* raw_device_events of this boot: sequence -> message
    (* history variables, read by no guard except that `used' makes a      *)
    (* message a unique call of an enqueue function                        *)
    used,           \* messages some enqueue call has been made for
    accepted,       \* <<message, sequence>> of every POST the server accepted
    acked,          \* messages whose POST returned 2xx, in order
    dropped,        \* messages drain_queue dropped because the queue was full
    unsent,         \* messages drain_queue dropped because encoding failed
    round,          \* flush calls of the current pair, per flusher
    cover           \* the drain that began after the first of the pair

queueVars  == <<queue, used>>
poolVars   == <<stats, heap>>
drainVars  == <<upc, item, req, sequence>>
serverVars == <<late, row, accepted>>
fateVars   == <<acked, dropped, unsent>>
prodVars   == <<ppc, pmsg>>
flushVars  == <<fpc, round, cover>>
vars == <<queue, bits, sequence, stats, heap, upc, item, req, ppc, pmsg, fpc,
          late, row, used, accepted, acked, dropped, unsent,
          round, cover>>

Triggers == {"DUE", "FLUSH"}

Init ==
    /\ queue = <<>> /\ bits = {} /\ sequence = 0
    /\ stats = ResetStats /\ heap = {}
    /\ upc = "loop" /\ item = NoMsg /\ req = "none"
    /\ ppc = [p \in Producers |-> "idle"] /\ pmsg = [p \in Producers |-> NoMsg]
    /\ fpc = [f \in Flushers |-> "idle"]
    /\ late = {} /\ row = [s \in {} |-> NoMsg]
    /\ used = {} /\ accepted = {}
    /\ acked = <<>> /\ dropped = {} /\ unsent = {}
    /\ round = [f \in Flushers |-> 0] /\ cover = [f \in Flushers |-> "none"]

-------------------------------------------------------------------------------
(* The event group (FreeRTOS, external).  xEventGroupSetBits() unblocks    *)
(* every task whose wait it satisfies and clears their bits, before it     *)
(* returns; a task that is not blocked yet sees what is left.              *)

\* Set DUE or FLUSH: uploader_task waits for any of the two, clear on exit.
SetTrigger(bit) ==
    \/ /\ upc = "wait"
       /\ upc' = "drain"
       /\ bits' = bits \ Triggers
    \/ /\ upc # "wait"
       /\ bits' = bits \cup {bit}
       /\ upc' = upc

\* Set DONE: every flusher that is blocked returns, clear on exit.
SetDone ==
    LET waiting == {f \in Flushers : fpc[f] = "waiting"}
    IN  /\ fpc' = [f \in Flushers |-> IF f \in waiting THEN "ok" ELSE fpc[f]]
        /\ bits' = IF waiting = {} THEN bits \cup {"DONE"} ELSE bits \ {"DONE"}

-------------------------------------------------------------------------------
(* Producers: aetus_enqueue_telemetry, _status, _signal_frame.             *)

\* Telemetry and status: the item is built, xQueueSend() comes next.
EnqueueCall(p, m) ==
    /\ ppc[p] = "idle" /\ m \in (Telemetry \cup Status) \ used
    /\ used' = used \cup {m}
    /\ ppc' = [ppc EXCEPT ![p] = "send"]
    /\ pmsg' = [pmsg EXCEPT ![p] = m]
    /\ UNCHANGED <<queue, bits, fateVars, poolVars, drainVars, serverVars, flushVars>>

\* A signal frame: pvPortMalloc() of the sample block succeeds ...
SignalAlloc(p, m) ==
    /\ ppc[p] = "idle" /\ m \in Signals \ used
    /\ used' = used \cup {m}
    /\ heap' = heap \cup {m}
    /\ ppc' = [ppc EXCEPT ![p] = "noteAlloc"]
    /\ pmsg' = [pmsg EXCEPT ![p] = m]
    /\ UNCHANGED <<queue, bits, stats, fateVars, drainVars, serverVars, flushVars>>

\* ... or fails: the call returns ESP_ERR_NO_MEM.
SignalAllocFails(p, m) ==
    /\ ppc[p] = "idle" /\ m \in Signals \ used
    /\ used' = used \cup {m}
    /\ stats' = NoteAllocFailure(stats)
    /\ UNCHANGED <<queue, bits, heap, prodVars, fateVars, drainVars, serverVars, flushVars>>

SignalNoteAlloc(p) ==
    /\ ppc[p] = "noteAlloc"
    /\ stats' = NoteAlloc(stats, Size[pmsg[p]])
    /\ ppc' = [ppc EXCEPT ![p] = "send"]
    /\ UNCHANGED <<queueVars, bits, heap, pmsg, fateVars, drainVars, serverVars, flushVars>>

\* Mutant of Send: the queue is not checked for room.
SendUnchecked(p) ==
    /\ ppc[p] = "send"
    /\ queue' = Append(queue, pmsg[p])
    /\ ppc' = [ppc EXCEPT ![p] = "idle"]
    /\ pmsg' = [pmsg EXCEPT ![p] = NoMsg]
    /\ UNCHANGED <<used, bits, poolVars, fateVars, drainVars, serverVars, flushVars>>

\* xQueueSend() finds room, at once or while it blocks.
Send(p) ==
    /\ ppc[p] = "send" /\ Len(queue) < QueueDepth
    /\ queue' = Append(queue, pmsg[p])
    /\ ppc' = [ppc EXCEPT ![p] = "idle"]
    /\ pmsg' = [pmsg EXCEPT ![p] = NoMsg]
    /\ UNCHANGED <<used, bits, poolVars, fateVars, drainVars, serverVars, flushVars>>

\* xQueueSend() times out on a full queue.
SendTimeout(p) ==
    /\ ppc[p] = "send" /\ Len(queue) = QueueDepth
    /\ \/ /\ pmsg[p] \in Signals
          /\ stats' = NoteQueueSendFailure(stats)
          /\ ppc' = [ppc EXCEPT ![p] = "free"] /\ pmsg' = pmsg
       \/ /\ pmsg[p] \notin Signals
          /\ ppc' = [ppc EXCEPT ![p] = "idle"]
          /\ pmsg' = [pmsg EXCEPT ![p] = NoMsg]
          /\ stats' = stats
    /\ UNCHANGED <<queueVars, bits, heap, fateVars, drainVars, serverVars, flushVars>>

\* release_queue_item() in the producer: vPortFree(), then the statistics.
ProducerFree(p) ==
    /\ ppc[p] = "free"
    /\ heap' = heap \ {pmsg[p]}
    /\ ppc' = [ppc EXCEPT ![p] = "noteRelease"]
    /\ UNCHANGED <<queueVars, bits, stats, pmsg, fateVars, drainVars, serverVars, flushVars>>

ProducerNoteRelease(p) ==
    /\ ppc[p] = "noteRelease"
    /\ stats' = NoteRelease(stats, Size[pmsg[p]])
    /\ ppc' = [ppc EXCEPT ![p] = "idle"]
    /\ pmsg' = [pmsg EXCEPT ![p] = NoMsg]
    /\ UNCHANGED <<queueVars, bits, heap, fateVars, drainVars, serverVars, flushVars>>

\* aetus_enqueue_telemetry_from_isr / aetus_enqueue_status_from_isr: the copy
\* into s_isr_item and xQueueSendFromISR() are one critical section.
EnqueueFromIsr(m) ==
    /\ m \in (Telemetry \cup Status) \ used
    /\ used' = used \cup {m}
    /\ queue' = IF Len(queue) < QueueDepth THEN Append(queue, m) ELSE queue
    /\ UNCHANGED <<bits, poolVars, prodVars, fateVars, drainVars, serverVars, flushVars>>

-------------------------------------------------------------------------------
(* The uploader task.                                                      *)

\* uploader_task calls xEventGroupWaitBits(DUE | FLUSH, clear on exit, any).
UploaderWait ==
    /\ upc = "loop"
    /\ upc' = IF bits \cap Triggers = {} THEN "wait" ELSE "drain"
    /\ bits' = bits \ Triggers
    /\ UNCHANGED <<queueVars, item, req, sequence, poolVars, prodVars, fateVars, serverVars, flushVars>>

\* drain_queue() is entered.
DrainBegin ==
    /\ upc = "drain"
    /\ upc' = "connect"
    /\ cover' = [f \in Flushers |-> IF cover[f] = "none" THEN "running" ELSE cover[f]]
    /\ UNCHANGED <<queueVars, bits, item, req, sequence, poolVars, prodVars, fateVars, serverVars,
                   fpc, round>>

\* wifi_wait_connected() returns ESP_OK.
WifiConnected ==
    /\ upc = "connect" /\ "CONNECTED" \in bits
    /\ upc' = "receive"
    /\ UNCHANGED <<queueVars, bits, item, req, sequence, poolVars, prodVars, fateVars, serverVars, flushVars>>

\* Mutant of WifiWaitFails: the early return forgets to set DONE.
WifiWaitFailsSilently ==
    /\ upc = "connect" /\ "CONNECTED" \notin bits
    /\ upc' = "loop"
    /\ UNCHANGED <<queueVars, bits, item, req, sequence, poolVars, prodVars, fateVars, serverVars, flushVars>>

\* wifi_wait_connected() fails or times out: the early return of drain_queue.
WifiWaitFails ==
    /\ upc = "connect" /\ "CONNECTED" \notin bits
    /\ upc' = "done"
    /\ UNCHANGED <<queueVars, bits, item, req, sequence, poolVars, prodVars, fateVars, serverVars, flushVars>>

\* xQueueReceive(..., 0)
Receive ==
    /\ upc = "receive"
    /\ \/ /\ queue # <<>>
          /\ item' = Head(queue) /\ queue' = Tail(queue)
          /\ upc' = "encode"
       \/ /\ queue = <<>>
          /\ upc' = "done" /\ UNCHANGED <<item, queue>>
    /\ UNCHANGED <<used, bits, req, sequence, poolVars, prodVars, fateVars, serverVars, flushVars>>

\* encode_queue_item() fails: the message is released without a retry.
EncodeFails ==
    /\ upc = "encode" /\ item \in Unencodable
    /\ unsent' = unsent \cup {item}
    /\ stats' = IF item \in Signals THEN NoteValidationFailure(stats) ELSE stats
    /\ upc' = "release"
    /\ UNCHANGED <<queueVars, bits, item, req, sequence, heap, acked, dropped, prodVars, serverVars,
                   flushVars>>

\* The event is encoded with the current sequence and post_payload() sends it.
Post ==
    /\ upc = "encode" /\ item \notin Unencodable
    /\ req' = "sent"
    /\ upc' = "await"
    /\ UNCHANGED <<queueVars, bits, item, sequence, poolVars, prodVars, fateVars, serverVars, flushVars>>

\* Mutant of PostOk: the sequence number is used again.
PostOkKeepsSequence ==
    /\ upc = "await" /\ req = "accepted"
    /\ sequence' = sequence
    /\ acked' = Append(acked, item)
    /\ stats' = IF item \in Signals THEN NoteUploadSuccess(stats) ELSE stats
    /\ req' = "none"
    /\ upc' = "release"
    /\ UNCHANGED <<queueVars, bits, item, heap, dropped, unsent, prodVars, serverVars, flushVars>>

\* post_payload() returns ESP_OK: the response was 2xx.
PostOk ==
    /\ upc = "await" /\ req = "accepted"
    /\ sequence' = sequence + 1
    /\ acked' = Append(acked, item)
    /\ stats' = IF item \in Signals THEN NoteUploadSuccess(stats) ELSE stats
    /\ req' = "none"
    /\ upc' = "release"
    /\ UNCHANGED <<queueVars, bits, item, heap, dropped, unsent, prodVars, serverVars, flushVars>>

\* post_payload() returns an error: a status outside 2xx, a connection error,
\* a timeout.  A request it gave up on may be lost or still reach the server.
PostFails ==
    /\ upc = "await"
    /\ late' \in IF req = "sent" THEN {late, late \cup {<<item, sequence>>}} ELSE {late}
    /\ req' = "failed"
    /\ upc' = "requeue"
    /\ UNCHANGED <<queueVars, bits, item, sequence, poolVars, prodVars, fateVars, row, accepted, flushVars>>

\* Mutant of Requeue: xQueueSend() instead of xQueueSendToFront().
RequeueAtBack ==
    /\ upc = "requeue"
    /\ \/ /\ Len(queue) < QueueDepth
          /\ queue' = Append(queue, item)
          /\ item' = NoMsg /\ req' = "none" /\ upc' = "done"
          /\ UNCHANGED <<dropped, stats>>
       \/ /\ Len(queue) = QueueDepth
          /\ dropped' = dropped \cup {item}
          /\ stats' = IF item \in Signals THEN NoteFinalDrop(stats) ELSE stats
          /\ upc' = "release" /\ UNCHANGED <<queue, item, req>>
    /\ UNCHANGED <<used, bits, sequence, heap, acked, unsent, prodVars, serverVars, flushVars>>

\* Mutant of Requeue: the loop breaks without requeueing or releasing.
RequeueForgotten ==
    /\ upc = "requeue"
    /\ item' = NoMsg /\ req' = "none" /\ upc' = "done"
    /\ UNCHANGED <<queue, dropped, stats>>
    /\ UNCHANGED <<used, bits, sequence, heap, acked, unsent, prodVars, serverVars, flushVars>>

\* xQueueSendToFront(..., 0), or the final drop when producers filled the queue.
Requeue ==
    /\ upc = "requeue"
    /\ \/ /\ Len(queue) < QueueDepth
          /\ queue' = <<item>> \o queue
          /\ item' = NoMsg /\ req' = "none" /\ upc' = "done"
          /\ UNCHANGED <<dropped, stats>>
       \/ /\ Len(queue) = QueueDepth
          /\ dropped' = dropped \cup {item}
          /\ stats' = IF item \in Signals THEN NoteFinalDrop(stats) ELSE stats
          /\ upc' = "release" /\ UNCHANGED <<queue, item, req>>
    /\ UNCHANGED <<used, bits, sequence, heap, acked, unsent, prodVars, serverVars, flushVars>>

\* The loop goes on after release_queue_item(), or ends after a failed POST.
AfterRelease == IF req = "failed" THEN "done" ELSE "receive"

\* release_queue_item(): a signal frame's block is freed, then accounted for.
\* (What it frees of a telemetry message is in TelemetryOwnership.)
Release ==
    /\ upc = "release"
    /\ \/ /\ item \in Signals
          /\ heap' = heap \ {item}
          /\ upc' = "noteRelease" /\ UNCHANGED <<item, req>>
       \/ /\ item \notin Signals
          /\ upc' = AfterRelease /\ item' = NoMsg /\ req' = "none"
          /\ heap' = heap
    /\ UNCHANGED <<queueVars, bits, sequence, stats, prodVars, fateVars, serverVars, flushVars>>

ReleaseNote ==
    /\ upc = "noteRelease"
    /\ stats' = NoteRelease(stats, Size[item])
    /\ upc' = AfterRelease /\ item' = NoMsg /\ req' = "none"
    /\ UNCHANGED <<queueVars, bits, sequence, heap, prodVars, fateVars, serverVars, flushVars>>

\* The end of drain_queue(): xEventGroupSetBits(DONE).
DrainEnd ==
    /\ upc = "done"
    /\ SetDone
    /\ upc' = "loop"
    /\ cover' = [f \in Flushers |-> IF cover[f] = "running" THEN "done" ELSE cover[f]]
    /\ UNCHANGED <<queueVars, item, req, sequence, poolVars, prodVars, fateVars, serverVars, round>>

-------------------------------------------------------------------------------
(* aetus_flush().                                                          *)

\* Mutant of FlushClear: a DONE bit left by an earlier drain is not cleared.
FlushWithoutClear(f) ==
    /\ fpc[f] = "idle"
    /\ fpc' = [fpc EXCEPT ![f] = "cleared"]
    /\ round' = [round EXCEPT ![f] = IF @ = 1 THEN 2 ELSE 1]
    /\ cover' = IF round[f] = 0 THEN [cover EXCEPT ![f] = "none"] ELSE cover
    /\ UNCHANGED <<queueVars, bits, poolVars, prodVars, fateVars, drainVars, serverVars>>

FlushClear(f) ==
    /\ fpc[f] = "idle"
    /\ bits' = bits \ {"DONE"}
    /\ fpc' = [fpc EXCEPT ![f] = "cleared"]
    /\ round' = [round EXCEPT ![f] = IF @ = 1 THEN 2 ELSE 1]
    /\ cover' = IF round[f] = 0 THEN [cover EXCEPT ![f] = "none"] ELSE cover
    /\ UNCHANGED <<queueVars, poolVars, prodVars, fateVars, drainVars, serverVars>>

FlushSet(f) ==
    /\ fpc[f] = "cleared"
    /\ SetTrigger("FLUSH")
    /\ fpc' = [fpc EXCEPT ![f] = "requested"]
    /\ UNCHANGED <<queueVars, item, req, sequence, poolVars, prodVars, fateVars, serverVars, round, cover>>

FlushWait(f) ==
    /\ fpc[f] = "requested"
    /\ fpc' = [fpc EXCEPT ![f] = IF "DONE" \in bits THEN "ok" ELSE "waiting"]
    /\ bits' = bits \ {"DONE"}
    /\ UNCHANGED <<queueVars, poolVars, prodVars, fateVars, drainVars, serverVars, round, cover>>

\* The call returns ESP_OK.
FlushOk(f) ==
    /\ fpc[f] = "ok"
    /\ fpc' = [fpc EXCEPT ![f] = "idle"]
    /\ round' = [round EXCEPT ![f] = IF @ = 1 THEN 1 ELSE 0]
    /\ UNCHANGED <<queueVars, bits, poolVars, prodVars, fateVars, drainVars, serverVars, cover>>

\* The call returns ESP_ERR_TIMEOUT.
FlushTimeout(f) ==
    /\ fpc[f] = "waiting"
    /\ fpc' = [fpc EXCEPT ![f] = "idle"]
    /\ round' = [round EXCEPT ![f] = 0]
    /\ UNCHANGED <<queueVars, bits, poolVars, prodVars, fateVars, drainVars, serverVars, cover>>

\* upload_timer_callback
TimerFires ==
    /\ SetTrigger("DUE")
    /\ UNCHANGED <<queueVars, item, req, sequence, poolVars, prodVars, fateVars, serverVars, flushVars>>

-------------------------------------------------------------------------------
(* The network and the server.                                             *)

\* wifi_event_handler: got an address, or lost the access point.
WifiUp ==
    /\ bits' = bits \cup {"CONNECTED"}
    /\ UNCHANGED <<queueVars, poolVars, prodVars, fateVars, drainVars, serverVars, flushVars>>

WifiDown ==
    /\ bits' = bits \ {"CONNECTED"}
    /\ UNCHANGED <<queueVars, poolVars, prodVars, fateVars, drainVars, serverVars, flushVars>>

\* The event reaches raw_device_events, an upsert on (device, boot, sequence).
Store(m, s) ==
    /\ accepted' = accepted \cup {<<m, s>>}
    /\ row' = [n \in DOMAIN row \cup {s} |-> IF n = s THEN m ELSE row[n]]

ServerAccepts ==
    /\ upc = "await" /\ req = "sent" /\ item \notin BadRequests
    /\ Store(item, sequence)
    /\ req' = "accepted"
    /\ UNCHANGED <<queueVars, bits, upc, item, sequence, poolVars, prodVars, fateVars, late, flushVars>>

\* The server answers 400; any other refusal is PostFails.
ServerAnswers400 ==
    /\ upc = "await" /\ req = "sent" /\ item \in BadRequests
    /\ req' = "rejected"
    /\ UNCHANGED <<queueVars, bits, upc, item, sequence, poolVars, prodVars, fateVars, late, row,
                   accepted, flushVars>>

\* A request the device no longer waits for is served, or refused.
ServerHandlesLate(r) ==
    /\ r \in late
    /\ late' = late \ {r}
    /\ \/ r[1] \notin BadRequests /\ Store(r[1], r[2])
       \/ UNCHANGED <<accepted, row>>
    /\ UNCHANGED <<queueVars, bits, poolVars, prodVars, fateVars, drainVars, flushVars>>

-------------------------------------------------------------------------------

Produce(p) ==
    \/ \E m \in Messages : EnqueueCall(p, m) \/ SignalAlloc(p, m) \/ SignalAllocFails(p, m)
    \/ SignalNoteAlloc(p) \/ Send(p) \/ SendTimeout(p)
    \/ ProducerFree(p) \/ ProducerNoteRelease(p)

Upload ==
    \/ UploaderWait \/ DrainBegin \/ WifiConnected \/ WifiWaitFails \/ Receive
    \/ EncodeFails \/ Post \/ PostOk \/ PostFails \/ Requeue \/ Release
    \/ ReleaseNote \/ DrainEnd

Flush(f) == FlushClear(f) \/ FlushSet(f) \/ FlushWait(f) \/ FlushOk(f) \/ FlushTimeout(f)

Environment ==
    \/ TimerFires \/ WifiUp \/ WifiDown \/ ServerAccepts \/ ServerAnswers400
    \/ \E r \in late : ServerHandlesLate(r)
    \/ \E m \in Messages : EnqueueFromIsr(m)

Next ==
    \/ \E p \in Producers : Produce(p)
    \/ Upload
    \/ \E f \in Flushers : Flush(f)
    \/ Environment

Spec == Init /\ [][Next]_vars

-------------------------------------------------------------------------------
(* Fairness.  Tasks run when they are ready and calls with a timeout end;  *)
(* the FreeRTOS timer is periodic.  Nothing obliges a producer, a flush    *)
(* call or the radio to start anything.  SF on the server's side says only *)
(* that the service does not refuse or lose every attempt for ever.        *)

Fairness ==
    /\ WF_vars(Upload)
    /\ WF_vars(TimerFires)
    /\ \A f \in Flushers : WF_vars(FlushSet(f) \/ FlushWait(f) \/ FlushOk(f))

ServerFairness == SF_vars(ServerAccepts) /\ SF_vars(PostOk)

LiveSpec == Spec /\ Fairness /\ ServerFairness

-------------------------------------------------------------------------------
(* Properties.                                                             *)

\* The messages of a sequence.
Members(s) == {s[i] : i \in DOMAIN s}

\* The uploader holds a message whose fate is still open.
Holding == upc \in {"encode", "await", "requeue"}

\* What the runtime still has to upload, oldest first.
Pending == IF Holding THEN <<item>> \o queue ELSE queue

\* Every variable has a value of the type the code gives it.
TypeOK ==
    /\ queue \in Seq(Messages) /\ Len(queue) <= QueueDepth
    /\ bits \subseteq {"DUE", "FLUSH", "DONE", "CONNECTED"}
    /\ sequence \in Nat
    /\ stats \in StatsType
    /\ heap \subseteq Signals
    /\ upc \in {"loop", "wait", "drain", "connect", "receive", "encode", "await",
                "requeue", "release", "noteRelease", "done"}
    /\ item \in Messages \cup {NoMsg}
    /\ item = NoMsg <=> ~(Holding \/ upc \in {"release", "noteRelease"})
    /\ upc = "noteRelease" => item \in Signals
    /\ req \in {"none", "sent", "accepted", "rejected", "failed"}
    /\ ppc \in [Producers -> {"idle", "noteAlloc", "send", "free", "noteRelease"}]
    /\ pmsg \in [Producers -> Messages \cup {NoMsg}]
    /\ \A p \in Producers :
          /\ pmsg[p] = NoMsg <=> ppc[p] = "idle"
          /\ ppc[p] \in {"noteAlloc", "free", "noteRelease"} => pmsg[p] \in Signals
    /\ fpc \in [Flushers -> {"idle", "cleared", "requested", "waiting", "ok"}]
    /\ late \subseteq Messages \X Nat
    /\ accepted \subseteq Messages \X Nat
    /\ DOMAIN row \subseteq Nat /\ \A s \in DOMAIN row : row[s] \in Messages
    /\ used \subseteq Messages
    /\ acked \in Seq(Messages) /\ dropped \subseteq Messages /\ unsent \subseteq Messages
    /\ round \in [Flushers -> 0..2]
    /\ cover \in [Flushers -> {"none", "running", "done"}]

\* Two different events are accepted under one sequence number only when the
\* uploader finally dropped one of them: sequence moves on after a 2xx only,
\* so a failed message keeps its number for as long as it keeps its place at
\* the front of the queue (drain_queue, "requeueing").
KeySharedOnlyAfterDrop ==
    \A a, b \in accepted :
        a[2] = b[2] /\ a[1] # b[1] => a[1] \in dropped \/ b[1] \in dropped

\* The row of an acknowledged event holds that event, unless a late request of
\* a finally dropped message with the same sequence number overwrote it.
AckedRowKept ==
    \A i \in DOMAIN acked :
        /\ (i - 1) \in DOMAIN row
        /\ row[i - 1] = acked[i] \/ row[i - 1] \in dropped

\* The message that the next POST of the current sequence number carries.
Front == IF Holding THEN item ELSE IF queue # <<>> THEN Head(queue) ELSE NoMsg

\* The strengthening that makes the two properties above inductive: whatever was
\* ever sent under a sequence number and was not dropped is the message that
\* got, or is to get, the acknowledgement for that number.
KeyInv ==
    /\ sequence = Len(acked)
    /\ \A a \in accepted \cup late :
          /\ a[1] \notin Unencodable
          /\ a[2] <= sequence
          /\ a[2] = sequence => a[1] \in dropped \cup {Front}
          /\ a[2] < sequence => a[1] \in dropped \cup {acked[a[2] + 1]}
    /\ req \in {"sent", "accepted", "rejected"} <=> upc = "await"
    /\ upc \in {"await", "requeue"} => item \notin Unencodable
    /\ req = "accepted" => sequence \in DOMAIN row
    /\ \A s \in DOMAIN row : <<row[s], s>> \in accepted
    /\ \A i \in DOMAIN acked : (i - 1) \in DOMAIN row

\* The strengthening the first-in-first-out line and the heap rest on: an enqueue
\* call's message is in one place only (a producer's local, the queue, the
\* uploader's local, or a final fate), and once in each place.
LineInv ==
    /\ Members(queue) \cup Members(acked) \cup dropped \cup unsent \subseteq used
    /\ \A i, j \in DOMAIN queue : queue[i] = queue[j] => i = j
    /\ item # NoMsg => item \in used /\ item \notin Members(queue)
    /\ \A p \in Producers :
          pmsg[p] # NoMsg =>
            /\ pmsg[p] \in used /\ pmsg[p] # item
            /\ pmsg[p] \notin Members(queue) \cup Members(acked) \cup dropped \cup unsent
            /\ \A q \in Producers : pmsg[p] = pmsg[q] => p = q

\* Two successive calls of aetus_flush() that return ESP_OK do enclose a whole
\* drain, whatever other tasks flush meanwhile (what the runtime contract test
\* relies on when it flushes twice before it reads the statistics).
TwoFlushesCoverADrain ==
    \A f \in Flushers : fpc[f] = "ok" /\ round[f] = 2 => cover[f] = "done"

\* drain_queue() is running.
Draining == upc \notin {"loop", "wait", "drain"}

\* The aetus_flush() call of task f has its wake-up: it is
\* about to return ESP_OK, or will find DONE set when it starts to wait.
Woken(f) == fpc[f] = "ok" \/ (fpc[f] \in {"cleared", "requested"} /\ "DONE" \in bits)

\* The strengthening of the property above: DONE is set when a drain ends, so
\* once the first call of a pair is woken no drain runs that began before it, and
\* the drain that wakes the second call began after the first.
FlushInv ==
    \A f \in Flushers :
        /\ round[f] \in IF fpc[f] = "idle" THEN {0, 1} ELSE {1, 2}
        /\ cover[f] = "none" /\ Draining =>
             ~(round[f] = 2 \/ (round[f] = 1 /\ (fpc[f] = "idle" \/ Woken(f))))
        /\ round[f] = 2 /\ Woken(f) => cover[f] = "done"

\* The upload runtime implements the first-in-first-out line: what the uploader
\* holds with an open fate is the front of the line, the final drop and the
\* failed encoding are the ways to give a message up.
Uplink == INSTANCE FifoUplink
            WITH pending <- Pending, lost <- dropped \cup unsent, Capacity <- QueueDepth + 1

ImplementsFifoUplink == Uplink!Spec

\* A sample block is on the heap exactly as long as a producer, the queue or the
\* uploader still needs it: no path of aetus_enqueue_signal_frame, drain_queue
\* and release_queue_item leaks a block, frees it early or frees it twice.
BlocksHaveAnOwner ==
    heap = {m \in Signals :
              \/ m \in Members(queue)
              \/ m = item /\ (Holding \/ upc = "release")
              \/ \E p \in Producers : m = pmsg[p] /\ ppc[p] \in {"noteAlloc", "send", "free"}}

\* The allocated_blocks statistic is the number of blocks on the heap up to the
\* critical sections that are still to come, and never saturates.
BlocksExact ==
    stats.allocated_blocks + Cardinality({p \in Producers : ppc[p] = "noteAlloc"})
      = Cardinality(heap) + Cardinality({p \in Producers : ppc[p] = "noteRelease"})
        + (IF upc = "noteRelease" THEN 1 ELSE 0)

\* Every release of a block is counted under exactly one of the four reasons.
ReleasesHaveAReason ==
    stats.queue_send_failure_release_count + stats.validation_failure_release_count
      + stats.upload_success_release_count + stats.final_drop_release_count
      = stats.release_count
        + Cardinality({p \in Producers : ppc[p] \in {"free", "noteRelease"}})
        + (IF upc \in {"release", "noteRelease"} /\ item \in Signals THEN 1 ELSE 0)

\* The strengthening of the two: only finitely many calls are under way and only
\* finitely many blocks allocated, however many tasks and messages there are.
PoolInv ==
    /\ IsFiniteSet({p \in Producers : ppc[p] # "idle"})
    /\ IsFiniteSet(heap)
    /\ BlocksExact
    /\ ReleasesHaveAReason

\* A blocked aetus_flush() returns even with an infinite timeout: a wake-up that
\* another flusher consumed is made up for by the next drain.
FlushReturns ==
    \A f \in Flushers : fpc[f] = "waiting" ~> fpc[f] # "waiting"

\* Once the link stays up, every queued message is acknowledged or dropped.
QueuedIsResolved ==
    <>[]("CONNECTED" \in bits) =>
        \A m \in Messages :
            m \in Members(queue) ~> m \in Members(acked) \cup dropped \cup unsent
===============================================================================
