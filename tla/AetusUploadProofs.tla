--------------------------- MODULE AetusUploadProofs ---------------------------
(***************************************************************************)
(* Theorems about the upload runtime, for any number of tasks, messages    *)
(* and queue places.                                                       *)
(***************************************************************************)
EXTENDS AetusUpload, TLAPS

\* Every critical section of the sample pool keeps the counters natural numbers.
LEMMA StatsStep ==
    ASSUME NEW st \in StatsType, NEW n \in Nat
    PROVE  /\ NoteAlloc(st, n) \in StatsType
           /\ NoteRelease(st, n) \in StatsType
           /\ NoteAllocFailure(st) \in StatsType
           /\ NoteQueueSendFailure(st) \in StatsType
           /\ NoteValidationFailure(st) \in StatsType
           /\ NoteUploadSuccess(st) \in StatsType
           /\ NoteFinalDrop(st) \in StatsType
<1>1. NoteAlloc(st, n) \in StatsType
  <2> DEFINE blocks == st.allocated_blocks + 1
             bytes  == st.allocated_bytes + n
             pkBlocks == PeakOf(st.peak_allocated_blocks, blocks)
             pkBytes  == PeakOf(st.peak_allocated_bytes, bytes)
  <2>1. blocks \in Nat /\ bytes \in Nat /\ pkBlocks \in Nat /\ pkBytes \in Nat
    BY DEF StatsType, PeakOf
  <2>2. NoteAlloc(st, n) = [st EXCEPT !.allocated_blocks = blocks,
                                      !.allocation_count = st.allocation_count + 1,
                                      !.allocated_bytes = bytes,
                                      !.peak_allocated_blocks = pkBlocks,
                                      !.peak_allocated_bytes = pkBytes]
    BY DEF NoteAlloc, StatsType
  <2>3. st.allocation_count + 1 \in Nat
    BY DEF StatsType
  <2> HIDE DEF blocks, bytes, pkBlocks, pkBytes
  <2> QED  BY <2>1, <2>2, <2>3 DEF StatsType
<1>2. NoteRelease(st, n) \in StatsType
  <2> DEFINE blocks == IF st.allocated_blocks > 0 THEN st.allocated_blocks - 1 ELSE st.allocated_blocks
             bytes  == IF st.allocated_bytes >= n THEN st.allocated_bytes - n ELSE 0
  <2>1. blocks \in Nat /\ bytes \in Nat /\ st.release_count + 1 \in Nat
    BY DEF StatsType
  <2>2. NoteRelease(st, n) = [st EXCEPT !.allocated_blocks = blocks,
                                        !.allocated_bytes = bytes,
                                        !.release_count = st.release_count + 1]
    BY DEF NoteRelease, StatsType
  <2> HIDE DEF blocks, bytes
  <2> QED  BY <2>1, <2>2 DEF StatsType
<1>3. /\ NoteAllocFailure(st) \in StatsType
      /\ NoteQueueSendFailure(st) \in StatsType
      /\ NoteValidationFailure(st) \in StatsType
      /\ NoteUploadSuccess(st) \in StatsType
      /\ NoteFinalDrop(st) \in StatsType
  BY DEF StatsType, NoteAllocFailure, NoteQueueSendFailure, NoteValidationFailure,
         NoteUploadSuccess, NoteFinalDrop
<1> QED  BY <1>1, <1>2, <1>3

\* The statistics start at zero.
LEMMA StatsInit == ResetStats \in StatsType
BY DEF ResetStats, StatsType

\* Every reachable state is well typed (TypeOK).
THEOREM TypeCorrect == Spec => []TypeOK
<1> USE UploadAssumption DEF Messages, Holding
<1>1. Init => TypeOK
  BY StatsInit DEF Init, TypeOK
<1>2. TypeOK /\ [Next]_vars => TypeOK'
  <2> SUFFICES ASSUME TypeOK, [Next]_vars
               PROVE  TypeOK'
    OBVIOUS
  <2> USE DEF TypeOK, queueVars, poolVars, drainVars, serverVars, fateVars, prodVars, flushVars
  <2>1. ASSUME NEW p \in Producers, NEW m \in Messages, EnqueueCall(p, m)
        PROVE  TypeOK'
    BY <2>1 DEF EnqueueCall
  <2>2. ASSUME NEW p \in Producers, NEW m \in Messages, SignalAlloc(p, m)
        PROVE  TypeOK'
    BY <2>2 DEF SignalAlloc
  <2>3. ASSUME NEW p \in Producers, NEW m \in Messages, SignalAllocFails(p, m)
        PROVE  TypeOK'
    BY <2>3, StatsStep DEF SignalAllocFails
  <2>4. ASSUME NEW p \in Producers, SignalNoteAlloc(p)
        PROVE  TypeOK'
    BY <2>4, StatsStep DEF SignalNoteAlloc
  <2>5. ASSUME NEW p \in Producers, Send(p)
        PROVE  TypeOK'
    BY <2>5 DEF Send
  <2>6. ASSUME NEW p \in Producers, SendTimeout(p)
        PROVE  TypeOK'
    <3>1. CASE pmsg[p] \in Signals
      <4>1. stats' \in StatsType /\ ppc' = [ppc EXCEPT ![p] = "free"] /\ pmsg' = pmsg
        BY <2>6, <3>1, StatsStep DEF SendTimeout
      <4> QED  BY <2>6, <3>1, <4>1 DEF SendTimeout
    <3>2. CASE pmsg[p] \notin Signals
      <4>1. /\ stats' = stats
            /\ ppc' = [ppc EXCEPT ![p] = "idle"] /\ pmsg' = [pmsg EXCEPT ![p] = NoMsg]
        BY <2>6, <3>2 DEF SendTimeout
      <4> QED  BY <2>6, <3>2, <4>1 DEF SendTimeout
    <3> QED  BY <3>1, <3>2
  <2>7. ASSUME NEW p \in Producers, ProducerFree(p)
        PROVE  TypeOK'
    BY <2>7 DEF ProducerFree
  <2>8. ASSUME NEW p \in Producers, ProducerNoteRelease(p)
        PROVE  TypeOK'
    BY <2>8, StatsStep DEF ProducerNoteRelease
  <2>9. ASSUME NEW m \in Messages, EnqueueFromIsr(m)
        PROVE  TypeOK'
    BY <2>9 DEF EnqueueFromIsr
  <2>10. CASE UploaderWait
    BY <2>10 DEF UploaderWait, Triggers
  <2>11. CASE DrainBegin
    BY <2>11 DEF DrainBegin
  <2>12. CASE WifiConnected
    BY <2>12 DEF WifiConnected
  <2>13. CASE WifiWaitFails
    BY <2>13 DEF WifiWaitFails
  <2>14. CASE Receive
    <3>1. CASE queue # <<>>
      <4>1. Head(queue) \in Messages /\ Tail(queue) \in Seq(Messages)
            /\ Len(Tail(queue)) <= QueueDepth
        BY <3>1
      <4> QED  BY <2>14, <3>1, <4>1 DEF Receive
    <3>2. CASE queue = <<>>
      BY <2>14, <3>2 DEF Receive
    <3> QED  BY <3>1, <3>2
  <2>15. CASE EncodeFails
    BY <2>15, StatsStep DEF EncodeFails
  <2>16. CASE Post
    BY <2>16 DEF Post
  <2>17. CASE PostOk
    BY <2>17, StatsStep DEF PostOk
  <2>18. CASE PostFails
    BY <2>18 DEF PostFails
  <2>19. CASE Requeue
    <3>1. CASE Len(queue) < QueueDepth
      <4>1. <<item>> \o queue \in Seq(Messages) /\ Len(<<item>> \o queue) <= QueueDepth
        BY <2>19, <3>1 DEF Requeue
      <4>2. /\ queue' = <<item>> \o queue /\ item' = NoMsg /\ req' = "none" /\ upc' = "done"
            /\ UNCHANGED <<dropped, stats>>
        BY <2>19, <3>1 DEF Requeue
      <4> QED  BY <2>19, <4>1, <4>2 DEF Requeue
    <3>2. CASE Len(queue) = QueueDepth
      BY <2>19, <3>2, StatsStep DEF Requeue
    <3>3. Len(queue) < QueueDepth \/ Len(queue) = QueueDepth
      OBVIOUS
    <3> QED  BY <3>1, <3>2, <3>3
  <2>20. CASE Release
    BY <2>20 DEF Release, AfterRelease
  <2>21. CASE ReleaseNote
    BY <2>21, StatsStep DEF ReleaseNote, AfterRelease
  <2>22. CASE DrainEnd
    BY <2>22 DEF DrainEnd, SetDone
  <2>23. ASSUME NEW f \in Flushers, FlushClear(f)
         PROVE  TypeOK'
    BY <2>23 DEF FlushClear
  <2>24. ASSUME NEW f \in Flushers, FlushSet(f)
         PROVE  TypeOK'
    BY <2>24 DEF FlushSet, SetTrigger, Triggers
  <2>25. ASSUME NEW f \in Flushers, FlushWait(f)
         PROVE  TypeOK'
    BY <2>25 DEF FlushWait
  <2>26. ASSUME NEW f \in Flushers, FlushOk(f)
         PROVE  TypeOK'
    BY <2>26 DEF FlushOk
  <2>27. ASSUME NEW f \in Flushers, FlushTimeout(f)
         PROVE  TypeOK'
    BY <2>27 DEF FlushTimeout
  <2>28. CASE TimerFires
    BY <2>28 DEF TimerFires, SetTrigger, Triggers
  <2>29. CASE WifiUp
    BY <2>29 DEF WifiUp
  <2>30. CASE WifiDown
    BY <2>30 DEF WifiDown
  <2>31. CASE ServerAccepts
    BY <2>31 DEF ServerAccepts, Store
  <2>32. CASE ServerAnswers400
    BY <2>32 DEF ServerAnswers400
  <2>33. ASSUME NEW r \in late, ServerHandlesLate(r)
         PROVE  TypeOK'
    <3>1. r = <<r[1], r[2]>> /\ r[1] \in Messages /\ r[2] \in Nat
      OBVIOUS
    <3>2. late' \subseteq Messages \X Nat
      BY <2>33 DEF ServerHandlesLate
    <3>3. CASE Store(r[1], r[2])
      BY <2>33, <3>1, <3>2, <3>3 DEF ServerHandlesLate, Store
    <3>4. CASE UNCHANGED <<accepted, row>>
      BY <2>33, <3>2, <3>4 DEF ServerHandlesLate
    <3> QED  BY <2>33, <3>3, <3>4 DEF ServerHandlesLate
  <2>34. CASE UNCHANGED vars
    BY <2>34 DEF vars
  <2> QED
    BY <2>1, <2>2, <2>3, <2>4, <2>5, <2>6, <2>7, <2>8, <2>9, <2>10, <2>11, <2>12, <2>13,
       <2>14, <2>15, <2>16, <2>17, <2>18, <2>19, <2>20, <2>21, <2>22, <2>23, <2>24, <2>25,
       <2>26, <2>27, <2>28, <2>29, <2>30, <2>31, <2>32, <2>33, <2>34
       DEF Next, Produce, Upload, Flush, Environment
<1> QED  BY <1>1, <1>2, PTL DEF Spec

-------------------------------------------------------------------------------
(* Sequence numbers.                                                       *)

\* What a step does that touches neither the requests, the fates nor the place
\* of the uploader inside the treatment of one message: at most it appends to
\* the queue, and KeyInv is kept.
LEMMA KeyFrame ==
    ASSUME TypeOK, KeyInv,
           UNCHANGED <<accepted, late, row, acked, dropped, sequence, req>>,
           Holding' <=> Holding, Holding => item' = item,
           upc' = "await" <=> upc = "await", upc' = "requeue" => upc = "requeue",
           queue' = queue \/ \E m \in Messages : queue' = Append(queue, m)
    PROVE  KeyInv'
<1>1. Front # NoMsg => Front' = Front
  <2>1. CASE Holding
    BY <2>1 DEF Front
  <2>2. CASE ~Holding /\ queue # <<>>
    <3>1. ASSUME NEW m \in Messages
          PROVE  Append(queue, m) # <<>> /\ Head(Append(queue, m)) = Head(queue)
      <4>1. queue \in Seq(Messages)
        BY DEF TypeOK
      <4> QED  BY <2>2, <4>1
    <3>2. queue' # <<>> /\ Head(queue') = Head(queue)
      BY <2>2, <3>1
    <3> QED  BY <2>2, <3>2 DEF Front
  <2>3. CASE ~Holding /\ queue = <<>>
    BY <2>3 DEF Front
  <2> QED  BY <2>1, <2>2, <2>3
<1>2. \A a \in accepted \cup late : a[1] # NoMsg
  BY UploadAssumption DEF TypeOK
<1>3. \A a \in accepted' \cup late' :
          /\ a[1] \notin Unencodable
          /\ a[2] <= sequence'
          /\ a[2] = sequence' => a[1] \in dropped' \cup {Front'}
          /\ a[2] < sequence' => a[1] \in dropped' \cup {acked'[a[2] + 1]}
  BY <1>1, <1>2 DEF KeyInv
<1>4. upc' \in {"await", "requeue"} => item' \notin Unencodable
  BY DEF KeyInv, Holding
<1> QED  BY <1>3, <1>4 DEF KeyInv

\* A step of a producer task.
LEMMA KeyProduce ==
    ASSUME TypeOK, KeyInv, NEW p \in Producers, Produce(p)
    PROVE  KeyInv'
<1> USE DEF queueVars, poolVars, drainVars, serverVars, fateVars, prodVars, flushVars
<1>1. UNCHANGED <<accepted, late, row, acked, dropped, sequence, req, upc, item>>
  BY DEF Produce, EnqueueCall, SignalAlloc, SignalAllocFails, SignalNoteAlloc, Send,
         SendTimeout, ProducerFree, ProducerNoteRelease
<1>2. queue' = queue \/ \E m \in Messages : queue' = Append(queue, m)
  <2>1. CASE Send(p)
    <3>1. pmsg[p] \in Messages
      BY <2>1 DEF Send, TypeOK
    <3> QED  BY <2>1, <3>1 DEF Send
  <2>2. CASE ~Send(p)
    BY <2>2 DEF Produce, EnqueueCall, SignalAlloc, SignalAllocFails, SignalNoteAlloc,
                SendTimeout, ProducerFree, ProducerNoteRelease
  <2> QED  BY <2>1, <2>2
<1> QED  BY <1>1, <1>2, KeyFrame DEF Holding

\* A step of a task in aetus_flush().
LEMMA KeyFlush ==
    ASSUME TypeOK, KeyInv, NEW f \in Flushers, Flush(f)
    PROVE  KeyInv'
<1> USE DEF queueVars, poolVars, drainVars, serverVars, fateVars, prodVars, flushVars
<1>1. UNCHANGED <<accepted, late, row, acked, dropped, sequence, req, item, queue>>
  BY DEF Flush, FlushClear, FlushSet, FlushWait, FlushOk, FlushTimeout
<1>2. upc' = upc \/ (upc = "wait" /\ upc' = "drain")
  BY DEF Flush, FlushClear, FlushSet, FlushWait, FlushOk, FlushTimeout, SetTrigger
<1> QED  BY <1>1, <1>2, KeyFrame DEF Holding

\* The steps of the uploader that send nothing and decide no fate.
LEMMA KeyUploadQuiet ==
    ASSUME TypeOK, KeyInv,
           \/ UploaderWait \/ DrainBegin \/ WifiConnected \/ WifiWaitFails
           \/ Release \/ ReleaseNote \/ DrainEnd
    PROVE  KeyInv'
<1> USE DEF queueVars, poolVars, drainVars, serverVars, fateVars, prodVars, flushVars
<1>1. CASE UploaderWait \/ DrainBegin \/ WifiConnected \/ WifiWaitFails \/ DrainEnd
  <2>1. UNCHANGED <<accepted, late, row, acked, dropped, sequence, req, item, queue>>
    BY <1>1 DEF UploaderWait, DrainBegin, WifiConnected, WifiWaitFails, DrainEnd
  <2>2. /\ upc \in {"loop", "drain", "connect", "done"}
        /\ upc' \in {"wait", "drain", "connect", "receive", "done", "loop"}
    BY <1>1 DEF UploaderWait, DrainBegin, WifiConnected, WifiWaitFails, DrainEnd
  <2> QED  BY <2>1, <2>2, KeyFrame DEF Holding
<1>2. CASE Release \/ ReleaseNote
  <2>1. UNCHANGED <<accepted, late, row, acked, dropped, sequence, queue>>
    BY <1>2 DEF Release, ReleaseNote
  <2>2. /\ upc \in {"release", "noteRelease"}
        /\ upc' \in {"noteRelease", "receive", "done"}
        /\ req' = req \/ req' = "none"
    BY <1>2 DEF Release, ReleaseNote, AfterRelease
  <2>3. Front' = Front
    BY <2>1, <2>2 DEF Front, Holding
  <2> QED  BY <2>1, <2>2, <2>3 DEF KeyInv
<1> QED  BY <1>1, <1>2

\* xQueueReceive(): the front of the line moves from the queue to the uploader.
LEMMA KeyReceive ==
    ASSUME TypeOK, KeyInv, Receive
    PROVE  KeyInv'
<1> USE DEF queueVars, poolVars, drainVars, serverVars, fateVars, prodVars, flushVars
<1>1. UNCHANGED <<accepted, late, row, acked, dropped, sequence, req>>
  BY DEF Receive
<1>2. Front' = Front /\ upc' \in {"encode", "done"}
  BY DEF Receive, Front, Holding
<1> QED  BY <1>1, <1>2 DEF KeyInv, Receive

\* The encoding fails: the message was never sent, so no request is about it.
LEMMA KeyEncodeFails ==
    ASSUME TypeOK, KeyInv, EncodeFails
    PROVE  KeyInv'
<1> USE DEF queueVars, poolVars, drainVars, serverVars, fateVars, prodVars, flushVars
<1>1. UNCHANGED <<accepted, late, row, acked, dropped, sequence, req>> /\ upc' = "release"
  BY DEF EncodeFails
<1>2. Front = item /\ item \in Unencodable
  BY DEF EncodeFails, Front, Holding
<1>3. \A a \in accepted \cup late : a[2] = sequence => a[1] \in dropped
  BY <1>2 DEF KeyInv
<1> QED  BY <1>1, <1>3 DEF KeyInv, EncodeFails

\* The request is sent, or fails and leaves a late request behind.
LEMMA KeyPost ==
    ASSUME TypeOK, KeyInv, Post \/ PostFails
    PROVE  KeyInv'
<1> USE DEF queueVars, poolVars, drainVars, serverVars, fateVars, prodVars, flushVars
<1>1. UNCHANGED <<accepted, row, acked, dropped, sequence, item, queue>>
  BY DEF Post, PostFails
<1>2. Front = item /\ Front' = item
  BY <1>1 DEF Post, PostFails, Front, Holding
<1>3. CASE Post
  BY <1>1, <1>2, <1>3 DEF Post, KeyInv
<1>4. CASE PostFails
  <2>1. item \notin Unencodable /\ sequence \in Nat
    BY <1>4 DEF PostFails, KeyInv, TypeOK
  <2>2. \A a \in accepted' \cup late' : a \in accepted \cup late \/ a = <<item, sequence>>
    BY <1>1, <1>4 DEF PostFails
  <2>3. \A a \in accepted' \cup late' :
          /\ a[1] \notin Unencodable
          /\ a[2] <= sequence
          /\ a[2] = sequence => a[1] \in dropped \cup {item}
          /\ a[2] < sequence => a[1] \in dropped \cup {acked[a[2] + 1]}
    BY <1>2, <2>1, <2>2 DEF KeyInv
  <2> QED  BY <1>1, <1>2, <1>4, <2>1, <2>3 DEF PostFails, KeyInv
<1> QED  BY <1>3, <1>4

\* 2xx: the number of the acknowledged message is closed.
LEMMA KeyPostOk ==
    ASSUME TypeOK, KeyInv, PostOk
    PROVE  KeyInv'
<1> USE DEF queueVars, poolVars, drainVars, serverVars, fateVars, prodVars, flushVars
<1>1. /\ UNCHANGED <<accepted, late, row, dropped, item, queue>>
      /\ sequence' = sequence + 1 /\ acked' = Append(acked, item)
      /\ req' = "none" /\ upc' = "release"
  BY DEF PostOk
<1>2. Front = item /\ sequence = Len(acked) /\ sequence \in DOMAIN row /\ item \in Messages
      /\ sequence \in Nat /\ acked \in Seq(Messages)
  BY UploadAssumption DEF PostOk, Front, Holding, KeyInv, TypeOK
<1>3. /\ sequence' = Len(acked')
      /\ \A n \in Nat : n < sequence => acked'[n + 1] = acked[n + 1]
      /\ acked'[sequence + 1] = item
      /\ \A i \in DOMAIN acked' : i \in DOMAIN acked \/ i = sequence + 1
  BY <1>1, <1>2
<1>4. ASSUME NEW a \in accepted' \cup late'
      PROVE  /\ a[1] \notin Unencodable
             /\ a[2] <= sequence'
             /\ a[2] = sequence' => a[1] \in dropped' \cup {Front'}
             /\ a[2] < sequence' => a[1] \in dropped' \cup {acked'[a[2] + 1]}
  <2>1. a \in accepted \cup late /\ a[2] \in Nat /\ a[2] <= sequence
    BY <1>1 DEF TypeOK, KeyInv
  <2>2. CASE a[2] = sequence
    BY <1>1, <1>2, <1>3, <2>1, <2>2 DEF KeyInv
  <2>3. CASE a[2] < sequence
    BY <1>1, <1>2, <1>3, <2>1, <2>3 DEF KeyInv
  <2> QED  BY <1>2, <2>1, <2>2, <2>3
<1>5. \A i \in DOMAIN acked' : (i - 1) \in DOMAIN row'
  BY <1>1, <1>2, <1>3 DEF KeyInv
<1>6. \A n \in DOMAIN row' : <<row'[n], n>> \in accepted'
  BY <1>1 DEF KeyInv
<1> QED  BY <1>1, <1>3, <1>4, <1>5, <1>6 DEF KeyInv

\* The failed message goes back to the front, or is dropped with its number.
LEMMA KeyRequeue ==
    ASSUME TypeOK, KeyInv, Requeue
    PROVE  KeyInv'
<1> USE DEF queueVars, poolVars, drainVars, serverVars, fateVars, prodVars, flushVars
<1>1. /\ UNCHANGED <<accepted, late, row, acked, sequence>> /\ dropped \subseteq dropped'
      /\ upc' \in {"done", "release"} /\ req' \in {"none", req} /\ req # "accepted"
      /\ ~(req \in {"sent", "accepted", "rejected"})
  BY DEF Requeue, KeyInv
<1>2. Front = item /\ item \in Messages /\ queue \in Seq(Messages)
  BY UploadAssumption DEF Requeue, Front, Holding, TypeOK
<1>3. item \in dropped' \cup {Front'}
  <2>1. CASE queue' = <<item>> \o queue /\ upc' = "done"
    <3>1. queue' # <<>> /\ Head(queue') = item
      BY <1>2, <2>1
    <3> QED  BY <2>1, <3>1 DEF Front, Holding
  <2>2. CASE dropped' = dropped \cup {item}
    BY <2>2
  <2> QED  BY <2>1, <2>2 DEF Requeue
<1>4. \A a \in accepted' \cup late' : a[2] = sequence => a[1] \in dropped' \cup {Front'}
  BY <1>1, <1>2, <1>3 DEF KeyInv
<1>5. \A a \in accepted' \cup late' :
          /\ a[1] \notin Unencodable
          /\ a[2] <= sequence'
          /\ a[2] = sequence' => a[1] \in dropped' \cup {Front'}
          /\ a[2] < sequence' => a[1] \in dropped' \cup {acked'[a[2] + 1]}
  BY <1>1, <1>4 DEF KeyInv
<1> QED  BY <1>1, <1>5 DEF KeyInv

\* A step of the server, of the network or of an interrupt.
LEMMA KeyEnvironment ==
    ASSUME TypeOK, KeyInv, Environment
    PROVE  KeyInv'
<1> USE DEF queueVars, poolVars, drainVars, serverVars, fateVars, prodVars, flushVars
<1>1. ASSUME TimerFires \/ WifiUp \/ WifiDown \/ \E m \in Messages : EnqueueFromIsr(m)
      PROVE  KeyInv'
  <2>1. UNCHANGED <<accepted, late, row, acked, dropped, sequence, req, item>>
    BY <1>1 DEF TimerFires, WifiUp, WifiDown, EnqueueFromIsr
  <2>2. upc' = upc \/ (upc = "wait" /\ upc' = "drain")
    BY <1>1 DEF TimerFires, WifiUp, WifiDown, EnqueueFromIsr, SetTrigger
  <2>3. queue' = queue \/ \E m \in Messages : queue' = Append(queue, m)
    BY <1>1 DEF TimerFires, WifiUp, WifiDown, EnqueueFromIsr
  <2> QED  BY <2>1, <2>2, <2>3, KeyFrame DEF Holding
<1>2. CASE ServerAnswers400
  <2>1. /\ UNCHANGED <<accepted, late, row, acked, dropped, sequence, upc, item, queue>>
        /\ req' = "rejected" /\ upc = "await"
    BY <1>2 DEF ServerAnswers400
  <2>2. Front' = Front
    BY <2>1 DEF Front, Holding
  <2> QED  BY <2>1, <2>2 DEF KeyInv
<1>3. CASE ServerAccepts
  <2>1. /\ UNCHANGED <<late, acked, dropped, sequence, upc, item, queue>>
        /\ req' = "accepted" /\ upc = "await" /\ accepted' = accepted \cup {<<item, sequence>>}
        /\ row' = [n \in DOMAIN row \cup {sequence} |-> IF n = sequence THEN item ELSE row[n]]
    BY <1>3 DEF ServerAccepts, Store
  <2>2. Front = item /\ Front' = item /\ item \notin Unencodable /\ sequence \in Nat
    BY <2>1 DEF Front, Holding, KeyInv, TypeOK
  <2>3. \A a \in accepted' \cup late' : a \in accepted \cup late \/ a = <<item, sequence>>
    BY <2>1
  <2>4. \A a \in accepted' \cup late' :
          /\ a[1] \notin Unencodable
          /\ a[2] <= sequence
          /\ a[2] = sequence => a[1] \in dropped \cup {item}
          /\ a[2] < sequence => a[1] \in dropped \cup {acked[a[2] + 1]}
    BY <2>2, <2>3 DEF KeyInv
  <2>5. \A n \in DOMAIN row' : <<row'[n], n>> \in accepted'
    BY <2>1 DEF KeyInv
  <2>6. DOMAIN row' = DOMAIN row \cup {sequence}
    BY <2>1
  <2> QED  BY <2>1, <2>2, <2>4, <2>5, <2>6 DEF KeyInv
<1>4. ASSUME NEW r \in late, ServerHandlesLate(r)
      PROVE  KeyInv'
  <2>1. UNCHANGED <<acked, dropped, sequence, upc, item, queue, req>>
    BY <1>4 DEF ServerHandlesLate
  <2>2. Front' = Front
    BY <2>1 DEF Front, Holding
  <2>3. r = <<r[1], r[2]>> /\ accepted' \cup late' \subseteq accepted \cup late
    BY <1>4 DEF ServerHandlesLate, Store, TypeOK
  <2>4. \A n \in DOMAIN row' : <<row'[n], n>> \in accepted'
    BY <1>4, <2>3 DEF ServerHandlesLate, Store, KeyInv
  <2>5. DOMAIN row \subseteq DOMAIN row'
    BY <1>4 DEF ServerHandlesLate, Store
  <2> QED  BY <2>1, <2>2, <2>3, <2>4, <2>5 DEF KeyInv
<1> QED  BY <1>1, <1>2, <1>3, <1>4 DEF Environment

\* The inductive invariant of the sequence numbers holds in every behaviour.
THEOREM KeyInvariant == Spec => []KeyInv
<1>1. Init => KeyInv
  BY DEF Init, KeyInv
<1>2. TypeOK /\ KeyInv /\ [Next]_vars => KeyInv'
  <2> SUFFICES ASSUME TypeOK, KeyInv, [Next]_vars
               PROVE  KeyInv'
    OBVIOUS
  <2>1. CASE \E p \in Producers : Produce(p)
    BY <2>1, KeyProduce
  <2>2. CASE Upload
    BY <2>2, KeyUploadQuiet, KeyReceive, KeyEncodeFails, KeyPost, KeyPostOk, KeyRequeue
       DEF Upload
  <2>3. CASE \E f \in Flushers : Flush(f)
    BY <2>3, KeyFlush
  <2>4. CASE Environment
    BY <2>4, KeyEnvironment
  <2>5. CASE UNCHANGED vars
    BY <2>5, KeyFrame DEF vars, Holding
  <2> QED  BY <2>1, <2>2, <2>3, <2>4, <2>5 DEF Next
<1> QED  BY <1>1, <1>2, TypeCorrect, PTL DEF Spec

\* Two events share a sequence number only when one of them was dropped because
\* the queue was full (drain_queue).
THEOREM KeyTheorem == Spec => []KeySharedOnlyAfterDrop
<1>1. TypeOK /\ KeyInv => KeySharedOnlyAfterDrop
  <2> SUFFICES ASSUME TypeOK, KeyInv, NEW a \in accepted, NEW b \in accepted,
                      a[2] = b[2], a[1] # b[1]
               PROVE  a[1] \in dropped \/ b[1] \in dropped
    BY DEF KeySharedOnlyAfterDrop
  <2>1. a[2] \in Nat /\ sequence \in Nat /\ a[2] <= sequence
    BY DEF TypeOK, KeyInv
  <2>2. CASE a[2] = sequence
    <3>1. a[1] \in dropped \cup {Front}
      BY <2>2 DEF KeyInv
    <3>2. b[1] \in dropped \cup {Front}
      BY <2>2 DEF KeyInv
    <3> QED  BY <3>1, <3>2
  <2>3. CASE a[2] < sequence
    <3>1. a[1] \in dropped \cup {acked[a[2] + 1]}
      BY <2>3 DEF KeyInv
    <3>2. b[1] \in dropped \cup {acked[a[2] + 1]}
      BY <2>3 DEF KeyInv
    <3> QED  BY <3>1, <3>2
  <2> QED  BY <2>1, <2>2, <2>3
<1> QED  BY <1>1, TypeCorrect, KeyInvariant, PTL

\* The raw row of an acknowledged event holds the event, or a dropped one.
THEOREM RowTheorem == Spec => []AckedRowKept
<1>1. TypeOK /\ KeyInv => AckedRowKept
  <2> SUFFICES ASSUME TypeOK, KeyInv, NEW i \in DOMAIN acked
               PROVE  /\ (i - 1) \in DOMAIN row
                      /\ row[i - 1] = acked[i] \/ row[i - 1] \in dropped
    BY DEF AckedRowKept
  <2>1. (i - 1) \in DOMAIN row /\ i \in 1..sequence
    <3>1. acked \in Seq(Messages) /\ DOMAIN acked = 1..Len(acked)
      BY DEF TypeOK
    <3> QED  BY <3>1 DEF KeyInv
  <2>2. <<row[i - 1], i - 1>> \in accepted /\ i - 1 < sequence /\ (i - 1) + 1 = i
    BY <2>1 DEF KeyInv, TypeOK
  <2> DEFINE a == <<row[i - 1], i - 1>>
  <2>3. a \in accepted \cup late /\ a[1] = row[i - 1] /\ a[2] = i - 1
    BY <2>2
  <2>4. a[1] \in dropped \cup {acked[a[2] + 1]}
    BY <2>2, <2>3 DEF KeyInv
  <2> QED  BY <2>1, <2>2, <2>3, <2>4
<1> QED  BY <1>1, TypeCorrect, KeyInvariant, PTL
===============================================================================
