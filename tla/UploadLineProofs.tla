---------------------------- MODULE UploadLineProofs ----------------------------
(***************************************************************************)
(* The upload runtime as a first-in-first-out line, the ownership of the   *)
(* sample blocks, aetus_flush() and the statistics of the sample pool, for *)
(* any number of tasks, messages and queue places and any sizes.           *)
(***************************************************************************)
EXTENDS AetusUploadProofs, MCAetusUpload, FiniteSetTheorems

-------------------------------------------------------------------------------
(* Sequences.                                                              *)

\* xQueueSend() adds one member, and repeats none that is new.
LEMMA AppendMembers ==
    ASSUME NEW S, NEW s \in Seq(S), NEW m \in S
    PROVE  /\ Members(Append(s, m)) = Members(s) \cup {m}
           /\ (/\ \A i, j \in DOMAIN s : s[i] = s[j] => i = j
               /\ m \notin Members(s))
              => \A i, j \in DOMAIN Append(s, m) :
                     Append(s, m)[i] = Append(s, m)[j] => i = j
<1> DEFINE t == Append(s, m)
<1>1. /\ DOMAIN s = 1..Len(s) /\ DOMAIN t = 1..(Len(s) + 1) /\ Len(s) \in Nat
      /\ \A i \in 1..Len(s) : t[i] = s[i]
      /\ t[Len(s) + 1] = m
  OBVIOUS
<1> HIDE DEF t
<1>2. DOMAIN t = DOMAIN s \cup {Len(s) + 1} /\ Len(s) + 1 \notin DOMAIN s
  BY <1>1
<1>3. Members(t) = Members(s) \cup {m}
  BY <1>1, <1>2 DEF Members
<1>4. ASSUME \A i, j \in DOMAIN s : s[i] = s[j] => i = j, m \notin Members(s)
      PROVE  \A i, j \in DOMAIN t : t[i] = t[j] => i = j
  BY <1>1, <1>2, <1>4 DEF Members
<1> QED  BY <1>3, <1>4 DEF t

\* xQueueReceive() takes the head, which is not among the rest.
LEMMA TailMembers ==
    ASSUME NEW S, NEW s \in Seq(S), s # <<>>
    PROVE  /\ Members(s) = {Head(s)} \cup Members(Tail(s))
           /\ (\A i, j \in DOMAIN s : s[i] = s[j] => i = j)
              => /\ Head(s) \notin Members(Tail(s))
                 /\ \A i, j \in DOMAIN Tail(s) : Tail(s)[i] = Tail(s)[j] => i = j
<1> DEFINE t == Tail(s)
<1>1. /\ DOMAIN s = 1..Len(s) /\ DOMAIN t = 1..(Len(s) - 1) /\ Len(s) \in Nat \ {0}
      /\ \A i \in 1..(Len(s) - 1) : t[i] = s[i + 1]
      /\ Head(s) = s[1]
  OBVIOUS
<1> HIDE DEF t
<1>2. ASSUME NEW m
      PROVE  m \in Members(s) <=> m = s[1] \/ m \in Members(t)
  <2>1. ASSUME m \in Members(s), m # s[1]
        PROVE  m \in Members(t)
    <3>1. PICK i \in DOMAIN s : m = s[i]
      BY <2>1 DEF Members
    <3>2. i - 1 \in DOMAIN t /\ t[i - 1] = m
      BY <1>1, <2>1, <3>1
    <3> QED  BY <3>2 DEF Members
  <2>2. ASSUME m \in Members(t)
        PROVE  m \in Members(s)
    <3>1. PICK i \in DOMAIN t : m = t[i]
      BY <2>2 DEF Members
    <3>2. i + 1 \in DOMAIN s /\ s[i + 1] = m
      BY <1>1, <3>1
    <3> QED  BY <3>2 DEF Members
  <2>3. s[1] \in Members(s)
    BY <1>1 DEF Members
  <2> QED  BY <2>1, <2>2, <2>3
<1>3. Members(s) = {Head(s)} \cup Members(t)
  BY <1>1, <1>2
<1>4. ASSUME \A i, j \in DOMAIN s : s[i] = s[j] => i = j
      PROVE  /\ Head(s) \notin Members(t)
             /\ \A i, j \in DOMAIN t : t[i] = t[j] => i = j
  <2>1. \A i \in DOMAIN t : i + 1 \in DOMAIN s /\ t[i] = s[i + 1] /\ i + 1 # 1 /\ 1 \in DOMAIN s
                            /\ i \in Int
    BY <1>1
  <2>2. Head(s) \notin Members(t)
    BY <1>1, <1>4, <2>1 DEF Members
  <2>3. ASSUME NEW i \in DOMAIN t, NEW j \in DOMAIN t, t[i] = t[j]
        PROVE  i = j
    <3>1. i + 1 = j + 1
      BY <1>4, <2>1, <2>3
    <3> QED  BY <2>1, <3>1
  <2> QED  BY <2>2, <2>3
<1> QED  BY <1>3, <1>4 DEF t

\* xQueueSendToFront() adds one member, and repeats none that is new.
LEMMA FrontMembers ==
    ASSUME NEW S, NEW s \in Seq(S), NEW m \in S
    PROVE  /\ Members(<<m>> \o s) = Members(s) \cup {m}
           /\ (/\ \A i, j \in DOMAIN s : s[i] = s[j] => i = j
               /\ m \notin Members(s))
              => \A i, j \in DOMAIN (<<m>> \o s) :
                     (<<m>> \o s)[i] = (<<m>> \o s)[j] => i = j
<1> DEFINE t == <<m>> \o s
<1>1. /\ t \in Seq(S) /\ t # <<>> /\ Head(t) = m /\ Tail(t) = s
      /\ DOMAIN t = 1..(Len(s) + 1) /\ DOMAIN s = 1..Len(s) /\ Len(s) \in Nat
      /\ t[1] = m /\ \A i \in 1..Len(s) : t[i + 1] = s[i]
  OBVIOUS
<1> HIDE DEF t
<1>2. Members(t) = Members(s) \cup {m}
  BY <1>1, TailMembers
<1>3. ASSUME \A i, j \in DOMAIN s : s[i] = s[j] => i = j, m \notin Members(s),
             NEW i \in DOMAIN t, NEW j \in DOMAIN t, t[i] = t[j]
      PROVE  i = j
  <2>1. \A k \in DOMAIN t : k = 1 \/ (k - 1 \in DOMAIN s /\ t[k] = s[k - 1] /\ k \in Int)
    BY <1>1
  <2>2. \A k \in DOMAIN s : s[k] # m
    BY <1>3 DEF Members
  <2>3. CASE i = 1 \/ j = 1
    BY <1>1, <1>3, <2>1, <2>2, <2>3
  <2>4. CASE i # 1 /\ j # 1
    <3>1. i - 1 = j - 1 /\ i \in Int /\ j \in Int
      BY <1>3, <2>1, <2>4
    <3> QED  BY <3>1
  <2> QED  BY <2>3, <2>4
<1> QED  BY <1>2, <1>3 DEF t

-------------------------------------------------------------------------------
(* aetus_flush().                                                          *)

\* A step that leaves DONE, the flush calls and the extent of the drain alone
\* keeps FlushInv.
LEMMA FlushFrame ==
    ASSUME FlushInv, UNCHANGED flushVars, Draining' <=> Draining,
           ("DONE" \in bits') <=> ("DONE" \in bits)
    PROVE  FlushInv'
BY DEF FlushInv, Woken, flushVars

\* Setting DUE or FLUSH starts no drain and leaves DONE alone.
LEMMA TriggerFrame ==
    ASSUME NEW bit \in Triggers, SetTrigger(bit)
    PROVE  (Draining' <=> Draining) /\ (("DONE" \in bits') <=> ("DONE" \in bits))
BY DEF SetTrigger, Triggers, Draining

\* A step of a task in aetus_flush().
LEMMA FlushByCaller ==
    ASSUME TypeOK, FlushInv, NEW g \in Flushers, Flush(g)
    PROVE  FlushInv'
<1> USE DEF drainVars
<1>1. /\ fpc \in [Flushers -> {"idle", "cleared", "requested", "waiting", "ok"}]
      /\ round \in [Flushers -> 0..2]
      /\ cover \in [Flushers -> {"none", "running", "done"}]
  BY DEF TypeOK
<1> SUFFICES ASSUME NEW f \in Flushers
             PROVE  /\ round'[f] \in IF fpc'[f] = "idle" THEN {0, 1} ELSE {1, 2}
                    /\ cover'[f] = "none" /\ Draining' =>
                         ~(round'[f] = 2 \/ (round'[f] = 1 /\ (fpc'[f] = "idle" \/ Woken(f)')))
                    /\ round'[f] = 2 /\ Woken(f)' => cover'[f] = "done"
  BY DEF FlushInv
<1>2. /\ round[f] \in IF fpc[f] = "idle" THEN {0, 1} ELSE {1, 2}
      /\ cover[f] = "none" /\ Draining =>
           ~(round[f] = 2 \/ (round[f] = 1 /\ (fpc[f] = "idle" \/ Woken(f))))
      /\ round[f] = 2 /\ Woken(f) => cover[f] = "done"
  BY DEF FlushInv
<1>3. CASE FlushClear(g)
  <2>1. Draining' <=> Draining
    BY <1>3 DEF FlushClear, Draining
  <2>2. CASE f = g
    BY <1>1, <1>2, <1>3, <2>1, <2>2 DEF FlushClear, Woken
  <2>3. CASE f # g
    BY <1>1, <1>2, <1>3, <2>1, <2>3 DEF FlushClear, Woken
  <2> QED  BY <2>2, <2>3
<1>4. CASE FlushSet(g)
  <2>1. (Draining' <=> Draining) /\ (("DONE" \in bits') <=> ("DONE" \in bits))
    BY <1>4, TriggerFrame DEF FlushSet, Triggers
  <2> QED  BY <1>1, <1>2, <1>4, <2>1 DEF FlushSet, Woken
<1>5. CASE FlushWait(g)
  <2>1. Draining' <=> Draining
    BY <1>5 DEF FlushWait, Draining
  <2> QED  BY <1>1, <1>2, <1>5, <2>1 DEF FlushWait, Woken
<1>6. CASE FlushOk(g)
  <2>1. Draining' <=> Draining
    BY <1>6 DEF FlushOk, Draining
  <2> QED  BY <1>1, <1>2, <1>6, <2>1 DEF FlushOk, Woken
<1>7. CASE FlushTimeout(g)
  <2>1. Draining' <=> Draining
    BY <1>7 DEF FlushTimeout, Draining
  <2> QED  BY <1>1, <1>2, <1>7, <2>1 DEF FlushTimeout, Woken
<1> QED  BY <1>3, <1>4, <1>5, <1>6, <1>7 DEF Flush

\* A step of the uploader: a drain begins, goes on, or ends with DONE.
LEMMA FlushByUploader ==
    ASSUME TypeOK, FlushInv, Upload
    PROVE  FlushInv'
<1>1. CASE DrainBegin
  BY <1>1 DEF DrainBegin, FlushInv, Woken, Draining, TypeOK
<1>2. CASE DrainEnd
  <2>1. ~Draining' /\ Draining /\ UNCHANGED round
    BY <1>2 DEF DrainEnd, Draining
  <2> SUFFICES ASSUME NEW f \in Flushers
               PROVE  /\ round'[f] \in IF fpc'[f] = "idle" THEN {0, 1} ELSE {1, 2}
                      /\ round'[f] = 2 /\ Woken(f)' => cover'[f] = "done"
    BY <2>1 DEF FlushInv
  <2>2. (fpc'[f] = "idle") <=> (fpc[f] = "idle")
    BY <1>2 DEF DrainEnd, SetDone
  <2>3. round[f] = 2 => cover'[f] = "done"
    BY <1>2, <2>1 DEF DrainEnd, FlushInv, TypeOK
  <2> QED  BY <2>1, <2>2, <2>3 DEF FlushInv
<1>3. CASE UploaderWait
  BY <1>3, FlushFrame DEF UploaderWait, Triggers, Draining
<1>4. CASE WifiConnected \/ WifiWaitFails \/ Receive \/ EncodeFails \/ Post \/ PostOk
           \/ PostFails \/ Requeue \/ Release \/ ReleaseNote
  <2>1. UNCHANGED <<flushVars, bits>>
    BY <1>4 DEF WifiConnected, WifiWaitFails, Receive, EncodeFails, Post, PostOk,
                PostFails, Requeue, Release, ReleaseNote
  <2>2. Draining /\ Draining'
    BY <1>4 DEF WifiConnected, WifiWaitFails, Receive, EncodeFails, Post, PostOk,
                PostFails, Requeue, Release, ReleaseNote, AfterRelease, Draining
  <2> QED  BY <2>1, <2>2, FlushFrame
<1> QED  BY <1>1, <1>2, <1>3, <1>4 DEF Upload

\* The inductive invariant of aetus_flush() holds in every behaviour.
THEOREM FlushInvariant == Spec => []FlushInv
<1>1. Init => FlushInv
  BY DEF Init, FlushInv, Woken, Draining
<1>2. TypeOK /\ FlushInv /\ [Next]_vars => FlushInv'
  <2> SUFFICES ASSUME TypeOK, FlushInv, [Next]_vars
               PROVE  FlushInv'
    OBVIOUS
  <2>1. ASSUME NEW p \in Producers, Produce(p)
        PROVE  FlushInv'
    <3>1. UNCHANGED <<flushVars, bits, upc>>
      BY <2>1 DEF Produce, EnqueueCall, SignalAlloc, SignalAllocFails, SignalNoteAlloc, Send,
                  SendTimeout, ProducerFree, ProducerNoteRelease, drainVars
    <3> QED  BY <3>1, FlushFrame DEF Draining
  <2>2. CASE Upload
    BY <2>2, FlushByUploader
  <2>3. CASE \E f \in Flushers : Flush(f)
    BY <2>3, FlushByCaller
  <2>4. CASE Environment
    <3>1. CASE TimerFires
      BY <3>1, TriggerFrame, FlushFrame DEF TimerFires, Triggers
    <3>2. CASE WifiUp \/ WifiDown
      BY <3>2, FlushFrame DEF WifiUp, WifiDown, drainVars, Draining
    <3>3. CASE ServerAccepts \/ ServerAnswers400 \/ (\E r \in late : ServerHandlesLate(r))
               \/ \E m \in Messages : EnqueueFromIsr(m)
      <4>1. UNCHANGED <<flushVars, bits, upc>>
        BY <3>3 DEF ServerAccepts, ServerAnswers400, ServerHandlesLate, EnqueueFromIsr, drainVars
      <4> QED  BY <4>1, FlushFrame DEF Draining
    <3> QED  BY <2>4, <3>1, <3>2, <3>3 DEF Environment
  <2>5. CASE UNCHANGED vars
    BY <2>5, FlushFrame DEF vars, flushVars, Draining
  <2> QED  BY <2>1, <2>2, <2>3, <2>4, <2>5 DEF Next
<1> QED  BY <1>1, <1>2, TypeCorrect, PTL DEF Spec

\* Two successive aetus_flush() calls that return ESP_OK enclose a whole drain.
THEOREM FlushTheorem == Spec => []TwoFlushesCoverADrain
<1>1. FlushInv => TwoFlushesCoverADrain
  BY DEF FlushInv, TwoFlushesCoverADrain, Woken
<1> QED  BY <1>1, FlushInvariant, PTL

-------------------------------------------------------------------------------
(* One place per message.                                                  *)

\* A step that leaves every place alone.
LEMMA LineFrame ==
    ASSUME LineInv, UNCHANGED <<queue, used, item, pmsg, acked, dropped, unsent>>
    PROVE  LineInv'
BY DEF LineInv

\* A step of a producer: a new message starts, moves into the queue, or ends
\* without ever having been in it.
LEMMA LineProduce ==
    ASSUME TypeOK, LineInv, NEW p \in Producers, Produce(p)
    PROVE  LineInv'
<1> USE DEF queueVars, poolVars, drainVars, serverVars, fateVars, prodVars, flushVars
<1>1. /\ queue \in Seq(Messages) /\ pmsg \in [Producers -> Messages \cup {NoMsg}]
      /\ NoMsg \notin Messages
  BY UploadAssumption DEF TypeOK
<1>2. ASSUME NEW m \in Messages, EnqueueCall(p, m) \/ SignalAlloc(p, m)
      PROVE  LineInv'
  <2>1. /\ UNCHANGED <<queue, item, acked, dropped, unsent>>
        /\ m \notin used /\ used' = used \cup {m} /\ pmsg' = [pmsg EXCEPT ![p] = m]
    BY <1>2 DEF EnqueueCall, SignalAlloc
  <2>2. m # item
    BY <1>1, <2>1 DEF LineInv
  <2> QED  BY <1>1, <2>1, <2>2 DEF LineInv
<1>3. ASSUME NEW m \in Messages, SignalAllocFails(p, m)
      PROVE  LineInv'
  BY <1>3 DEF SignalAllocFails, LineInv
<1>4. CASE SignalNoteAlloc(p) \/ ProducerFree(p)
  BY <1>4, LineFrame DEF SignalNoteAlloc, ProducerFree
<1>5. CASE Send(p)
  <2>1. /\ UNCHANGED <<used, item, acked, dropped, unsent>>
        /\ queue' = Append(queue, pmsg[p]) /\ pmsg' = [pmsg EXCEPT ![p] = NoMsg]
        /\ pmsg[p] \in Messages
    BY <1>1, <1>5 DEF Send, TypeOK
  <2>2. pmsg[p] \notin Members(queue) /\ pmsg[p] \in used /\ pmsg[p] # item
    BY <1>1, <2>1 DEF LineInv
  <2>3. /\ Members(queue') = Members(queue) \cup {pmsg[p]}
        /\ \A i, j \in DOMAIN queue' : queue'[i] = queue'[j] => i = j
    BY <1>1, <2>1, <2>2, AppendMembers DEF LineInv
  <2> QED  BY <1>1, <2>1, <2>2, <2>3 DEF LineInv
<1>6. CASE SendTimeout(p) \/ ProducerNoteRelease(p)
  <2>1. /\ UNCHANGED <<queue, used, item, acked, dropped, unsent>>
        /\ pmsg' = pmsg \/ pmsg' = [pmsg EXCEPT ![p] = NoMsg]
    BY <1>6 DEF SendTimeout, ProducerNoteRelease
  <2> QED  BY <1>1, <2>1 DEF LineInv
<1> QED  BY <1>2, <1>3, <1>4, <1>5, <1>6 DEF Produce

\* A step of the uploader: the message it received goes back to the queue or to
\* one of its final fates.
LEMMA LineUpload ==
    ASSUME TypeOK, LineInv, Upload
    PROVE  LineInv'
<1> USE DEF queueVars, poolVars, drainVars, serverVars, fateVars, prodVars, flushVars
<1>1. /\ queue \in Seq(Messages) /\ pmsg \in [Producers -> Messages \cup {NoMsg}]
      /\ acked \in Seq(Messages) /\ item \in Messages \cup {NoMsg} /\ NoMsg \notin Messages
  BY UploadAssumption DEF TypeOK
<1>2. Holding \/ upc \in {"release", "noteRelease"} => item \in Messages
  BY DEF TypeOK
<1>3. CASE UploaderWait \/ DrainBegin \/ WifiConnected \/ WifiWaitFails \/ Post
           \/ PostFails \/ DrainEnd
  BY <1>3, LineFrame DEF UploaderWait, DrainBegin, WifiConnected, WifiWaitFails, Post,
                         PostFails, DrainEnd
<1>4. CASE Receive
  <2>1. CASE queue # <<>>
    <3>1. /\ item' = Head(queue) /\ queue' = Tail(queue)
          /\ UNCHANGED <<used, pmsg, acked, dropped, unsent>>
      BY <1>4, <2>1 DEF Receive
    <3>2. /\ Members(queue) = {item'} \cup Members(queue') /\ item' \notin Members(queue')
          /\ \A i, j \in DOMAIN queue' : queue'[i] = queue'[j] => i = j
      BY <1>1, <2>1, <3>1, TailMembers DEF LineInv
    <3> QED  BY <3>1, <3>2 DEF LineInv
  <2>2. CASE queue = <<>>
    BY <1>4, <2>2, LineFrame DEF Receive
  <2> QED  BY <2>1, <2>2
<1>5. CASE EncodeFails
  <2>1. unsent' = unsent \cup {item} /\ UNCHANGED <<queue, used, item, pmsg, acked, dropped>>
    BY <1>5 DEF EncodeFails
  <2>2. item \in Messages
    BY <1>2, <1>5 DEF EncodeFails, Holding
  <2> QED  BY <1>1, <2>1, <2>2 DEF LineInv
<1>6. CASE PostOk
  <2>1. acked' = Append(acked, item) /\ UNCHANGED <<queue, used, item, pmsg, dropped, unsent>>
    BY <1>6 DEF PostOk
  <2>2. item \in Messages
    BY <1>2, <1>6 DEF PostOk, Holding
  <2>3. Members(acked') = Members(acked) \cup {item}
    BY <1>1, <2>1, <2>2, AppendMembers
  <2> QED  BY <1>1, <2>1, <2>2, <2>3 DEF LineInv
<1>7. CASE Requeue
  <2>1. item \in Messages /\ UNCHANGED <<used, pmsg, acked, unsent>>
    BY <1>2, <1>7 DEF Requeue, Holding
  <2>2. CASE queue' = <<item>> \o queue /\ item' = NoMsg /\ dropped' = dropped
    <3>1. /\ Members(queue') = Members(queue) \cup {item}
          /\ \A i, j \in DOMAIN queue' : queue'[i] = queue'[j] => i = j
      BY <1>1, <2>1, <2>2, FrontMembers DEF LineInv
    <3> QED  BY <1>1, <2>1, <2>2, <3>1 DEF LineInv
  <2>3. CASE dropped' = dropped \cup {item} /\ UNCHANGED <<queue, item>>
    BY <1>1, <2>1, <2>3 DEF LineInv
  <2> QED  BY <1>7, <2>2, <2>3 DEF Requeue
<1>8. CASE Release \/ ReleaseNote
  <2>1. /\ item' \in {item, NoMsg}
        /\ UNCHANGED <<queue, used, pmsg, acked, dropped, unsent>>
    BY <1>8 DEF Release, ReleaseNote
  <2> QED  BY <1>1, <2>1 DEF LineInv
<1> QED  BY <1>3, <1>4, <1>5, <1>6, <1>7, <1>8 DEF Upload

\* The ISR variants put a new message straight into the queue.
LEMMA LineIsr ==
    ASSUME TypeOK, LineInv, NEW m \in Messages, EnqueueFromIsr(m)
    PROVE  LineInv'
<1> USE DEF queueVars, poolVars, drainVars, serverVars, fateVars, prodVars, flushVars
<1>1. queue \in Seq(Messages) /\ NoMsg \notin Messages
  BY UploadAssumption DEF TypeOK
<1>2. /\ m \notin used /\ used' = used \cup {m}
      /\ UNCHANGED <<item, pmsg, acked, dropped, unsent>>
      /\ queue' = queue \/ queue' = Append(queue, m)
  BY DEF EnqueueFromIsr
<1>3. m \notin Members(queue) /\ m # item /\ \A p \in Producers : pmsg[p] # m
  BY <1>1, <1>2 DEF LineInv
<1>4. CASE queue' = queue
  BY <1>2, <1>4 DEF LineInv
<1>5. CASE queue' = Append(queue, m)
  <2>1. /\ Members(queue') = Members(queue) \cup {m}
        /\ \A i, j \in DOMAIN queue' : queue'[i] = queue'[j] => i = j
    BY <1>1, <1>3, <1>5, AppendMembers DEF LineInv
  <2> QED  BY <1>1, <1>2, <1>3, <2>1 DEF LineInv
<1> QED  BY <1>2, <1>4, <1>5

\* Every message is in one place, in every behaviour.
THEOREM LineInvariant == Spec => []LineInv
<1>1. Init => LineInv
  BY DEF Init, LineInv, Members
<1>2. TypeOK /\ LineInv /\ [Next]_vars => LineInv'
  <2> SUFFICES ASSUME TypeOK, LineInv, [Next]_vars
               PROVE  LineInv'
    OBVIOUS
  <2> USE DEF queueVars, drainVars, fateVars, prodVars
  <2>1. CASE \E p \in Producers : Produce(p)
    BY <2>1, LineProduce
  <2>2. CASE Upload
    BY <2>2, LineUpload
  <2>3. CASE \E f \in Flushers : Flush(f)
    BY <2>3, LineFrame DEF Flush, FlushClear, FlushSet, FlushWait, FlushOk, FlushTimeout
  <2>4. CASE Environment
    <3>1. CASE TimerFires \/ WifiUp \/ WifiDown \/ ServerAccepts \/ ServerAnswers400
               \/ \E r \in late : ServerHandlesLate(r)
      BY <3>1, LineFrame DEF TimerFires, WifiUp, WifiDown, ServerAccepts, ServerAnswers400,
                             ServerHandlesLate
    <3> QED  BY <2>4, <3>1, LineIsr DEF Environment
  <2>5. CASE UNCHANGED vars
    BY <2>5, LineFrame DEF vars
  <2> QED  BY <2>1, <2>2, <2>3, <2>4, <2>5 DEF Next
<1> QED  BY <1>1, <1>2, TypeCorrect, PTL DEF Spec

-------------------------------------------------------------------------------
(* The sample blocks.                                                      *)

\* The local of a producer that owns a sample block.
ProducerOwns(p, m) == m = pmsg[p] /\ ppc[p] \in {"noteAlloc", "send", "free"}

\* Somebody still needs the sample block of m.
Needed(m) ==
    \/ m \in Members(queue)
    \/ m = item /\ (Holding \/ upc = "release")
    \/ \E p \in Producers : ProducerOwns(p, m)

\* BlocksHaveAnOwner block by block.
LEMMA BlocksByBlock ==
    /\ TypeOK => (BlocksHaveAnOwner <=> \A m \in Signals : m \in heap <=> Needed(m))
    /\ TypeOK' => (BlocksHaveAnOwner' <=> \A m \in Signals : m \in heap' <=> Needed(m)')
BY DEF TypeOK, BlocksHaveAnOwner, Needed, ProducerOwns

\* A step that neither frees nor hands over.
LEMMA BlocksFrame ==
    ASSUME TypeOK, TypeOK', BlocksHaveAnOwner, UNCHANGED <<queue, item, heap, ppc, pmsg>>,
           (Holding \/ upc = "release")' <=> (Holding \/ upc = "release")
    PROVE  BlocksHaveAnOwner'
BY BlocksByBlock DEF Needed, ProducerOwns

\* A step of a producer: it allocates, hands over to the queue, or frees.
LEMMA BlocksProduce ==
    ASSUME TypeOK, TypeOK', LineInv, BlocksHaveAnOwner, NEW p \in Producers, Produce(p)
    PROVE  BlocksHaveAnOwner'
<1> USE DEF queueVars, poolVars, drainVars, serverVars, fateVars, prodVars, flushVars
<1>1. /\ queue \in Seq(Messages) /\ pmsg \in [Producers -> Messages \cup {NoMsg}]
      /\ ppc \in [Producers -> {"idle", "noteAlloc", "send", "free", "noteRelease"}]
      /\ NoMsg \notin Messages /\ Signals \subseteq Messages /\ heap \subseteq Signals
      /\ pmsg[p] = NoMsg <=> ppc[p] = "idle"
      /\ (Telemetry \cup Status) \cap Signals = {}
  BY UploadAssumption DEF TypeOK, Messages
<1>2. /\ UNCHANGED <<item, upc>>
      /\ (Holding \/ upc = "release")' <=> (Holding \/ upc = "release")
  BY DEF Produce, EnqueueCall, SignalAlloc, SignalAllocFails, SignalNoteAlloc, Send,
         SendTimeout, ProducerFree, ProducerNoteRelease, Holding
<1>3. \A m \in Signals : m \in heap <=> Needed(m)
  BY BlocksByBlock
<1> SUFFICES ASSUME NEW b \in Signals
             PROVE  b \in heap' <=> Needed(b)'
  BY BlocksByBlock
<1>4. \A q \in Producers : q # p => ppc'[q] = ppc[q] /\ pmsg'[q] = pmsg[q]
  BY <1>1 DEF Produce, EnqueueCall, SignalAlloc, SignalAllocFails, SignalNoteAlloc, Send,
              SendTimeout, ProducerFree, ProducerNoteRelease
<1>5. Needed(b)' <=> \/ b \in Members(queue')
                     \/ b = item /\ (Holding \/ upc = "release")
                     \/ ProducerOwns(p, b)'
                     \/ \E q \in Producers \ {p} : ProducerOwns(q, b)
  BY <1>2, <1>4 DEF Needed, ProducerOwns
<1>6. Needed(b) <=> \/ b \in Members(queue)
                    \/ b = item /\ (Holding \/ upc = "release")
                    \/ ProducerOwns(p, b)
                    \/ \E q \in Producers \ {p} : ProducerOwns(q, b)
  BY DEF Needed
<1>7. b # NoMsg /\ (b \in heap <=> Needed(b))
  BY <1>1, <1>3
<1>8. ASSUME NEW m \in Messages, EnqueueCall(p, m)
      PROVE  b \in heap' <=> Needed(b)'
  <2>1. ~ProducerOwns(p, b) /\ ~ProducerOwns(p, b)' /\ UNCHANGED <<heap, queue>>
    BY <1>1, <1>8 DEF EnqueueCall, ProducerOwns
  <2> QED  BY <1>5, <1>6, <1>7, <2>1
<1>9. ASSUME NEW m \in Messages, SignalAlloc(p, m)
      PROVE  b \in heap' <=> Needed(b)'
  <2>1. /\ ~ProducerOwns(p, b) /\ (ProducerOwns(p, b)' <=> b = m)
        /\ queue' = queue /\ heap' = heap \cup {m}
    BY <1>1, <1>9 DEF SignalAlloc, ProducerOwns
  <2> QED  BY <1>5, <1>6, <1>7, <2>1
<1>10. ASSUME NEW m \in Messages, SignalAllocFails(p, m)
       PROVE  b \in heap' <=> Needed(b)'
  <2>1. (ProducerOwns(p, b)' <=> ProducerOwns(p, b)) /\ UNCHANGED <<heap, queue>>
    BY <1>10 DEF SignalAllocFails, ProducerOwns
  <2> QED  BY <1>5, <1>6, <1>7, <2>1
<1>11. CASE SignalNoteAlloc(p)
  <2>1. (ProducerOwns(p, b)' <=> ProducerOwns(p, b)) /\ UNCHANGED <<heap, queue>>
    BY <1>1, <1>11 DEF SignalNoteAlloc, ProducerOwns
  <2> QED  BY <1>5, <1>6, <1>7, <2>1
<1>12. CASE Send(p)
  <2>1. /\ (ProducerOwns(p, b) <=> b = pmsg[p]) /\ ~ProducerOwns(p, b)' /\ heap' = heap
        /\ queue' = Append(queue, pmsg[p]) /\ pmsg[p] \in Messages
    BY <1>1, <1>12 DEF Send, ProducerOwns
  <2>2. Members(queue') = Members(queue) \cup {pmsg[p]}
    BY <1>1, <2>1, AppendMembers
  <2> QED  BY <1>5, <1>6, <1>7, <2>1, <2>2
<1>13. CASE SendTimeout(p)
  <2>1. UNCHANGED <<heap, queue>>
    BY <1>13 DEF SendTimeout
  <2>2. ProducerOwns(p, b)' <=> ProducerOwns(p, b)
    BY <1>1, <1>13 DEF SendTimeout, ProducerOwns
  <2> QED  BY <1>5, <1>6, <1>7, <2>1, <2>2
<1>14. CASE ProducerFree(p)
  <2>1. /\ (ProducerOwns(p, b) <=> b = pmsg[p]) /\ ~ProducerOwns(p, b)' /\ queue' = queue
        /\ heap' = heap \ {pmsg[p]} /\ pmsg[p] # NoMsg
    BY <1>1, <1>14 DEF ProducerFree, ProducerOwns
  <2>2. b = pmsg[p] => /\ b \notin Members(queue) /\ b # item
                       /\ \A q \in Producers \ {p} : ~ProducerOwns(q, b)
    BY <2>1 DEF LineInv, ProducerOwns
  <2> QED  BY <1>5, <1>6, <1>7, <2>1, <2>2
<1>15. CASE ProducerNoteRelease(p)
  <2>1. ~ProducerOwns(p, b) /\ ~ProducerOwns(p, b)' /\ UNCHANGED <<heap, queue>>
    BY <1>1, <1>15 DEF ProducerNoteRelease, ProducerOwns
  <2> QED  BY <1>5, <1>6, <1>7, <2>1
<1> QED
  BY <1>8, <1>9, <1>10, <1>11, <1>12, <1>13, <1>14, <1>15 DEF Produce

\* A step of the uploader: it takes over from the queue, hands back, or frees.
LEMMA BlocksUpload ==
    ASSUME TypeOK, TypeOK', LineInv, BlocksHaveAnOwner, Upload
    PROVE  BlocksHaveAnOwner'
<1> USE DEF queueVars, poolVars, drainVars, serverVars, fateVars, prodVars, flushVars
<1>1. /\ queue \in Seq(Messages) /\ item \in Messages \cup {NoMsg}
      /\ NoMsg \notin Messages /\ Signals \subseteq Messages /\ heap \subseteq Signals
      /\ item = NoMsg <=> ~(Holding \/ upc \in {"release", "noteRelease"})
  BY UploadAssumption DEF TypeOK, Messages
<1>2. CASE UploaderWait \/ DrainBegin \/ WifiConnected \/ WifiWaitFails \/ EncodeFails \/ Post
           \/ PostOk \/ PostFails \/ DrainEnd
  <2>1. UNCHANGED <<queue, item, heap, ppc, pmsg>>
    BY <1>2 DEF UploaderWait, DrainBegin, WifiConnected, WifiWaitFails, EncodeFails, Post,
                PostOk, PostFails, DrainEnd
  <2>2. (Holding \/ upc = "release")' <=> (Holding \/ upc = "release")
    BY <1>2 DEF UploaderWait, DrainBegin, WifiConnected, WifiWaitFails, EncodeFails, Post,
                PostOk, PostFails, DrainEnd, Holding
  <2> QED  BY <2>1, <2>2, BlocksFrame
<1>3. \A m \in Signals : m \in heap <=> Needed(m)
  BY BlocksByBlock
<1>4. ASSUME Receive \/ Requeue \/ Release \/ ReleaseNote, NEW b \in Signals
      PROVE  b \in heap' <=> Needed(b)'
  <2>1. UNCHANGED <<ppc, pmsg>>
    BY <1>4 DEF Receive, Requeue, Release, ReleaseNote
  <2>2. Needed(b)' <=> \/ b \in Members(queue')
                       \/ b = item' /\ (Holding' \/ upc' = "release")
                       \/ \E q \in Producers : ProducerOwns(q, b)
    BY <2>1 DEF Needed, ProducerOwns
  <2>3. b # NoMsg /\ (b \in heap <=> Needed(b))
    BY <1>1, <1>3
  <2>4. CASE Receive
    <3>1. CASE queue # <<>>
      <4>1. /\ item' = Head(queue) /\ queue' = Tail(queue) /\ heap' = heap /\ Holding'
            /\ ~(Holding \/ upc = "release")
        BY <2>4, <3>1 DEF Receive, Holding
      <4>2. Members(queue) = {item'} \cup Members(queue')
        BY <1>1, <3>1, <4>1, TailMembers
      <4> QED  BY <2>2, <2>3, <4>1, <4>2 DEF Needed
    <3>2. CASE queue = <<>>
      BY <2>2, <2>3, <2>4, <3>2 DEF Receive, Needed, Holding
    <3> QED  BY <3>1, <3>2
  <2>5. CASE Requeue
    <3>1. Holding /\ item \in Messages /\ heap' = heap
      BY <1>1, <2>5 DEF Requeue, Holding
    <3>2. CASE queue' = <<item>> \o queue /\ item' = NoMsg /\ upc' = "done"
      <4>1. Members(queue') = Members(queue) \cup {item}
        BY <1>1, <3>1, <3>2, FrontMembers
      <4>2. ~(Holding' \/ upc' = "release")
        BY <3>2 DEF Holding
      <4> QED  BY <2>2, <2>3, <3>1, <4>1, <4>2 DEF Needed
    <3>3. CASE UNCHANGED <<queue, item>> /\ upc' = "release"
      BY <2>2, <2>3, <3>1, <3>3 DEF Needed
    <3> QED  BY <2>5, <3>2, <3>3 DEF Requeue
  <2>6. CASE Release
    <3>1. upc = "release" /\ queue' = queue /\ item # NoMsg /\ ~(Holding' \/ upc' = "release")
      BY <1>1, <2>6 DEF Release, AfterRelease, Holding
    <3>2. \A q \in Producers : ~ProducerOwns(q, item)
      BY <3>1 DEF LineInv, ProducerOwns
    <3>3. item \notin Members(queue)
      BY <3>1 DEF LineInv
    <3>4. (b \in heap') <=> (b \in heap /\ b # item)
      BY <1>1, <2>6 DEF Release
    <3> QED  BY <2>2, <2>3, <3>1, <3>2, <3>3, <3>4 DEF Needed
  <2>7. CASE ReleaseNote
    <3>1. /\ ~(Holding' \/ upc' = "release") /\ ~(Holding \/ upc = "release")
          /\ UNCHANGED <<queue, heap>>
      BY <2>7 DEF ReleaseNote, AfterRelease, Holding
    <3> QED  BY <2>2, <2>3, <3>1 DEF Needed
  <2> QED  BY <1>4, <2>4, <2>5, <2>6, <2>7
<1> QED  BY <1>2, <1>4, BlocksByBlock DEF Upload

\* No block leaks, is freed early or twice (release_queue_item and its callers).
THEOREM BlocksTheorem == Spec => []BlocksHaveAnOwner
<1>1. Init => BlocksHaveAnOwner
  BY UploadAssumption DEF Init, BlocksHaveAnOwner, Members, Holding
<1>2. TypeOK /\ TypeOK' /\ LineInv /\ BlocksHaveAnOwner /\ [Next]_vars => BlocksHaveAnOwner'
  <2> SUFFICES ASSUME TypeOK, TypeOK', LineInv, BlocksHaveAnOwner, [Next]_vars
               PROVE  BlocksHaveAnOwner'
    OBVIOUS
  <2> USE DEF queueVars, poolVars, drainVars, fateVars, prodVars
  <2>1. CASE \E p \in Producers : Produce(p)
    BY <2>1, BlocksProduce
  <2>2. CASE Upload
    BY <2>2, BlocksUpload
  <2>3. CASE \E f \in Flushers : Flush(f)
    <3>1. UNCHANGED <<queue, item, heap, ppc, pmsg>>
      BY <2>3 DEF Flush, FlushClear, FlushSet, FlushWait, FlushOk, FlushTimeout
    <3>2. upc' = upc \/ (upc = "wait" /\ upc' = "drain")
      BY <2>3 DEF Flush, FlushClear, FlushSet, FlushWait, FlushOk, FlushTimeout, SetTrigger
    <3> QED  BY <3>1, <3>2, BlocksFrame DEF Holding
  <2>4. CASE Environment
    <3>1. CASE TimerFires \/ WifiUp \/ WifiDown \/ ServerAccepts \/ ServerAnswers400
               \/ \E r \in late : ServerHandlesLate(r)
      <4>1. UNCHANGED <<queue, item, heap, ppc, pmsg>>
        BY <3>1 DEF TimerFires, WifiUp, WifiDown, ServerAccepts, ServerAnswers400, ServerHandlesLate
      <4>2. upc' = upc \/ (upc = "wait" /\ upc' = "drain")
        BY <3>1 DEF TimerFires, WifiUp, WifiDown, ServerAccepts, ServerAnswers400,
                    ServerHandlesLate, SetTrigger
      <4> QED  BY <4>1, <4>2, BlocksFrame DEF Holding
    <3>2. ASSUME NEW m \in Messages, EnqueueFromIsr(m)
          PROVE  BlocksHaveAnOwner'
      <4>1. /\ UNCHANGED <<item, heap, ppc, pmsg, upc>> /\ m \notin Signals
            /\ queue' = queue \/ queue' = Append(queue, m)
        BY <3>2, UploadAssumption DEF EnqueueFromIsr
      <4>2. queue \in Seq(Messages)
        BY DEF TypeOK
      <4>3. Members(Append(queue, m)) = Members(queue) \cup {m}
        BY <4>2, AppendMembers
      <4>4. \A b \in Signals : b \in Members(queue') <=> b \in Members(queue)
        BY <4>1, <4>3
      <4> QED  BY <4>1, <4>4, BlocksByBlock DEF Needed, ProducerOwns, Holding
    <3> QED  BY <2>4, <3>1, <3>2 DEF Environment
  <2>5. CASE UNCHANGED vars
    BY <2>5, BlocksFrame DEF vars, Holding
  <2> QED  BY <2>1, <2>2, <2>3, <2>4, <2>5 DEF Next
<1> QED  BY <1>1, <1>2, TypeCorrect, LineInvariant, PTL DEF Spec

-------------------------------------------------------------------------------
(* The refinement of FifoUplink.                                           *)

\* The line after the uploader took its front: nothing overtakes.
LEMMA PendingFront ==
    ASSUME TypeOK, Holding
    PROVE  /\ Pending = <<item>> \o queue
           /\ Pending # <<>> /\ Head(Pending) = item /\ Tail(Pending) = queue
<1>1. item \in Messages /\ queue \in Seq(Messages)
  BY UploadAssumption DEF TypeOK
<1>2. Pending = <<item>> \o queue
  BY DEF Pending
<1> QED  BY <1>1, <1>2

\* A message that is added at the back of the queue is added at the back of the
\* line, which has a place for it.
LEMMA PendingBack ==
    ASSUME TypeOK, LineInv, NEW m \in Messages, Len(queue) < QueueDepth,
           queue' = Append(queue, m), UNCHANGED <<upc, item, acked, dropped, unsent>>,
           m \notin Members(queue) \cup Members(acked) \cup dropped \cup unsent, m # item
    PROVE  Uplink!Enqueue(m)
<1>1. /\ queue \in Seq(Messages) /\ item \in Messages \cup {NoMsg} /\ QueueDepth \in Nat
      /\ Holding => item \in Messages
  BY UploadAssumption DEF TypeOK
<1>2. Pending' = Append(Pending, m)
  <2>1. CASE Holding
    <3>1. <<item>> \o Append(queue, m) = Append(<<item>> \o queue, m)
      BY <1>1, <2>1
    <3> QED  BY <2>1, <3>1 DEF Pending, Holding
  <2>2. CASE ~Holding
    BY <2>2 DEF Pending, Holding
  <2> QED  BY <2>1, <2>2
<1>3. Len(Pending) < QueueDepth + 1 /\ \A i \in DOMAIN Pending : Pending[i] # m
  <2>1. CASE Holding
    <3>1. Len(Pending) = Len(queue) + 1
      BY <1>1, <2>1 DEF Pending
    <3>2. m \notin Members(Pending)
      BY <1>1, <2>1, FrontMembers DEF Pending
    <3> QED  BY <1>1, <3>1, <3>2 DEF Members
  <2>2. CASE ~Holding
    BY <1>1, <2>2 DEF Pending, Members
  <2> QED  BY <2>1, <2>2
<1>4. (\A i \in DOMAIN acked : acked[i] # m) /\ m \notin dropped \cup unsent
  BY DEF Members
<1> QED  BY <1>2, <1>3, <1>4 DEF Uplink!Enqueue

\* The uploader gives the front of the line one of its fates.
LEMMA PendingLeaves ==
    ASSUME TypeOK, Holding, ~Holding', queue' = queue,
           \/ acked' = Append(acked, item) /\ UNCHANGED <<dropped, unsent>>
           \/ dropped' = dropped \cup {item} /\ UNCHANGED <<acked, unsent>>
           \/ unsent' = unsent \cup {item} /\ UNCHANGED <<acked, dropped>>
    PROVE  Uplink!Acknowledge \/ Uplink!GiveUp
<1>1. /\ Pending # <<>> /\ Head(Pending) = item /\ Tail(Pending) = queue
      /\ Pending' = queue
  BY PendingFront DEF Pending
<1>2. CASE acked' = Append(acked, item) /\ UNCHANGED <<dropped, unsent>>
  BY <1>1, <1>2 DEF Uplink!Acknowledge
<1>3. CASE dropped' = dropped \cup {item} /\ UNCHANGED <<acked, unsent>>
  BY <1>1, <1>3 DEF Uplink!GiveUp
<1>4. CASE unsent' = unsent \cup {item} /\ UNCHANGED <<acked, dropped>>
  BY <1>1, <1>4 DEF Uplink!GiveUp
<1> QED  BY <1>2, <1>3, <1>4

\* A step of the uploader is a step of the line, or none.
LEMMA UplinkUpload ==
    ASSUME TypeOK, Upload
    PROVE  \/ Uplink!Acknowledge \/ Uplink!GiveUp
           \/ UNCHANGED <<Pending, acked, dropped, unsent>>
<1> USE DEF queueVars, drainVars, fateVars
<1>1. queue \in Seq(Messages) /\ item \in Messages \cup {NoMsg}
  BY DEF TypeOK
<1>2. CASE EncodeFails \/ PostOk
  BY <1>2, PendingLeaves DEF EncodeFails, PostOk, Holding
<1>3. CASE Requeue
  <2>1. Holding /\ UNCHANGED <<acked, unsent>> /\ ~Holding'
    BY <1>3 DEF Requeue, Holding
  <2>2. CASE queue' = <<item>> \o queue /\ dropped' = dropped
    BY <2>1, <2>2 DEF Pending
  <2>3. CASE queue' = queue /\ dropped' = dropped \cup {item}
    BY <2>1, <2>3, PendingLeaves
  <2> QED  BY <1>3, <2>2, <2>3 DEF Requeue
<1>4. CASE Receive
  <2>1. CASE queue # <<>>
    <3>1. ~Holding /\ Holding' /\ item' = Head(queue) /\ queue' = Tail(queue)
          /\ UNCHANGED <<acked, dropped, unsent>>
      BY <1>4, <2>1 DEF Receive, Holding
    <3>2. <<Head(queue)>> \o Tail(queue) = queue
      BY <1>1, <2>1
    <3> QED  BY <3>1, <3>2 DEF Pending
  <2>2. CASE queue = <<>>
    BY <1>4, <2>2 DEF Receive, Pending, Holding
  <2> QED  BY <2>1, <2>2
<1>5. CASE UploaderWait \/ DrainBegin \/ WifiConnected \/ WifiWaitFails \/ Post \/ PostFails
           \/ DrainEnd
  <2>1. UNCHANGED <<queue, item, acked, dropped, unsent>>
    BY <1>5 DEF UploaderWait, DrainBegin, WifiConnected, WifiWaitFails, Post, PostFails, DrainEnd
  <2>2. Holding' <=> Holding
    BY <1>5 DEF UploaderWait, DrainBegin, WifiConnected, WifiWaitFails, Post, PostFails, DrainEnd,
                Holding
  <2> QED  BY <2>1, <2>2 DEF Pending
<1>6. CASE Release \/ ReleaseNote
  <2>1. UNCHANGED <<queue, acked, dropped, unsent>> /\ ~Holding /\ ~Holding'
    BY <1>6 DEF Release, ReleaseNote, AfterRelease, Holding
  <2> QED  BY <2>1 DEF Pending
<1> QED  BY <1>2, <1>3, <1>4, <1>5, <1>6 DEF Upload

\* The upload runtime implements the bounded first-in-first-out line: a message
\* that xQueueSend() took in leaves once, in order, acknowledged or given up.
THEOREM UplinkRefinement == Spec => ImplementsFifoUplink
<1>1. Init => Uplink!Init
  BY DEF Init, Uplink!Init, Pending, Holding
<1>2. TypeOK /\ LineInv /\ [Next]_vars
        => [Uplink!Next]_<<Pending, acked, dropped \cup unsent>>
  <2> SUFFICES ASSUME TypeOK, LineInv, [Next]_vars
               PROVE  \/ \E m \in Messages : Uplink!Enqueue(m)
                      \/ Uplink!Acknowledge \/ Uplink!GiveUp
                      \/ UNCHANGED <<Pending, acked, dropped, unsent>>
    BY DEF Uplink!Next
  <2> USE DEF queueVars, drainVars, fateVars
  <2>1. ASSUME NEW p \in Producers, Send(p)
        PROVE  \E m \in Messages : Uplink!Enqueue(m)
    <3>1. pmsg[p] \in Messages /\ pmsg[p] # NoMsg
      BY <2>1, UploadAssumption DEF Send, TypeOK
    <3>2. Uplink!Enqueue(pmsg[p])
      BY <2>1, <3>1, PendingBack DEF Send, LineInv
    <3> QED  BY <3>1, <3>2
  <2>2. ASSUME NEW p \in Producers, Produce(p), ~Send(p)
        PROVE  UNCHANGED <<Pending, acked, dropped, unsent>>
    BY <2>2 DEF Produce, EnqueueCall, SignalAlloc, SignalAllocFails, SignalNoteAlloc,
                SendTimeout, ProducerFree, ProducerNoteRelease, Pending, Holding
  <2>3. ASSUME NEW m \in Messages, EnqueueFromIsr(m)
        PROVE  Uplink!Enqueue(m) \/ UNCHANGED <<Pending, acked, dropped, unsent>>
    <3>1. CASE Len(queue) < QueueDepth
      <4>1. m # item
        BY <2>3, UploadAssumption DEF EnqueueFromIsr, LineInv
      <4> QED  BY <2>3, <3>1, <4>1, PendingBack DEF EnqueueFromIsr, LineInv
    <3>2. CASE ~(Len(queue) < QueueDepth)
      BY <2>3, <3>2 DEF EnqueueFromIsr, Pending, Holding
    <3> QED  BY <3>1, <3>2
  <2>4. CASE Upload
    BY <2>4, UplinkUpload
  <2>5. CASE (\E f \in Flushers : Flush(f)) \/ TimerFires \/ WifiUp \/ WifiDown
             \/ ServerAccepts \/ ServerAnswers400 \/ \E r \in late : ServerHandlesLate(r)
    <3>1. UNCHANGED <<queue, item, acked, dropped, unsent>>
      BY <2>5 DEF Flush, FlushClear, FlushSet, FlushWait, FlushOk, FlushTimeout, TimerFires,
                  WifiUp, WifiDown, ServerAccepts, ServerAnswers400, ServerHandlesLate
    <3>2. upc' = upc \/ (upc = "wait" /\ upc' = "drain")
      BY <2>5 DEF Flush, FlushClear, FlushSet, FlushWait, FlushOk, FlushTimeout, TimerFires,
                  WifiUp, WifiDown, ServerAccepts, ServerAnswers400, ServerHandlesLate, SetTrigger
    <3> QED  BY <3>1, <3>2 DEF Pending, Holding
  <2>6. CASE UNCHANGED vars
    BY <2>6 DEF vars, Pending, Holding
  <2> QED
    BY <2>1, <2>2, <2>3, <2>4, <2>5, <2>6 DEF Next, Environment
<1> QED
  BY <1>1, <1>2, TypeCorrect, LineInvariant, PTL DEF Spec, ImplementsFifoUplink, Uplink!Spec

-------------------------------------------------------------------------------
(* The statistics of the sample pool.                                      *)

\* The producers at one of the places K of aetus_enqueue_signal_frame.
At(K) == {p \in Producers : ppc[p] \in K}

\* The releases that were counted under a reason.
Reasons(st) == st.queue_send_failure_release_count + st.validation_failure_release_count
                 + st.upload_success_release_count + st.final_drop_release_count

\* What each critical section does to the three figures PoolInv is about.
LEMMA NoteFigures ==
    ASSUME NEW st \in StatsType, NEW n \in Nat
    PROVE  /\ st.allocated_blocks \in Nat /\ st.release_count \in Nat /\ Reasons(st) \in Nat
           /\ NoteAlloc(st, n).allocated_blocks = st.allocated_blocks + 1
           /\ NoteAlloc(st, n).release_count = st.release_count
           /\ Reasons(NoteAlloc(st, n)) = Reasons(st)
           /\ NoteRelease(st, n).allocated_blocks
                = IF st.allocated_blocks > 0 THEN st.allocated_blocks - 1 ELSE 0
           /\ NoteRelease(st, n).release_count = st.release_count + 1
           /\ Reasons(NoteRelease(st, n)) = Reasons(st)
           /\ NoteAllocFailure(st).allocated_blocks = st.allocated_blocks
           /\ NoteAllocFailure(st).release_count = st.release_count
           /\ Reasons(NoteAllocFailure(st)) = Reasons(st)
           /\ \A s \in {NoteQueueSendFailure(st), NoteValidationFailure(st),
                        NoteUploadSuccess(st), NoteFinalDrop(st)} :
                /\ s.allocated_blocks = st.allocated_blocks
                /\ s.release_count = st.release_count
                /\ Reasons(s) = Reasons(st) + 1
<1>1. /\ st.allocated_blocks \in Nat /\ st.release_count \in Nat /\ Reasons(st) \in Nat
      /\ st.queue_send_failure_release_count \in Nat /\ st.validation_failure_release_count \in Nat
      /\ st.upload_success_release_count \in Nat /\ st.final_drop_release_count \in Nat
  BY DEF StatsType, Reasons
<1>2. /\ NoteAlloc(st, n).allocated_blocks = st.allocated_blocks + 1
      /\ NoteAlloc(st, n).release_count = st.release_count
      /\ Reasons(NoteAlloc(st, n)) = Reasons(st)
  BY DEF StatsType, NoteAlloc, Reasons
<1>3. /\ NoteRelease(st, n).allocated_blocks
           = IF st.allocated_blocks > 0 THEN st.allocated_blocks - 1 ELSE 0
      /\ NoteRelease(st, n).release_count = st.release_count + 1
      /\ Reasons(NoteRelease(st, n)) = Reasons(st)
  BY DEF StatsType, NoteRelease, Reasons
<1>4. /\ NoteAllocFailure(st).allocated_blocks = st.allocated_blocks
      /\ NoteAllocFailure(st).release_count = st.release_count
      /\ Reasons(NoteAllocFailure(st)) = Reasons(st)
  BY DEF StatsType, NoteAllocFailure, Reasons
<1>5. /\ NoteQueueSendFailure(st).allocated_blocks = st.allocated_blocks
      /\ NoteQueueSendFailure(st).release_count = st.release_count
      /\ Reasons(NoteQueueSendFailure(st)) = Reasons(st) + 1
  BY <1>1 DEF StatsType, NoteQueueSendFailure, Reasons
<1>6. /\ NoteValidationFailure(st).allocated_blocks = st.allocated_blocks
      /\ NoteValidationFailure(st).release_count = st.release_count
      /\ Reasons(NoteValidationFailure(st)) = Reasons(st) + 1
  BY <1>1 DEF StatsType, NoteValidationFailure, Reasons
<1>7. /\ NoteUploadSuccess(st).allocated_blocks = st.allocated_blocks
      /\ NoteUploadSuccess(st).release_count = st.release_count
      /\ Reasons(NoteUploadSuccess(st)) = Reasons(st) + 1
  BY <1>1 DEF StatsType, NoteUploadSuccess, Reasons
<1>8. /\ NoteFinalDrop(st).allocated_blocks = st.allocated_blocks
      /\ NoteFinalDrop(st).release_count = st.release_count
      /\ Reasons(NoteFinalDrop(st)) = Reasons(st) + 1
  BY <1>1 DEF StatsType, NoteFinalDrop, Reasons
<1> QED  BY <1>1, <1>2, <1>3, <1>4, <1>5, <1>6, <1>7, <1>8

\* The uploader has freed a block that is still to be noted.
ToNote == IF upc = "noteRelease" THEN 1 ELSE 0

\* The uploader has counted the reason of a release that is still to be noted.
ToRelease == IF upc \in {"release", "noteRelease"} /\ item \in Signals THEN 1 ELSE 0

\* PoolInv with the producers counted by place.
PoolFigures ==
    /\ IsFiniteSet({p \in Producers : ppc[p] # "idle"})
    /\ IsFiniteSet(heap)
    /\ stats.allocated_blocks + Cardinality(At({"noteAlloc"}))
         = Cardinality(heap) + Cardinality(At({"noteRelease"})) + ToNote
    /\ Reasons(stats)
         = stats.release_count + Cardinality(At({"free", "noteRelease"})) + ToRelease

\* The two ways to write PoolInv agree, before and after a step.
LEMMA PoolByPlace == (PoolInv <=> PoolFigures) /\ (PoolInv' <=> PoolFigures')
<1>1. /\ At({"noteAlloc"}) = {p \in Producers : ppc[p] = "noteAlloc"}
      /\ At({"noteRelease"}) = {p \in Producers : ppc[p] = "noteRelease"}
      /\ At({"free", "noteRelease"}) = {p \in Producers : ppc[p] \in {"free", "noteRelease"}}
  BY DEF At
<1>2. /\ At({"noteAlloc"})' = {p \in Producers : ppc'[p] = "noteAlloc"}
      /\ At({"noteRelease"})' = {p \in Producers : ppc'[p] = "noteRelease"}
      /\ At({"free", "noteRelease"})' = {p \in Producers : ppc'[p] \in {"free", "noteRelease"}}
  BY DEF At
<1>3. PoolInv <=> PoolFigures
  BY <1>1 DEF PoolInv, PoolFigures, BlocksExact, ReleasesHaveAReason, Reasons, ToNote, ToRelease
<1>4. PoolInv' <=> PoolFigures'
  BY <1>2 DEF PoolInv, PoolFigures, BlocksExact, ReleasesHaveAReason, Reasons, ToNote, ToRelease
<1> QED  BY <1>3, <1>4

\* The places that do not count idle producers hold finitely many.
LEMMA AtFinite ==
    ASSUME PoolInv, NEW K, "idle" \notin K
    PROVE  IsFiniteSet(At(K)) /\ Cardinality(At(K)) \in Nat
<1>1. At(K) \in SUBSET {p \in Producers : ppc[p] # "idle"}
  BY DEF At
<1>2. IsFiniteSet({p \in Producers : ppc[p] # "idle"})
  BY DEF PoolInv
<1>3. IsFiniteSet(At(K))
  BY <1>1, <1>2, FS_Subset
<1> QED  BY <1>3, FS_CardinalityType

\* How the number of producers at a place changes when one of them moves.
LEMMA AtMoves ==
    ASSUME TypeOK, PoolInv, NEW K, "idle" \notin K,
           NEW p \in Producers, NEW v, ppc' = [ppc EXCEPT ![p] = v]
    PROVE  Cardinality(At(K)')
             = Cardinality(At(K)) - (IF ppc[p] \in K THEN 1 ELSE 0) + (IF v \in K THEN 1 ELSE 0)
<1>1. \A q \in Producers : ppc'[q] = IF q = p THEN v ELSE ppc[q]
  BY DEF TypeOK
<1>2. IsFiniteSet(At(K)) /\ Cardinality(At(K)) \in Nat
  BY AtFinite
<1>3. IsFiniteSet(At(K) \ {p})
      /\ Cardinality(At(K) \ {p}) = Cardinality(At(K)) - (IF ppc[p] \in K THEN 1 ELSE 0)
  BY <1>2, FS_RemoveElement DEF At
<1>4. CASE v \in K
  <2>1. At(K)' = (At(K) \ {p}) \cup {p}
    BY <1>1, <1>4 DEF At
  <2>2. Cardinality((At(K) \ {p}) \cup {p}) = Cardinality(At(K) \ {p}) + 1
    BY <1>3, FS_AddElement
  <2> QED  BY <1>3, <1>4, <2>1, <2>2
<1>5. CASE v \notin K
  <2>1. At(K)' = At(K) \ {p}
    BY <1>1, <1>5 DEF At
  <2> QED  BY <1>2, <1>3, <1>5, <2>1
<1> QED  BY <1>4, <1>5

\* The busy producers stay finitely many when one of them moves.
LEMMA BusyFinite ==
    ASSUME TypeOK, PoolInv, NEW p \in Producers, NEW v, ppc' = [ppc EXCEPT ![p] = v]
    PROVE  IsFiniteSet({q \in Producers : ppc'[q] # "idle"})
<1> DEFINE Busy == {q \in Producers : ppc[q] # "idle"}
<1>1. \A q \in Producers : ppc'[q] = IF q = p THEN v ELSE ppc[q]
  BY DEF TypeOK
<1>2. IsFiniteSet(Busy \cup {p})
  BY FS_AddElement DEF PoolInv
<1>3. {q \in Producers : ppc'[q] # "idle"} \in SUBSET (Busy \cup {p})
  BY <1>1
<1> QED  BY <1>2, <1>3, FS_Subset

\* The level cannot saturate: a release is noted after its allocation was.
LEMMA BlocksNotedFirst ==
    ASSUME TypeOK, LineInv, BlocksHaveAnOwner, PoolInv,
           upc = "noteRelease" \/ \E p \in Producers : ppc[p] = "noteRelease"
    PROVE  stats.allocated_blocks > 0
<1> DEFINE A == At({"noteAlloc"})
           R == At({"noteRelease"})
           f == [p \in A |-> pmsg[p]]
<1>1. /\ IsFiniteSet(A) /\ Cardinality(A) \in Nat
      /\ IsFiniteSet(R) /\ Cardinality(R) \in Nat
  BY AtFinite
<1>2. IsFiniteSet(heap) /\ Cardinality(heap) \in Nat
  BY FS_CardinalityType DEF PoolInv
<1>3. Cardinality(A) <= Cardinality(heap)
  <2>1. \A p \in A : pmsg[p] \in heap
    BY DEF At, TypeOK, BlocksHaveAnOwner
  <2>2. \A p, q \in A : pmsg[p] = pmsg[q] => p = q
    BY UploadAssumption DEF At, TypeOK, LineInv
  <2>3. f \in Injection(A, heap)
    BY <2>1, <2>2 DEF Injection, IsInjective
  <2> QED  BY <1>2, <2>3, FS_Injection
<1>4. (\E p \in Producers : ppc[p] = "noteRelease") => Cardinality(R) # 0
  BY <1>1, FS_EmptySet DEF At
<1>5. stats.allocated_blocks + Cardinality(A)
        = Cardinality(heap) + Cardinality(R) + (IF upc = "noteRelease" THEN 1 ELSE 0)
  BY PoolByPlace DEF PoolFigures, ToNote
<1>6. stats.allocated_blocks \in Nat
  BY DEF TypeOK, StatsType
<1> HIDE DEF A, R
<1> QED  BY <1>1, <1>2, <1>3, <1>4, <1>5, <1>6

\* A step of a producer.
LEMMA PoolProduce ==
    ASSUME TypeOK, LineInv, BlocksHaveAnOwner, PoolInv, NEW p \in Producers, Produce(p)
    PROVE  PoolInv'
<1> USE DEF queueVars, poolVars, drainVars, serverVars, fateVars, prodVars, flushVars
<1> DEFINE N1 == Cardinality(At({"noteAlloc"}))
           N2 == Cardinality(At({"noteRelease"}))
           N3 == Cardinality(At({"free", "noteRelease"}))
           H  == Cardinality(heap)
           u1 == ToNote
           u2 == ToRelease
<1>1. /\ stats \in StatsType /\ stats.allocated_blocks \in Nat /\ stats.release_count \in Nat
      /\ Reasons(stats) \in Nat /\ u1 \in Nat /\ u2 \in Nat
  <2>1. stats \in StatsType
    BY DEF TypeOK
  <2>2. 0 \in Nat /\ u1 \in Nat /\ u2 \in Nat
    BY DEF ToNote, ToRelease
  <2> QED  BY <2>1, <2>2, NoteFigures
<1>2. N1 \in Nat /\ N2 \in Nat /\ N3 \in Nat /\ H \in Nat /\ IsFiniteSet(heap)
  BY AtFinite, FS_CardinalityType DEF PoolInv
<1>3. /\ stats.allocated_blocks + N1 = H + N2 + u1
      /\ Reasons(stats) = stats.release_count + N3 + u2
  BY PoolByPlace DEF PoolFigures
<1>4. UNCHANGED <<upc, item>>
  BY DEF Produce, EnqueueCall, SignalAlloc, SignalAllocFails, SignalNoteAlloc, Send,
         SendTimeout, ProducerFree, ProducerNoteRelease
<1>5. u1' = u1 /\ u2' = u2
  BY <1>4 DEF ToNote, ToRelease
<1>6. ASSUME NEW v \in {"idle", "noteAlloc", "send", "free", "noteRelease"},
             ppc' = [ppc EXCEPT ![p] = v]
      PROVE  /\ N1' = N1 - (IF ppc[p] = "noteAlloc" THEN 1 ELSE 0)
                         + (IF v = "noteAlloc" THEN 1 ELSE 0)
             /\ N2' = N2 - (IF ppc[p] = "noteRelease" THEN 1 ELSE 0)
                         + (IF v = "noteRelease" THEN 1 ELSE 0)
             /\ N3' = N3 - (IF ppc[p] \in {"free", "noteRelease"} THEN 1 ELSE 0)
                         + (IF v \in {"free", "noteRelease"} THEN 1 ELSE 0)
             /\ IsFiniteSet({q \in Producers : ppc'[q] # "idle"})
  <2>1. N1' = N1 - (IF ppc[p] \in {"noteAlloc"} THEN 1 ELSE 0)
                 + (IF v \in {"noteAlloc"} THEN 1 ELSE 0)
    BY <1>6, AtMoves
  <2>2. N2' = N2 - (IF ppc[p] \in {"noteRelease"} THEN 1 ELSE 0)
                 + (IF v \in {"noteRelease"} THEN 1 ELSE 0)
    BY <1>6, AtMoves
  <2>3. N3' = N3 - (IF ppc[p] \in {"free", "noteRelease"} THEN 1 ELSE 0)
                 + (IF v \in {"free", "noteRelease"} THEN 1 ELSE 0)
    BY <1>6, AtMoves
  <2> HIDE DEF N1, N2, N3
  <2> QED  BY <1>6, <2>1, <2>2, <2>3, BusyFinite
<1> SUFFICES /\ IsFiniteSet({q \in Producers : ppc'[q] # "idle"})
             /\ IsFiniteSet(heap')
             /\ stats'.allocated_blocks + N1' = H' + N2' + u1'
             /\ Reasons(stats') = stats'.release_count + N3' + u2'
  BY PoolByPlace DEF PoolFigures
<1> HIDE DEF N1, N2, N3, u1, u2
<1>7. ASSUME NEW m \in Messages, EnqueueCall(p, m)
      PROVE  /\ IsFiniteSet({q \in Producers : ppc'[q] # "idle"})
             /\ IsFiniteSet(heap')
             /\ stats'.allocated_blocks + N1' = H' + N2' + u1'
             /\ Reasons(stats') = stats'.release_count + N3' + u2'
  <2>1. ppc[p] = "idle" /\ ppc' = [ppc EXCEPT ![p] = "send"] /\ UNCHANGED <<heap, stats>>
    BY <1>7 DEF EnqueueCall
  <2>2. N1' = N1 /\ N2' = N2 /\ N3' = N3 /\ IsFiniteSet({q \in Producers : ppc'[q] # "idle"})
    BY <1>2, <1>6, <2>1
  <2> QED  BY <1>2, <1>3, <1>5, <2>1, <2>2
<1>8. ASSUME NEW m \in Messages, SignalAlloc(p, m)
      PROVE  /\ IsFiniteSet({q \in Producers : ppc'[q] # "idle"})
             /\ IsFiniteSet(heap')
             /\ stats'.allocated_blocks + N1' = H' + N2' + u1'
             /\ Reasons(stats') = stats'.release_count + N3' + u2'
  <2>1. /\ ppc[p] = "idle" /\ ppc' = [ppc EXCEPT ![p] = "noteAlloc"]
        /\ heap' = heap \cup {m} /\ UNCHANGED stats /\ m \notin used
    BY <1>8 DEF SignalAlloc
  <2>2. heap \subseteq used
    BY UploadAssumption DEF BlocksHaveAnOwner, LineInv, TypeOK, Messages
  <2>3. IsFiniteSet(heap') /\ H' = H + 1
    BY <1>2, <2>1, <2>2, FS_AddElement
  <2>4. N1' = N1 + 1 /\ N2' = N2 /\ N3' = N3
        /\ IsFiniteSet({q \in Producers : ppc'[q] # "idle"})
    BY <1>2, <1>6, <2>1
  <2> HIDE DEF H
  <2> QED  BY <1>1, <1>2, <1>3, <1>5, <2>1, <2>3, <2>4
<1>9. ASSUME NEW m \in Messages, SignalAllocFails(p, m)
      PROVE  /\ IsFiniteSet({q \in Producers : ppc'[q] # "idle"})
             /\ IsFiniteSet(heap')
             /\ stats'.allocated_blocks + N1' = H' + N2' + u1'
             /\ Reasons(stats') = stats'.release_count + N3' + u2'
  <2>1. UNCHANGED <<ppc, heap>> /\ stats' = NoteAllocFailure(stats)
    BY <1>9 DEF SignalAllocFails
  <2>2. N1' = N1 /\ N2' = N2 /\ N3' = N3
    BY <2>1 DEF N1, N2, N3, At
  <2>3. IsFiniteSet({q \in Producers : ppc[q] # "idle"})
    BY DEF PoolInv
  <2>4. 0 \in Nat /\ stats'.allocated_blocks = stats.allocated_blocks
        /\ stats'.release_count = stats.release_count /\ Reasons(stats') = Reasons(stats)
    BY <1>1, <2>1, NoteFigures
  <2> QED  BY <1>2, <1>3, <1>5, <2>1, <2>2, <2>3, <2>4
<1>10. CASE SignalNoteAlloc(p)
  <2>1. /\ ppc[p] = "noteAlloc" /\ ppc' = [ppc EXCEPT ![p] = "send"] /\ UNCHANGED heap
        /\ stats' = NoteAlloc(stats, Size[pmsg[p]])
    BY <1>10 DEF SignalNoteAlloc
  <2>2. Size[pmsg[p]] \in Nat
    BY <2>1, UploadAssumption DEF TypeOK
  <2>3. /\ stats'.allocated_blocks = stats.allocated_blocks + 1
        /\ stats'.release_count = stats.release_count /\ Reasons(stats') = Reasons(stats)
    BY <1>1, <2>1, <2>2, NoteFigures
  <2>4. N1' = N1 - 1 /\ N2' = N2 /\ N3' = N3
        /\ IsFiniteSet({q \in Producers : ppc'[q] # "idle"})
    BY <1>2, <1>6, <2>1
  <2>5. H' = H
    BY <2>1
  <2> HIDE DEF H
  <2> QED  BY <1>1, <1>2, <1>3, <1>5, <2>1, <2>3, <2>4, <2>5
<1>11. CASE Send(p)
  <2>1. ppc[p] = "send" /\ ppc' = [ppc EXCEPT ![p] = "idle"] /\ UNCHANGED <<heap, stats>>
    BY <1>11 DEF Send
  <2>2. N1' = N1 /\ N2' = N2 /\ N3' = N3 /\ IsFiniteSet({q \in Producers : ppc'[q] # "idle"})
    BY <1>2, <1>6, <2>1
  <2> QED  BY <1>2, <1>3, <1>5, <2>1, <2>2
<1>12. CASE SendTimeout(p)
  <2>1. ppc[p] = "send" /\ UNCHANGED heap
    BY <1>12 DEF SendTimeout
  <2>2. CASE ppc' = [ppc EXCEPT ![p] = "free"] /\ stats' = NoteQueueSendFailure(stats)
    <3>1. 0 \in Nat /\ stats'.allocated_blocks = stats.allocated_blocks
          /\ stats'.release_count = stats.release_count /\ Reasons(stats') = Reasons(stats) + 1
      BY <1>1, <2>2, NoteFigures
    <3>2. N1' = N1 /\ N2' = N2 /\ N3' = N3 + 1
          /\ IsFiniteSet({q \in Producers : ppc'[q] # "idle"})
      BY <1>2, <1>6, <2>1, <2>2
    <3>3. H' = H
      BY <2>1
    <3> HIDE DEF H
    <3> QED  BY <1>1, <1>2, <1>3, <1>5, <2>1, <3>1, <3>2, <3>3
  <2>3. CASE ppc' = [ppc EXCEPT ![p] = "idle"] /\ stats' = stats
    <3>1. N1' = N1 /\ N2' = N2 /\ N3' = N3
          /\ IsFiniteSet({q \in Producers : ppc'[q] # "idle"})
      BY <1>2, <1>6, <2>1, <2>3
    <3> QED  BY <1>2, <1>3, <1>5, <2>1, <2>3, <3>1
  <2> QED  BY <1>12, <2>2, <2>3 DEF SendTimeout
<1>13. CASE ProducerFree(p)
  <2>1. /\ ppc[p] = "free" /\ ppc' = [ppc EXCEPT ![p] = "noteRelease"]
        /\ heap' = heap \ {pmsg[p]} /\ UNCHANGED stats
    BY <1>13 DEF ProducerFree
  <2>2. pmsg[p] \in heap
    BY <2>1 DEF BlocksHaveAnOwner, TypeOK
  <2>3. IsFiniteSet(heap') /\ H' = H - 1
    BY <1>2, <2>1, <2>2, FS_RemoveElement
  <2>4. N1' = N1 /\ N2' = N2 + 1 /\ N3' = N3
        /\ IsFiniteSet({q \in Producers : ppc'[q] # "idle"})
    BY <1>2, <1>6, <2>1
  <2> HIDE DEF H
  <2> QED  BY <1>1, <1>2, <1>3, <1>5, <2>1, <2>3, <2>4
<1>14. CASE ProducerNoteRelease(p)
  <2>1. /\ ppc[p] = "noteRelease" /\ ppc' = [ppc EXCEPT ![p] = "idle"] /\ UNCHANGED heap
        /\ stats' = NoteRelease(stats, Size[pmsg[p]])
    BY <1>14 DEF ProducerNoteRelease
  <2>2. Size[pmsg[p]] \in Nat
    BY <2>1, UploadAssumption DEF TypeOK
  <2>3. stats.allocated_blocks > 0
    BY <2>1, BlocksNotedFirst
  <2>4. /\ stats'.allocated_blocks = stats.allocated_blocks - 1
        /\ stats'.release_count = stats.release_count + 1 /\ Reasons(stats') = Reasons(stats)
    BY <1>1, <2>1, <2>2, <2>3, NoteFigures
  <2>5. N1' = N1 /\ N2' = N2 - 1 /\ N3' = N3 - 1
        /\ IsFiniteSet({q \in Producers : ppc'[q] # "idle"})
    BY <1>2, <1>6, <2>1
  <2>6. H' = H
    BY <2>1
  <2> HIDE DEF H
  <2> QED  BY <1>1, <1>2, <1>3, <1>5, <2>1, <2>4, <2>5, <2>6
<1> QED
  BY <1>7, <1>8, <1>9, <1>10, <1>11, <1>12, <1>13, <1>14 DEF Produce

\* The share of the producers in each of the two sums.
BlockShare == stats.allocated_blocks - (Cardinality(heap) + ToNote)
ReasonShare == Reasons(stats) - (stats.release_count + ToRelease)

\* A step that moves no producer keeps the sums exact when it leaves the
\* producers' share in them alone.
LEMMA PoolOthers ==
    ASSUME PoolInv, UNCHANGED <<ppc, BlockShare, ReasonShare>>, IsFiniteSet(heap'),
           stats \in StatsType, stats' \in StatsType
    PROVE  PoolInv'
<1> DEFINE n1 == Cardinality(At({"noteAlloc"}))
           n2 == Cardinality(At({"noteRelease"}))
           n3 == Cardinality(At({"free", "noteRelease"}))
<1>1. n1' = n1 /\ n2' = n2 /\ n3' = n3
  BY DEF At
<1>2. n1 \in Nat /\ n2 \in Nat /\ n3 \in Nat
  BY AtFinite
<1>3. Cardinality(heap) \in Nat /\ Cardinality(heap') \in Nat
  BY FS_CardinalityType DEF PoolInv
<1>4. /\ stats.allocated_blocks \in Nat /\ stats'.allocated_blocks \in Nat
      /\ Reasons(stats) \in Nat /\ Reasons(stats') \in Nat
      /\ stats.release_count \in Nat /\ stats'.release_count \in Nat
  BY DEF StatsType, Reasons
<1>5. ToNote \in Nat /\ ToNote' \in Nat /\ ToRelease \in Nat /\ ToRelease' \in Nat
  BY DEF ToNote, ToRelease
<1>6. /\ stats.allocated_blocks + n1 = Cardinality(heap) + n2 + ToNote
      /\ Reasons(stats) = stats.release_count + n3 + ToRelease
  BY PoolByPlace DEF PoolFigures
<1>7. IsFiniteSet({p \in Producers : ppc'[p] # "idle"})
  BY DEF PoolInv
<1> HIDE DEF n1, n2, n3
<1>8. /\ BlockShare = stats.allocated_blocks - (Cardinality(heap) + ToNote)
      /\ BlockShare' = stats'.allocated_blocks - (Cardinality(heap') + ToNote')
      /\ ReasonShare = Reasons(stats) - (stats.release_count + ToRelease)
      /\ ReasonShare' = Reasons(stats') - (stats'.release_count + ToRelease')
      /\ BlockShare' = BlockShare /\ ReasonShare' = ReasonShare
  BY DEF BlockShare, ReasonShare
<1>9. BlockShare = n2 - n1 /\ ReasonShare = n3
  <2>1. BlockShare = stats.allocated_blocks - (Cardinality(heap) + ToNote)
    BY <1>8
  <2>2. stats.allocated_blocks + n1 = Cardinality(heap) + n2 + ToNote
    BY <1>6
  <2>3. BlockShare = n2 - n1
    BY <1>2, <1>3, <1>4, <1>5, <2>1, <2>2
  <2>4. ReasonShare = n3
    BY <1>2, <1>4, <1>5, <1>6, <1>8
  <2> QED  BY <2>3, <2>4
<1>10. stats'.allocated_blocks + n1 = Cardinality(heap') + n2 + ToNote'
  BY <1>2, <1>3, <1>4, <1>5, <1>8, <1>9
<1>11. Reasons(stats') = stats'.release_count + n3 + ToRelease'
  BY <1>2, <1>4, <1>5, <1>8, <1>9
<1> QED  BY <1>1, <1>7, <1>10, <1>11, PoolByPlace DEF PoolFigures, n1, n2, n3

\* A step of the uploader.
LEMMA PoolUpload ==
    ASSUME TypeOK, TypeOK', LineInv, BlocksHaveAnOwner, PoolInv, Upload
    PROVE  PoolInv'
<1> USE DEF queueVars, poolVars, drainVars, serverVars, fateVars, prodVars, flushVars
<1>1. stats \in StatsType /\ stats' \in StatsType /\ UNCHANGED ppc
  BY DEF TypeOK, Upload, UploaderWait, DrainBegin, WifiConnected, WifiWaitFails, Receive,
         EncodeFails, Post, PostOk, PostFails, Requeue, Release, ReleaseNote, DrainEnd
<1>2. /\ IsFiniteSet(heap) /\ Cardinality(heap) \in Nat
      /\ stats.allocated_blocks \in Nat /\ stats.release_count \in Nat /\ Reasons(stats) \in Nat
  <2>1. 0 \in Nat
    OBVIOUS
  <2> QED  BY <1>1, <2>1, FS_CardinalityType, NoteFigures DEF PoolInv
<1>3. CASE UploaderWait \/ DrainBegin \/ WifiConnected \/ WifiWaitFails \/ Receive \/ Post
           \/ PostFails \/ DrainEnd
  <2>1. UNCHANGED <<heap, stats>>
    BY <1>3 DEF UploaderWait, DrainBegin, WifiConnected, WifiWaitFails, Receive, Post, PostFails,
                DrainEnd
  <2>2. upc \notin {"release", "noteRelease"} /\ upc' \notin {"release", "noteRelease"}
    BY <1>3 DEF UploaderWait, DrainBegin, WifiConnected, WifiWaitFails, Receive, Post, PostFails,
                DrainEnd
  <2> QED  BY <1>1, <1>2, <2>1, <2>2, PoolOthers DEF BlockShare, ReasonShare, ToNote, ToRelease
<1>4. CASE EncodeFails \/ PostOk \/ (Requeue /\ upc' = "release")
  <2>1. /\ upc \notin {"release", "noteRelease"} /\ upc' = "release" /\ UNCHANGED <<heap, item>>
        /\ stats' = stats \/ item \in Signals
        /\ item \in Signals =>
             stats' \in {NoteValidationFailure(stats), NoteUploadSuccess(stats), NoteFinalDrop(stats)}
    BY <1>4 DEF EncodeFails, PostOk, Requeue
  <2>2. CASE item \in Signals
    <3>1. 0 \in Nat /\ stats'.allocated_blocks = stats.allocated_blocks
          /\ stats'.release_count = stats.release_count /\ Reasons(stats') = Reasons(stats) + 1
      BY <1>1, <2>1, <2>2, NoteFigures
    <3> QED  BY <1>1, <1>2, <2>1, <2>2, <3>1, PoolOthers DEF BlockShare, ReasonShare, ToNote, ToRelease
  <2>3. CASE item \notin Signals
    BY <1>1, <1>2, <2>1, <2>3, PoolOthers DEF BlockShare, ReasonShare, ToNote, ToRelease
  <2> QED  BY <2>2, <2>3
<1>5. CASE Requeue /\ upc' # "release"
  <2>1. /\ upc \notin {"release", "noteRelease"} /\ upc' \notin {"release", "noteRelease"}
        /\ UNCHANGED <<heap, stats>>
    BY <1>5 DEF Requeue
  <2> QED  BY <1>1, <1>2, <2>1, PoolOthers DEF BlockShare, ReasonShare, ToNote, ToRelease
<1>6. CASE Release
  <2>1. upc = "release" /\ stats' = stats
    BY <1>6 DEF Release
  <2>2. CASE item \in Signals
    <3>1. heap' = heap \ {item} /\ upc' = "noteRelease" /\ item' = item
      BY <1>6, <2>2 DEF Release
    <3>2. item \in heap
      BY <2>1, <2>2 DEF BlocksHaveAnOwner
    <3>3. IsFiniteSet(heap') /\ Cardinality(heap') = Cardinality(heap) - 1
      BY <1>2, <3>1, <3>2, FS_RemoveElement
    <3> QED  BY <1>1, <1>2, <2>1, <2>2, <3>1, <3>3, PoolOthers DEF BlockShare, ReasonShare, ToNote, ToRelease
  <2>3. CASE item \notin Signals
    <3>1. heap' = heap /\ upc' \notin {"release", "noteRelease"}
      BY <1>6, <2>3 DEF Release, AfterRelease
    <3> QED  BY <1>1, <1>2, <2>1, <2>3, <3>1, PoolOthers DEF BlockShare, ReasonShare, ToNote, ToRelease
  <2> QED  BY <2>2, <2>3
<1>7. CASE ReleaseNote
  <2>1. /\ upc = "noteRelease" /\ upc' \notin {"release", "noteRelease"} /\ heap' = heap
        /\ stats' = NoteRelease(stats, Size[item])
    BY <1>7 DEF ReleaseNote, AfterRelease
  <2>2. item \in Signals /\ Size[item] \in Nat
    BY <2>1, UploadAssumption DEF TypeOK
  <2>3. stats.allocated_blocks > 0
    BY <2>1, BlocksNotedFirst
  <2>4. /\ stats'.allocated_blocks = stats.allocated_blocks - 1
        /\ stats'.release_count = stats.release_count + 1 /\ Reasons(stats') = Reasons(stats)
    BY <1>1, <2>1, <2>2, <2>3, NoteFigures
  <2> QED  BY <1>1, <1>2, <2>1, <2>2, <2>4, PoolOthers DEF BlockShare, ReasonShare, ToNote, ToRelease
<1> QED  BY <1>3, <1>4, <1>5, <1>6, <1>7 DEF Upload

\* The block counters of the sample pool are exact in every behaviour.
THEOREM PoolInvariant == Spec => []PoolInv
<1>1. Init => PoolInv
  <2> SUFFICES ASSUME Init
               PROVE  PoolInv
    OBVIOUS
  <2>1. /\ {p \in Producers : ppc[p] # "idle"} = {} /\ heap = {}
        /\ At({"noteAlloc"}) = {} /\ At({"noteRelease"}) = {} /\ At({"free", "noteRelease"}) = {}
    BY DEF Init, At
  <2>2. stats.allocated_blocks = 0 /\ stats.release_count = 0 /\ Reasons(stats) = 0
    BY DEF Init, ResetStats, Reasons
  <2>3. upc = "loop"
    BY DEF Init
  <2> QED  BY <2>1, <2>2, <2>3, FS_EmptySet, PoolByPlace DEF PoolFigures, ToNote, ToRelease
<1>2. TypeOK /\ TypeOK' /\ LineInv /\ BlocksHaveAnOwner /\ PoolInv /\ [Next]_vars => PoolInv'
  <2> SUFFICES ASSUME TypeOK, TypeOK', LineInv, BlocksHaveAnOwner, PoolInv, [Next]_vars
               PROVE  PoolInv'
    OBVIOUS
  <2>1. CASE \E p \in Producers : Produce(p)
    BY <2>1, PoolProduce
  <2>2. CASE Upload
    BY <2>2, PoolUpload
  <2>3. CASE (\E f \in Flushers : Flush(f)) \/ Environment \/ UNCHANGED vars
    <3>1. UNCHANGED <<ppc, heap, stats, item>>
      BY <2>3 DEF Flush, FlushClear, FlushSet, FlushWait, FlushOk, FlushTimeout, Environment,
                  TimerFires, WifiUp, WifiDown, ServerAccepts, ServerAnswers400,
                  ServerHandlesLate, EnqueueFromIsr, poolVars, prodVars, drainVars, vars
    <3>2. upc' = upc \/ (upc = "wait" /\ upc' = "drain")
      BY <2>3 DEF Flush, FlushClear, FlushSet, FlushWait, FlushOk, FlushTimeout, Environment,
                  TimerFires, WifiUp, WifiDown, ServerAccepts, ServerAnswers400,
                  ServerHandlesLate, EnqueueFromIsr, drainVars, SetTrigger, vars
    <3> QED  BY <3>1, <3>2 DEF PoolInv, BlocksExact, ReleasesHaveAReason
  <2> QED  BY <2>1, <2>2, <2>3 DEF Next
<1> QED  BY <1>1, <1>2, TypeCorrect, LineInvariant, BlocksTheorem, PTL DEF Spec

\* allocated_blocks and the four release counters of the sample pool add up.
THEOREM PoolTheorem == Spec => [](BlocksExact /\ ReleasesHaveAReason)
<1>1. PoolInv => BlocksExact /\ ReleasesHaveAReason
  BY DEF PoolInv
<1> QED  BY <1>1, PoolInvariant, PTL


-------------------------------------------------------------------------------
(* Sums over finite sets, for the bytes of the sample pool.                *)

\* Induction over the subsets of a finite set, with the family of the subsets
\* that have the property in the place of the property.
LEMMA FiniteInduction ==
    ASSUME NEW M, IsFiniteSet(M), NEW F \in SUBSET (SUBSET M), {} \in F,
           \A T \in F : \A x \in M \ T : T \cup {x} \in F
    PROVE  M \in F
<1> DEFINE Rest(T) == Cardinality(M \ T)
           N == {Rest(T) : T \in F}
<1>1. \A T \in F : IsFiniteSet(M \ T) /\ Rest(T) \in Nat
  BY FS_Difference, FS_CardinalityType
<1>2. N \in SUBSET Nat /\ N # {}
  BY <1>1
<1>3. \E n \in N : \A k \in N : ~(<<k, n>> \in OpToRel(<, Nat))
  <2> HIDE DEF N
  <2> QED  BY <1>2, NatLessThanWellFounded, WFMin, Zenon
<1>4. PICK T \in F : \A k \in N : ~(<<k, Rest(T)>> \in OpToRel(<, Nat))
  BY <1>3
<1>5. \A U \in F : ~(Rest(U) < Rest(T))
  <2> SUFFICES ASSUME NEW U \in F
               PROVE  ~(Rest(U) < Rest(T))
    OBVIOUS
  <2>1. Rest(U) \in N /\ Rest(U) \in Nat /\ Rest(T) \in Nat
    BY <1>1
  <2>2. ~(<<Rest(U), Rest(T)>> \in OpToRel(<, Nat))
    BY <1>4, <2>1
  <2> HIDE DEF Rest
  <2> QED  BY <2>1, <2>2 DEF OpToRel
<1>6. ASSUME NEW x \in M \ T
      PROVE  FALSE
  <2>1. T \cup {x} \in F
    BY <1>6
  <2>2. M \ (T \cup {x}) = (M \ T) \ {x}
    OBVIOUS
  <2>3. Rest(T \cup {x}) = Rest(T) - 1
    <3>1. IsFiniteSet(M \ T) /\ x \in M \ T
      BY <1>1, <1>6
    <3>2. Cardinality((M \ T) \ {x}) = Cardinality(M \ T) - 1
      BY <3>1, FS_RemoveElement
    <3> QED  BY <2>2, <3>2
  <2>4. Rest(T) \in Nat
    BY <1>1
  <2> HIDE DEF Rest
  <2> QED  BY <1>5, <2>1, <2>3, <2>4
<1> QED  BY <1>6

\* The bytes of a set of sample blocks.
Bytes(S) == MapThenSumSet(LAMBDA m : Size[m], S)

\* One unfolding of the fold that computes it.
Body(it, S) ==
    [s \in SUBSET S |->
       IF s = {} THEN 0
       ELSE Size[CHOOSE x \in s : TRUE] + it[s \ {CHOOSE x \in s : TRUE}]]

\* The fold of the community modules is a recursive function over the subsets.
LEMMA BytesUnfold ==
    ASSUME NEW S
    PROVE  Bytes(S) = (CHOOSE it : it = Body(it, S))[S]
BY Zenon DEF Bytes, MapThenSumSet, MapThenFoldSet, Body

\* g adds up the sizes of the members of every subset of S.
Additive(g, S) ==
    /\ g \in [SUBSET S -> Nat]
    /\ g[{}] = 0
    /\ \A T \in SUBSET S : \A x \in S \ T : g[T \cup {x}] = g[T] + Size[x]

LEMMA AdditiveExists ==
    ASSUME NEW M \in SUBSET Signals, IsFiniteSet(M)
    PROVE  \E g : Additive(g, M)
<1> DEFINE F == {S \in SUBSET M : \E g : Additive(g, S)}
<1>1. {} \in F
  <2>1. Additive([T \in SUBSET {} |-> 0], {})
    BY DEF Additive
  <2> QED  BY <2>1
<1>2. ASSUME NEW R \in F, NEW a \in M \ R
      PROVE  R \cup {a} \in F
  <2>1. PICK g : Additive(g, R)
    OBVIOUS
  <2> DEFINE S == R \cup {a}
             h == [T \in SUBSET S |-> IF a \in T THEN g[T \ {a}] + Size[a] ELSE g[T]]
  <2>2. \A x \in S : Size[x] \in Nat
    BY UploadAssumption
  <2>3. g \in [SUBSET R -> Nat] /\ g[{}] = 0
    BY <2>1 DEF Additive
  <2>4. ASSUME NEW T \in SUBSET S
        PROVE  /\ T \ {a} \in SUBSET R
               /\ a \notin T => T \in SUBSET R
               /\ h[T] = IF a \in T THEN g[T \ {a}] + Size[a] ELSE g[T]
               /\ h[T] \in Nat
    <3>1. T \ {a} \in SUBSET R /\ (a \notin T => T \in SUBSET R) /\ a \in S
      OBVIOUS
    <3>2. g[T \ {a}] \in Nat /\ (a \notin T => g[T] \in Nat) /\ Size[a] \in Nat
      BY <2>2, <2>3, <3>1
    <3> QED  BY <3>1, <3>2
  <2>5. h \in [SUBSET S -> Nat]
    BY <2>4
  <2>6. h[{}] = 0
    BY <2>3, <2>4
  <2>7. ASSUME NEW T \in SUBSET S, NEW x \in S \ T
        PROVE  h[T \cup {x}] = h[T] + Size[x]
    <3>1. T \cup {x} \in SUBSET S
      OBVIOUS
    <3>2. /\ h[T] = IF a \in T THEN g[T \ {a}] + Size[a] ELSE g[T]
          /\ h[T \cup {x}] = IF a \in T \cup {x} THEN g[(T \cup {x}) \ {a}] + Size[a]
                                                 ELSE g[T \cup {x}]
      BY <2>4, <3>1
    <3> HIDE DEF h
    <3>3. CASE x = a
      <4>1. a \notin T /\ (T \cup {x}) \ {a} = T
        BY <3>3
      <4> QED  BY <3>2, <3>3, <4>1
    <3>4. CASE x # a /\ a \in T
      <4>1. (T \cup {x}) \ {a} = (T \ {a}) \cup {x} /\ T \ {a} \in SUBSET R /\ x \in R \ (T \ {a})
        BY <3>4
      <4>2. g[(T \ {a}) \cup {x}] = g[T \ {a}] + Size[x]
        BY <2>1, <4>1 DEF Additive
      <4>3. g[T \ {a}] \in Nat /\ Size[x] \in Nat /\ Size[a] \in Nat
        BY <2>2, <2>3, <4>1
      <4>4. h[T] = g[T \ {a}] + Size[a] /\ h[T \cup {x}] = g[(T \ {a}) \cup {x}] + Size[a]
        BY <3>2, <3>4, <4>1
      <4> QED  BY <4>2, <4>3, <4>4
    <3>5. CASE x # a /\ a \notin T
      <4>1. T \in SUBSET R /\ x \in R \ T
        BY <3>5
      <4>2. g[T \cup {x}] = g[T] + Size[x]
        BY <2>1, <4>1 DEF Additive
      <4> QED  BY <3>2, <3>5, <4>2
    <3> QED  BY <3>3, <3>4, <3>5
  <2>8. Additive(h, S)
    <3> HIDE DEF h, S
    <3> QED  BY <2>5, <2>6, <2>7 DEF Additive
  <2> QED  BY <2>8
<1>3. M \in F
  <2> HIDE DEF F
  <2>1. F \in SUBSET (SUBSET M)
    BY DEF F
  <2> QED  BY <1>1, <1>2, <2>1, FiniteInduction
<1> QED  BY <1>3

\* A function that satisfies the recursive equation is additive, and the other way
\* round.
LEMMA AdditiveUnique ==
    ASSUME NEW S \in SUBSET Signals, IsFiniteSet(S), NEW g, Additive(g, S),
           NEW it, it = Body(it, S)
    PROVE  it = g
<1> DEFINE Same(n) == \A U \in SUBSET S : Cardinality(U) <= n => it[U] = g[U]
           F == {T \in SUBSET S : Same(Cardinality(T))}
<1>1. \A U \in SUBSET S : IsFiniteSet(U) /\ Cardinality(U) \in Nat
  BY FS_Subset, FS_CardinalityType
<1>2. \A U \in SUBSET S :
        it[U] = IF U = {} THEN 0
                ELSE Size[CHOOSE x \in U : TRUE] + it[U \ {CHOOSE x \in U : TRUE}]
  BY DEF Body
<1>3. {} \in F
  <2>1. ASSUME NEW U \in SUBSET S, Cardinality(U) <= Cardinality({})
        PROVE  it[U] = g[U]
    <3>1. Cardinality(U) = 0
      BY <1>1, <2>1, FS_EmptySet
    <3>2. U = {}
      BY <1>1, <3>1, FS_EmptySet
    <3> QED  BY <1>2, <3>2 DEF Additive
  <2> QED  BY <2>1
<1>4. ASSUME NEW T \in F, NEW a \in S \ T
      PROVE  T \cup {a} \in F
  <2>1. Cardinality(T \cup {a}) = Cardinality(T) + 1 /\ Cardinality(T) \in Nat
    BY <1>1, FS_AddElement
  <2>2. ASSUME NEW U \in SUBSET S, Cardinality(U) <= Cardinality(T \cup {a})
        PROVE  it[U] = g[U]
    <3>1. CASE U = {}
      BY <1>2, <3>1 DEF Additive
    <3>2. CASE U # {}
      <4> DEFINE c == CHOOSE x \in U : TRUE
                 V == U \ {c}
      <4>1. c \in U
        BY <3>2
      <4> HIDE DEF c
      <4>2. V \in SUBSET S /\ c \in S \ V /\ V \cup {c} = U
        BY <4>1
      <4>3. Cardinality(V) = Cardinality(U) - 1
        BY <1>1, <4>1, FS_RemoveElement
      <4>4. Cardinality(V) <= Cardinality(T)
        BY <1>1, <2>1, <2>2, <4>2, <4>3
      <4>5. it[V] = g[V]
        BY <4>2, <4>4
      <4>6. it[U] = Size[c] + it[V]
        BY <1>2, <3>2 DEF c
      <4>7. g[U] = g[V] + Size[c]
        BY <4>2 DEF Additive
      <4>8. g[V] \in Nat /\ Size[c] \in Nat
        BY <4>2, UploadAssumption DEF Additive
      <4> QED  BY <4>5, <4>6, <4>7, <4>8
    <3> QED  BY <3>1, <3>2
  <2> QED  BY <2>2
<1>5. S \in F
  <2> HIDE DEF F
  <2>1. F \in SUBSET (SUBSET S)
    BY DEF F
  <2> QED  BY <1>3, <1>4, <2>1, FiniteInduction
<1>6. \A U \in SUBSET S : it[U] = g[U]
  <2> SUFFICES ASSUME NEW U \in SUBSET S
               PROVE  it[U] = g[U]
    OBVIOUS
  <2>1. Cardinality(U) <= Cardinality(S)
    BY FS_Subset
  <2> QED  BY <1>5, <2>1
<1>7. it = [U \in SUBSET S |-> it[U]] /\ g = [U \in SUBSET S |-> g[U]]
  BY DEF Body, Additive
<1> QED  BY <1>6, <1>7
\* The bytes of a set are what an additive function says of it.
LEMMA BytesByAdditive ==
    ASSUME NEW S \in SUBSET Signals, IsFiniteSet(S), NEW g, Additive(g, S)
    PROVE  Bytes(S) = g[S]
<1>1. g = Body(g, S)
  <2>1. ASSUME NEW U \in SUBSET S
        PROVE  g[U] = Body(g, S)[U]
    <3>1. CASE U = {}
      BY <3>1 DEF Additive, Body
    <3>2. CASE U # {}
      <4> DEFINE c == CHOOSE x \in U : TRUE
      <4>1. c \in U
        BY <3>2
      <4>2. Body(g, S)[U] = Size[c] + g[U \ {c}]
        BY <3>2 DEF Body
      <4> HIDE DEF c
      <4>3. U \ {c} \in SUBSET S /\ c \in S \ (U \ {c}) /\ (U \ {c}) \cup {c} = U
        BY <4>1
      <4>4. g[U] = g[U \ {c}] + Size[c]
        BY <4>3 DEF Additive
      <4>5. g[U \ {c}] \in Nat /\ Size[c] \in Nat
        BY <4>3, UploadAssumption DEF Additive
      <4> QED  BY <4>2, <4>4, <4>5
    <3> QED  BY <3>1, <3>2
  <2>2. g = [U \in SUBSET S |-> g[U]] /\ Body(g, S) = [U \in SUBSET S |-> Body(g, S)[U]]
    BY DEF Additive, Body
  <2> QED  BY <2>1, <2>2
<1> DEFINE it == CHOOSE f : f = Body(f, S)
<1>2. it = Body(it, S)
  <2> HIDE DEF Body
  <2> QED  BY <1>1
<1>3. Bytes(S) = it[S]
  BY BytesUnfold
<1> HIDE DEF it
<1>4. it = g
  BY <1>2, AdditiveUnique
<1> QED  BY <1>3, <1>4

\* A block more adds its size.
LEMMA BytesAdd ==
    ASSUME NEW S \in SUBSET Signals, IsFiniteSet(S), NEW m \in Signals \ S
    PROVE  /\ Bytes(S) \in Nat
           /\ Size[m] \in Nat
           /\ Bytes(S \cup {m}) = Bytes(S) + Size[m]
<1> DEFINE T == S \cup {m}
<1>1. T \in SUBSET Signals /\ IsFiniteSet(T)
  BY FS_AddElement
<1>2. PICK g : Additive(g, T)
  BY <1>1, AdditiveExists
<1> DEFINE h == [U \in SUBSET S |-> g[U]]
<1>3. Additive(h, S)
  <2>1. SUBSET S \subseteq SUBSET T /\ {} \in SUBSET S
    OBVIOUS
  <2>2. h \in [SUBSET S -> Nat] /\ h[{}] = 0
    BY <1>2, <2>1 DEF Additive
  <2>3. ASSUME NEW U \in SUBSET S, NEW x \in S \ U
        PROVE  h[U \cup {x}] = h[U] + Size[x]
    <3>1. U \cup {x} \in SUBSET S /\ U \in SUBSET T /\ x \in T \ U
      OBVIOUS
    <3>2. g[U \cup {x}] = g[U] + Size[x]
      BY <1>2, <3>1 DEF Additive
    <3> QED  BY <3>1, <3>2
  <2> HIDE DEF h
  <2> QED  BY <2>2, <2>3 DEF Additive
<1>4. Bytes(S) = h[S]
  <2> HIDE DEF h
  <2> QED  BY <1>3, BytesByAdditive
<1>5. Bytes(T) = g[T]
  BY <1>1, <1>2, BytesByAdditive
<1>6. S \in SUBSET T /\ m \in T \ S
  OBVIOUS
<1>7. g[T] = g[S] + Size[m] /\ g[S] \in Nat
  BY <1>2, <1>6 DEF Additive
<1>8. Size[m] \in Nat
  BY UploadAssumption
<1> QED  BY <1>4, <1>5, <1>7, <1>8

\* A block less takes its size away.
LEMMA BytesRemove ==
    ASSUME NEW S \in SUBSET Signals, IsFiniteSet(S), NEW m \in S
    PROVE  /\ Bytes(S) \in Nat
           /\ Bytes(S) >= Size[m]
           /\ Bytes(S \ {m}) = Bytes(S) - Size[m]
<1>1. /\ S \ {m} \in SUBSET Signals /\ IsFiniteSet(S \ {m})
      /\ m \in Signals \ (S \ {m}) /\ (S \ {m}) \cup {m} = S
  BY FS_RemoveElement
<1>2. /\ Bytes(S \ {m}) \in Nat /\ Size[m] \in Nat
      /\ Bytes((S \ {m}) \cup {m}) = Bytes(S \ {m}) + Size[m]
  BY <1>1, BytesAdd
<1>3. Bytes(S) = Bytes(S \ {m}) + Size[m]
  BY <1>1, <1>2
<1> HIDE DEF Bytes
<1> QED  BY <1>2, <1>3

LEMMA BytesOfNone == Bytes({}) = 0
<1>1. {} \in SUBSET Signals /\ IsFiniteSet({})
  BY FS_EmptySet
<1>2. PICK g : Additive(g, {})
  BY <1>1, AdditiveExists
<1> QED  BY <1>1, <1>2, BytesByAdditive DEF Additive

-------------------------------------------------------------------------------
(* The blocks that are accounted for.                                      *)

\* Who is in Noted, before and after a step.
LEMMA NotedMember ==
    /\ \A m : m \in Noted <=>
         \/ m \in heap /\ ~ \E p \in Producers : ppc[p] = "noteAlloc" /\ m = pmsg[p]
         \/ \E p \in Producers : ppc[p] = "noteRelease" /\ m = pmsg[p]
         \/ upc = "noteRelease" /\ m = item
    /\ \A m : m \in Noted' <=>
         \/ m \in heap' /\ ~ \E p \in Producers : ppc'[p] = "noteAlloc" /\ m = pmsg'[p]
         \/ \E p \in Producers : ppc'[p] = "noteRelease" /\ m = pmsg'[p]
         \/ upc' = "noteRelease" /\ m = item'
BY DEF Noted

\* Only finitely many blocks are accounted for.
LEMMA NotedFinite ==
    ASSUME TypeOK, PoolInv
    PROVE  Noted \in SUBSET Signals /\ IsFiniteSet(Noted)
<1> DEFINE R == At({"noteRelease"})
           I == {pmsg[p] : p \in R}
<1>1. IsFiniteSet(R)
  BY AtFinite
<1>2. IsFiniteSet(I)
  <2> HIDE DEF R
  <2> DEFINE f == [p \in R |-> pmsg[p]]
  <2>1. f \in Surjection(R, I)
    BY DEF Surjection
  <2> QED  BY <1>1, <2>1, FS_Surjection
<1>3. IsFiniteSet({item})
  BY FS_Singleton
<1>4. IsFiniteSet((heap \cup I) \cup {item})
  BY <1>2, <1>3, FS_Union DEF PoolInv
<1>5. Noted \in SUBSET ((heap \cup I) \cup {item})
  BY NotedMember DEF At
<1>6. IsFiniteSet(Noted)
  <2> HIDE DEF I
  <2> QED  BY <1>4, <1>5, FS_Subset
<1>7. Noted \in SUBSET Signals
  BY NotedMember DEF TypeOK
<1> QED  BY <1>6, <1>7

-------------------------------------------------------------------------------
(* A step leaves the accounts alone, enters one block or strikes one off.   *)

Quiet == Noted' = Noted /\ UNCHANGED <<stats.allocated_bytes, stats.peak_allocated_bytes>>

Enters(m) ==
    m \in Signals \ Noted /\ Noted' = Noted \cup {m} /\ stats' = NoteAlloc(stats, Size[m])

Strikes(m) ==
    m \in Noted /\ Noted' = Noted \ {m} /\ stats' = NoteRelease(stats, Size[m])

Accounted == Quiet \/ (\E m \in Signals : Enters(m)) \/ (\E m \in Noted : Strikes(m))

\* The critical sections that touch no bytes.
LEMMA NoBytes ==
    ASSUME NEW st \in StatsType,
           NEW s \in {NoteAllocFailure(st), NoteQueueSendFailure(st), NoteValidationFailure(st),
                      NoteUploadSuccess(st), NoteFinalDrop(st)}
    PROVE  /\ s.allocated_bytes = st.allocated_bytes
           /\ s.peak_allocated_bytes = st.peak_allocated_bytes
<1>1. ASSUME s = NoteAllocFailure(st)
      PROVE  /\ s.allocated_bytes = st.allocated_bytes
             /\ s.peak_allocated_bytes = st.peak_allocated_bytes
  BY <1>1 DEF NoteAllocFailure, StatsType
<1>2. ASSUME s = NoteQueueSendFailure(st)
      PROVE  /\ s.allocated_bytes = st.allocated_bytes
             /\ s.peak_allocated_bytes = st.peak_allocated_bytes
  BY <1>2 DEF NoteQueueSendFailure, StatsType
<1>3. ASSUME s = NoteValidationFailure(st)
      PROVE  /\ s.allocated_bytes = st.allocated_bytes
             /\ s.peak_allocated_bytes = st.peak_allocated_bytes
  BY <1>3 DEF NoteValidationFailure, StatsType
<1>4. ASSUME s = NoteUploadSuccess(st)
      PROVE  /\ s.allocated_bytes = st.allocated_bytes
             /\ s.peak_allocated_bytes = st.peak_allocated_bytes
  BY <1>4 DEF NoteUploadSuccess, StatsType
<1>5. ASSUME s = NoteFinalDrop(st)
      PROVE  /\ s.allocated_bytes = st.allocated_bytes
             /\ s.peak_allocated_bytes = st.peak_allocated_bytes
  BY <1>5 DEF NoteFinalDrop, StatsType
<1> QED  BY <1>1, <1>2, <1>3, <1>4, <1>5

\* A step of a producer.
LEMMA ProducerAccounts ==
    ASSUME TypeOK, LineInv, BlocksHaveAnOwner, NEW p \in Producers, Produce(p)
    PROVE  Accounted
<1> USE DEF queueVars, poolVars, drainVars, serverVars, fateVars, prodVars, flushVars
<1>1. /\ stats \in StatsType /\ NoMsg \notin Signals /\ heap \subseteq Signals
      /\ \A q \in Producers : ppc[q] # "idle" => pmsg[q] \in Messages
  BY UploadAssumption DEF TypeOK, Messages
<1>2. /\ \A q \in Producers : (pmsg[q] = NoMsg <=> ppc[q] = "idle")
      /\ \A q \in Producers : ppc[q] \in {"noteAlloc", "free", "noteRelease"} => pmsg[q] \in Signals
      /\ \A q, r \in Producers : pmsg[q] # NoMsg /\ pmsg[q] = pmsg[r] => q = r
      /\ \A q \in Producers : pmsg[q] # NoMsg => pmsg[q] # item /\ pmsg[q] \notin Members(queue)
  BY DEF TypeOK, LineInv
<1>3. /\ ppc \in [Producers -> {"idle", "noteAlloc", "send", "free", "noteRelease"}]
      /\ pmsg \in [Producers -> Messages \cup {NoMsg}]
  BY DEF TypeOK
<1>4. UNCHANGED <<upc, item>>
  BY DEF Produce, EnqueueCall, SignalAlloc, SignalAllocFails, SignalNoteAlloc, Send,
         SendTimeout, ProducerFree, ProducerNoteRelease
<1>5. \A m \in heap : m \in used
  BY UploadAssumption DEF BlocksHaveAnOwner, LineInv, TypeOK, Messages
<1>6. \A q \in Producers :
        /\ ppc[q] \in {"noteAlloc", "free"} => pmsg[q] \in heap
        /\ ppc[q] = "noteRelease" => pmsg[q] \notin heap
  <2>1. ASSUME NEW q \in Producers, ppc[q] \in {"noteAlloc", "free"}
        PROVE  pmsg[q] \in heap
    BY <1>2, <2>1 DEF BlocksHaveAnOwner
  <2>2. ASSUME NEW q \in Producers, ppc[q] = "noteRelease"
        PROVE  pmsg[q] \notin heap
    BY <1>2, <2>2 DEF BlocksHaveAnOwner
  <2> QED  BY <2>1, <2>2
<1>7. ASSUME NEW v, NEW w, ppc' = [ppc EXCEPT ![p] = v], pmsg' = [pmsg EXCEPT ![p] = w],
             ppc[p] \in {"idle", "send"}, v \in {"idle", "send", "free"}, heap' = heap
      PROVE  Noted' = Noted
  BY <1>3, <1>4, <1>7, NotedMember
<1>8. ASSUME NEW m \in Messages, EnqueueCall(p, m)
      PROVE  Accounted
  BY <1>7, <1>8 DEF EnqueueCall, Accounted, Quiet
<1>9. ASSUME NEW m \in Messages, SignalAlloc(p, m)
       PROVE  Accounted
  <2>1. /\ ppc[p] = "idle" /\ m \notin used /\ heap' = heap \cup {m} /\ stats' = stats
        /\ \A q \in Producers : ppc'[q] = IF q = p THEN "noteAlloc" ELSE ppc[q]
        /\ \A q \in Producers : pmsg'[q] = IF q = p THEN m ELSE pmsg[q]
    BY <1>3, <1>9 DEF SignalAlloc
  <2>2. \A q \in Producers : pmsg[q] # NoMsg => pmsg[q] \in used
    BY DEF LineInv
  <2>3. \A x : x \in Noted' <=> x \in Noted
    BY <1>2, <1>4, <1>5, <2>1, <2>2, NotedMember
  <2> QED  BY <2>1, <2>3 DEF Accounted, Quiet
<1>10. ASSUME NEW m \in Messages, SignalAllocFails(p, m)
       PROVE  Accounted
  <2>1. UNCHANGED <<ppc, pmsg, heap, upc, item>> /\ stats' = NoteAllocFailure(stats)
    BY <1>10 DEF SignalAllocFails
  <2>2. Noted' = Noted
    BY <2>1 DEF Noted
  <2> QED  BY <1>1, <2>1, <2>2, NoBytes DEF Accounted, Quiet
<1>11. CASE SignalNoteAlloc(p)
  <2> DEFINE m == pmsg[p]
  <2>1. /\ ppc[p] = "noteAlloc" /\ heap' = heap /\ pmsg' = pmsg
        /\ stats' = NoteAlloc(stats, Size[m])
        /\ \A q \in Producers : ppc'[q] = IF q = p THEN "send" ELSE ppc[q]
    BY <1>3, <1>11 DEF SignalNoteAlloc
  <2>2. m \in Signals /\ m \in heap /\ m # NoMsg /\ m # item
    BY <1>1, <1>2, <1>6, <2>1
  <2>3. \A q \in Producers : pmsg[q] = m <=> q = p
    BY <1>2, <2>2
  <2> HIDE DEF m
  <2>4. m \notin Noted
    BY <2>1, <2>2, <2>3, NotedMember
  <2>5. \A x : x \in Noted' <=> x \in Noted \cup {m}
    BY <1>4, <2>1, <2>2, <2>3, NotedMember
  <2> QED  BY <2>1, <2>2, <2>4, <2>5 DEF Accounted, Enters
<1>12. CASE Send(p)
  BY <1>7, <1>12 DEF Send, Accounted, Quiet
<1>13. CASE SendTimeout(p)
  <2>1. CASE stats' = NoteQueueSendFailure(stats) /\ ppc' = [ppc EXCEPT ![p] = "free"]
              /\ pmsg' = pmsg
    <3>1. ppc[p] = "send" /\ heap' = heap
      BY <1>13 DEF SendTimeout
    <3>2. pmsg' = [pmsg EXCEPT ![p] = pmsg[p]]
      BY <1>3, <2>1
    <3>3. Noted' = Noted
      BY <1>7, <2>1, <3>1, <3>2
    <3> QED  BY <1>1, <2>1, <3>3, NoBytes DEF Accounted, Quiet
  <2>2. CASE stats' = stats /\ ppc' = [ppc EXCEPT ![p] = "idle"]
              /\ pmsg' = [pmsg EXCEPT ![p] = NoMsg]
    BY <1>7, <1>13, <2>2 DEF SendTimeout, Accounted, Quiet
  <2> QED  BY <1>13, <2>1, <2>2 DEF SendTimeout
<1>14. CASE ProducerFree(p)
  <2> DEFINE m == pmsg[p]
  <2>1. /\ ppc[p] = "free" /\ heap' = heap \ {m} /\ pmsg' = pmsg /\ stats' = stats
        /\ \A q \in Producers : ppc'[q] = IF q = p THEN "noteRelease" ELSE ppc[q]
    BY <1>3, <1>14 DEF ProducerFree
  <2>2. m \in Signals /\ m \in heap /\ m # NoMsg
    BY <1>1, <1>2, <1>6, <2>1
  <2>3. \A q \in Producers : pmsg[q] = m <=> q = p
    BY <1>2, <2>2
  <2> HIDE DEF m
  <2>4. \A x : x \in Noted' <=> x \in Noted
    BY <1>4, <2>1, <2>2, <2>3, NotedMember
  <2> QED  BY <2>1, <2>4 DEF Accounted, Quiet
<1>15. CASE ProducerNoteRelease(p)
  <2> DEFINE m == pmsg[p]
  <2>1. /\ ppc[p] = "noteRelease" /\ heap' = heap /\ stats' = NoteRelease(stats, Size[m])
        /\ \A q \in Producers : ppc'[q] = IF q = p THEN "idle" ELSE ppc[q]
        /\ \A q \in Producers : pmsg'[q] = IF q = p THEN NoMsg ELSE pmsg[q]
    BY <1>3, <1>15 DEF ProducerNoteRelease
  <2>2. m \in Signals /\ m \notin heap /\ m # NoMsg /\ m # item
    BY <1>1, <1>2, <1>6, <2>1
  <2>3. \A q \in Producers : pmsg[q] = m <=> q = p
    BY <1>2, <2>2
  <2> HIDE DEF m
  <2>4. m \in Noted
    BY <2>1, <2>3, NotedMember
  <2>5. \A x : x \in Noted' <=> x \in Noted \ {m}
    BY <1>4, <2>1, <2>2, <2>3, NotedMember
  <2> QED  BY <2>1, <2>4, <2>5 DEF Accounted, Strikes
<1> QED
  BY <1>8, <1>9, <1>10, <1>11, <1>12, <1>13, <1>14, <1>15 DEF Produce

\* A step of the uploader.
LEMMA UploaderAccounts ==
    ASSUME TypeOK, LineInv, BlocksHaveAnOwner, Upload
    PROVE  Accounted
<1> USE DEF queueVars, poolVars, drainVars, serverVars, fateVars, prodVars, flushVars
<1>1. /\ stats \in StatsType /\ NoMsg \notin Signals /\ heap \subseteq Signals
      /\ \A q \in Producers : pmsg[q] # NoMsg => pmsg[q] # item
      /\ \A q \in Producers : ppc[q] \in {"noteAlloc", "noteRelease"} => pmsg[q] # NoMsg
  BY UploadAssumption DEF TypeOK, LineInv, Messages
<1>2. UNCHANGED <<ppc, pmsg>>
  BY DEF Upload, UploaderWait, DrainBegin, WifiConnected, WifiWaitFails, Receive,
         EncodeFails, Post, PostOk, PostFails, Requeue, Release, ReleaseNote, DrainEnd
<1>3. ASSUME heap' = heap, upc # "noteRelease", upc' # "noteRelease"
      PROVE  Noted' = Noted
  BY <1>2, <1>3 DEF Noted
<1>4. CASE UploaderWait \/ DrainBegin \/ WifiConnected \/ WifiWaitFails \/ Receive \/ Post
           \/ PostFails \/ DrainEnd
  <2>1. UNCHANGED <<heap, stats>> /\ upc # "noteRelease" /\ upc' # "noteRelease"
    BY <1>4 DEF UploaderWait, DrainBegin, WifiConnected, WifiWaitFails, Receive, Post, PostFails,
                DrainEnd
  <2> QED  BY <1>3, <2>1 DEF Accounted, Quiet
<1>5. CASE EncodeFails \/ PostOk \/ Requeue
  <2>1. /\ heap' = heap /\ upc # "noteRelease" /\ upc' # "noteRelease"
        /\ stats' \in {stats, NoteValidationFailure(stats), NoteUploadSuccess(stats),
                       NoteFinalDrop(stats)}
    BY <1>5 DEF EncodeFails, PostOk, Requeue
  <2>2. Noted' = Noted
    BY <1>3, <2>1
  <2>3. UNCHANGED <<stats.allocated_bytes, stats.peak_allocated_bytes>>
    BY <1>1, <2>1, NoBytes
  <2> QED  BY <2>2, <2>3 DEF Accounted, Quiet
<1>6. CASE Release
  <2>1. upc = "release" /\ stats' = stats
    BY <1>6 DEF Release
  <2>2. CASE item \in Signals
    <3>1. heap' = heap \ {item} /\ upc' = "noteRelease" /\ item' = item
      BY <1>6, <2>2 DEF Release
    <3>2. item \in heap
      BY <2>1, <2>2 DEF BlocksHaveAnOwner
    <3>3. \A x : x \in Noted' <=> x \in Noted
      BY <1>1, <1>2, <2>1, <3>1, <3>2, NotedMember
    <3> QED  BY <2>1, <3>3 DEF Accounted, Quiet
  <2>3. CASE item \notin Signals
    <3>1. heap' = heap /\ upc' # "noteRelease"
      BY <1>6, <2>3 DEF Release, AfterRelease
    <3> QED  BY <1>3, <2>1, <3>1 DEF Accounted, Quiet
  <2> QED  BY <2>2, <2>3
<1>7. CASE ReleaseNote
  <2>1. /\ upc = "noteRelease" /\ upc' # "noteRelease" /\ heap' = heap
        /\ stats' = NoteRelease(stats, Size[item])
    BY <1>7 DEF ReleaseNote, AfterRelease
  <2>2. item \in Signals /\ item # NoMsg /\ item \notin Members(queue)
    BY <1>1, <2>1 DEF TypeOK, LineInv
  <2>3. item \notin heap
    BY <1>1, <2>1, <2>2 DEF BlocksHaveAnOwner, Holding
  <2>4. item \in Noted
    BY <2>1, NotedMember
  <2>5. \A x : x \in Noted' <=> x \in Noted \ {item}
    BY <1>1, <1>2, <2>1, <2>3, NotedMember
  <2> QED  BY <2>1, <2>4, <2>5 DEF Accounted, Strikes
<1> QED  BY <1>4, <1>5, <1>6, <1>7 DEF Upload

\* Nobody else touches a block or its accounts.
LEMMA OthersAccount ==
    ASSUME TypeOK, (\E f \in Flushers : Flush(f)) \/ Environment \/ UNCHANGED vars
    PROVE  Accounted
<1>1. UNCHANGED <<ppc, pmsg, heap, stats, item>>
  BY DEF Flush, FlushClear, FlushSet, FlushWait, FlushOk, FlushTimeout, Environment,
         TimerFires, WifiUp, WifiDown, ServerAccepts, ServerAnswers400,
         ServerHandlesLate, EnqueueFromIsr, poolVars, prodVars, drainVars, vars
<1>2. upc' = upc \/ (upc = "wait" /\ upc' = "drain")
  BY DEF Flush, FlushClear, FlushSet, FlushWait, FlushOk, FlushTimeout, Environment,
         TimerFires, WifiUp, WifiDown, ServerAccepts, ServerAnswers400,
         ServerHandlesLate, EnqueueFromIsr, drainVars, SetTrigger, vars
<1> QED  BY <1>1, <1>2 DEF Accounted, Quiet, Noted

\* Whatever leaves the accounts alone, enters a block or strikes one off keeps the
\* level of bytes exact: it does not saturate, and the peak stays above it.
LEMMA BytesStep ==
    ASSUME TypeOK, PoolInv, BytesExact, Accounted
    PROVE  BytesExact'
<1>1. Noted \in SUBSET Signals /\ IsFiniteSet(Noted)
  BY NotedFinite
<1>2. stats \in StatsType /\ stats.allocated_bytes \in Nat /\ stats.peak_allocated_bytes \in Nat
  BY DEF TypeOK, StatsType
<1>3. /\ stats.allocated_bytes = Bytes(Noted)
      /\ stats.peak_allocated_bytes >= stats.allocated_bytes
  BY DEF BytesExact, Bytes
<1> SUFFICES /\ stats'.allocated_bytes = Bytes(Noted')
             /\ stats'.peak_allocated_bytes >= stats'.allocated_bytes
  BY DEF BytesExact, Bytes, MapThenSumSet, MapThenFoldSet
<1>4. CASE Quiet
  BY <1>3, <1>4 DEF Quiet
<1>5. ASSUME NEW m \in Signals, Enters(m)
      PROVE  /\ stats'.allocated_bytes = Bytes(Noted')
             /\ stats'.peak_allocated_bytes >= stats'.allocated_bytes
  <2>1. Size[m] \in Nat /\ Bytes(Noted') = Bytes(Noted) + Size[m]
    BY <1>1, <1>5, BytesAdd DEF Enters
  <2>2. /\ stats'.allocated_bytes = stats.allocated_bytes + Size[m]
        /\ stats'.peak_allocated_bytes
             = PeakOf(stats.peak_allocated_bytes, stats.allocated_bytes + Size[m])
    BY <1>2, <1>5 DEF Enters, NoteAlloc, StatsType
  <2> HIDE DEF Bytes
  <2> QED  BY <1>2, <1>3, <2>1, <2>2 DEF PeakOf
<1>6. ASSUME NEW m \in Noted, Strikes(m)
      PROVE  /\ stats'.allocated_bytes = Bytes(Noted')
             /\ stats'.peak_allocated_bytes >= stats'.allocated_bytes
  <2>1. Bytes(Noted) >= Size[m] /\ Bytes(Noted') = Bytes(Noted) - Size[m]
    BY <1>1, <1>6, BytesRemove DEF Strikes
  <2>2. Size[m] \in Nat
    BY <1>1, UploadAssumption
  <2>3. /\ stats'.allocated_bytes
             = IF stats.allocated_bytes >= Size[m] THEN stats.allocated_bytes - Size[m] ELSE 0
        /\ stats'.peak_allocated_bytes = stats.peak_allocated_bytes
    BY <1>2, <1>6 DEF Strikes, NoteRelease, StatsType
  <2> HIDE DEF Bytes
  <2> QED  BY <1>2, <1>3, <2>1, <2>2, <2>3
<1> QED  BY <1>4, <1>5, <1>6 DEF Accounted

\* The bytes that the sample pool reports are the bytes of the blocks accounted for,
\* in every behaviour of the upload runtime.
THEOREM BytesTheorem == Spec => []BytesExact
<1>1. Init => BytesExact
  <2> SUFFICES ASSUME Init
               PROVE  BytesExact
    OBVIOUS
  <2>1. Noted = {}
    BY DEF Init, Noted
  <2>2. stats.allocated_bytes = 0 /\ stats.peak_allocated_bytes = 0
    BY DEF Init, ResetStats
  <2>3. stats.allocated_bytes = Bytes(Noted)
    BY <2>1, <2>2, BytesOfNone
  <2> QED  BY <2>2, <2>3 DEF BytesExact, Bytes
<1>2. TypeOK /\ LineInv /\ BlocksHaveAnOwner /\ [Next]_vars => Accounted
  BY ProducerAccounts, UploaderAccounts, OthersAccount DEF Next
<1>3. TypeOK /\ LineInv /\ BlocksHaveAnOwner /\ PoolInv /\ BytesExact /\ [Next]_vars => BytesExact'
  BY <1>2, BytesStep
<1> QED
  BY <1>1, <1>3, TypeCorrect, LineInvariant, BlocksTheorem, PoolInvariant, PTL DEF Spec

\* All the statistics of the sample pool add up (PoolStatisticsExact): the blocks
\* and bytes allocated, the peak, and the releases under their four reasons.
THEOREM StatisticsTheorem == Spec => []PoolStatisticsExact
<1>1. PoolInv /\ BytesExact => PoolStatisticsExact
  BY DEF PoolInv, PoolStatisticsExact
<1> QED  BY <1>1, PoolInvariant, BytesTheorem, PTL
===============================================================================
