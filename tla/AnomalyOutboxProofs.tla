-------------------------- MODULE AnomalyOutboxProofs --------------------------
(***************************************************************************)
(* Theorems about AnomalyOutbox, for any sets of workers, dispatchers,     *)
(* events and endpoints and any number of failures.                        *)
(***************************************************************************)
EXTENDS AnomalyOutbox, FiniteSetTheorems, TLAPS

\* A delivery that is read has the type of PendingDelivery.
LEMMA ReadType ==
    ASSUME TypeOK, NEW r \in Rows
    PROVE  Read(r) \in Deliveries /\ Read(r).row = r
BY DEF Read, Deliveries, TypeOK, Rows

\* NextStatus yields one of the two statuses record_delivery_failure writes, and
\* the back-off is a number of seconds.
LEMMA FailureValues ==
    ASSUME NEW p \in Deliveries
    PROVE  NextStatus(p) \in {"dead_letter", "retry"} /\ Backoff(p.attempt_count) \in Nat
<1>1. NextStatus(p) \in {"dead_letter", "retry"}
  BY DEF NextStatus
<1>2. p.attempt_count \in Nat
  BY DEF Deliveries
<1>3. \A i \in 1..9 : <<1, 2, 4, 8, 16, 32, 64, 128, 256>>[i] \in Nat
  OBVIOUS
<1>4. Backoff(p.attempt_count) \in Nat
  BY <1>2, <1>3 DEF Backoff
<1> QED  BY <1>1, <1>4

\* The type invariant holds initially.
LEMMA TypeInit == Init => TypeOK
<1> SUFFICES ASSUME Init PROVE TypeOK
  OBVIOUS
<1>1. outbox \in [Rows -> [status : Open \cup {"none", "delivered", "dead_letter"},
                           attempt_count : Nat, wait : Nat]]
  BY DEF Init, Open
<1>2. endpoint \in [Endpoints -> [enabled : BOOLEAN, max_attempts : Nat]]
  BY OutboxAssumption DEF Init
<1>3. job \in [Dispatchers -> Deliveries \cup {NoDelivery}]
  BY DEF Init
<1>4. batch \in [Dispatchers -> SUBSET Deliveries] /\ result \in [Dispatchers -> BOOLEAN]
  BY DEF Init
<1>5. dpc \in [Dispatchers -> {"idle", "next", "log", "update"}]
         /\ \A d \in Dispatchers : dpc[d] = "idle"
  BY DEF Init
<1>6. wpc \in [Workers -> {"idle", "select", "insert"}]
         /\ \A w \in Workers : wpc[w] = "idle"
  BY DEF Init
<1>7. wevent \in [Workers -> Events \cup {NoEvent}] /\ wrows \in [Workers -> SUBSET Endpoints]
         /\ wtodo \in [Workers -> SUBSET Endpoints]
  BY DEF Init
<1>8. logged \in [Rows -> Nat] /\ received \subseteq Rows /\ announced \subseteq Rows
         /\ faults \in Nat /\ events \subseteq Events
  BY DEF Init
<1>9. overtaken \in [Rows -> Nat] /\ ceiling \in [Endpoints -> Nat]
  BY <1>2 DEF Init
<1> QED  BY <1>1, <1>2, <1>3, <1>4, <1>5, <1>6, <1>7, <1>8, <1>9 DEF TypeOK

\* No step of the workers, the dispatchers, the administrator or the clock leaves
\* the type invariant.
LEMMA TypeStep == TypeOK /\ [Next]_vars => TypeOK'
<1> SUFFICES ASSUME TypeOK, [Next]_vars PROVE TypeOK'
  OBVIOUS
<1> USE DEF workerVars, dispatchVars
<1>1. ASSUME NEW w \in Workers, NEW v \in Events, Detect(w, v) PROVE TypeOK'
  BY <1>1 DEF Detect, TypeOK
<1>2. ASSUME NEW w \in Workers, SelectEndpoints(w) PROVE TypeOK'
  BY <1>2 DEF SelectEndpoints, TypeOK
<1>3. ASSUME NEW w \in Workers, NEW e \in Endpoints, InsertOutbox(w, e) PROVE TypeOK'
  <2> DEFINE r == <<wevent[w], e>>
  <2>1. r \in Rows
    BY <1>3 DEF InsertOutbox, TypeOK, Rows
  <2>2. outbox' \in [Rows -> [status : Open \cup {"none", "delivered", "dead_letter"},
                              attempt_count : Nat, wait : Nat]]
    <3>1. CASE outbox[r].status = "none"
      <4>1. outbox' = [outbox EXCEPT ![r] = [outbox[r] EXCEPT !.status = "pending"]]
        BY <1>3, <3>1 DEF InsertOutbox
      <4> HIDE DEF r
      <4>2. [outbox[r] EXCEPT !.status = "pending"]
              \in [status : Open \cup {"none", "delivered", "dead_letter"},
                   attempt_count : Nat, wait : Nat]
        BY <2>1 DEF TypeOK, Open
      <4> QED  BY <4>1, <4>2, <2>1 DEF TypeOK
    <3>2. CASE outbox[r].status # "none"
      BY <1>3, <3>2 DEF InsertOutbox, TypeOK
    <3> QED  BY <3>1, <3>2
  <2> QED  BY <1>3, <2>2 DEF InsertOutbox, TypeOK
<1>4. ASSUME NEW w \in Workers, UpdateJobState(w) PROVE TypeOK'
  BY <1>4 DEF UpdateJobState, TypeOK, Rows
<1>5. ASSUME NEW w \in Workers, WorkerFails(w) PROVE TypeOK'
  BY <1>5 DEF WorkerFails, TypeOK
<1>6. ASSUME NEW d \in Dispatchers, Claim(d) PROVE TypeOK'
  <2>1. PICK c \in SUBSET Due : batch' = [batch EXCEPT ![d] = {Read(r) : r \in c}]
    BY <1>6 DEF Claim
  <2>2. {Read(r) : r \in c} \subseteq Deliveries
    BY <2>1, ReadType DEF Due
  <2>3. batch' \in [Dispatchers -> SUBSET Deliveries]
    BY <2>1, <2>2 DEF TypeOK
  <2> QED  BY <1>6, <2>3 DEF Claim, TypeOK
<1>7. ASSUME NEW d \in Dispatchers, BatchDone(d) PROVE TypeOK'
  BY <1>7 DEF BatchDone, TypeOK
<1>8. ASSUME NEW d \in Dispatchers, NEW p \in batch[d], Post(d, p) PROVE TypeOK'
  <2>1. p \in Deliveries /\ p.row \in Rows
    BY DEF TypeOK, Deliveries
  <2>2. received' \subseteq Rows /\ result' \in [Dispatchers -> BOOLEAN]
    BY <1>8, <2>1 DEF Post, TypeOK
  <2> QED  BY <1>8, <2>1, <2>2 DEF Post, TypeOK
<1>9. ASSUME NEW d \in Dispatchers, InsertDelivery(d) PROVE TypeOK'
  <2>1. job[d].row \in Rows
    BY <1>9 DEF InsertDelivery, TypeOK, Deliveries
  <2>2. logged' \in [Rows -> Nat]
    BY <1>9, <2>1 DEF InsertDelivery, TypeOK
  <2>3. dpc' \in [Dispatchers -> {"idle", "next", "log", "update"}]
           /\ \A c \in Dispatchers : dpc'[c] \in {"log", "update"} => job[c] \in Deliveries
    BY <1>9 DEF InsertDelivery, TypeOK
  <2> QED  BY <1>9, <2>2, <2>3 DEF InsertDelivery, TypeOK
<1>10. ASSUME NEW d \in Dispatchers, UpdateDelivered(d) PROVE TypeOK'
  <2>1. job[d].row \in Rows
    BY <1>10 DEF UpdateDelivered, TypeOK, Deliveries
  <2>2. outbox' \in [Rows -> [status : Open \cup {"none", "delivered", "dead_letter"},
                              attempt_count : Nat, wait : Nat]]
    <3>1. outbox \in [Rows -> [status : Open \cup {"none", "delivered", "dead_letter"},
                               attempt_count : Nat, wait : Nat]]
      BY DEF TypeOK
    <3> QED  BY <1>10, <2>1, <3>1 DEF UpdateDelivered
  <2>4. overtaken' \in [Rows -> Nat]
    BY <1>10, <2>1 DEF UpdateDelivered, NoteOvertaken, TypeOK
  <2> QED  BY <1>10, <2>2, <2>4 DEF UpdateDelivered, TypeOK
<1>11. ASSUME NEW d \in Dispatchers, UpdateFailed(d) PROVE TypeOK'
  <2>1. job[d] \in Deliveries /\ job[d].row \in Rows
    BY <1>11 DEF UpdateFailed, TypeOK, Deliveries
  <2>2. NextStatus(job[d]) \in {"dead_letter", "retry"} /\ Backoff(job[d].attempt_count) \in Nat
    BY <2>1, FailureValues
  <2>3. outbox' \in [Rows -> [status : Open \cup {"none", "delivered", "dead_letter"},
                              attempt_count : Nat, wait : Nat]]
    BY <1>11, <2>1, <2>2 DEF UpdateFailed, TypeOK, Open
  <2>4. overtaken' \in [Rows -> Nat]
    BY <1>11, <2>1 DEF UpdateFailed, NoteOvertaken, TypeOK
  <2> QED  BY <1>11, <2>3, <2>4 DEF UpdateFailed, TypeOK
<1>12. ASSUME NEW d \in Dispatchers, DispatcherFails(d) PROVE TypeOK'
  BY <1>12 DEF DispatcherFails, TypeOK
<1>13. ASSUME NEW e \in Endpoints, NEW b \in BOOLEAN, NEW n \in MaxChoices,
              UpsertEndpoint(e, b, n)
       PROVE  TypeOK'
  BY <1>13, OutboxAssumption DEF UpsertEndpoint, TypeOK
<1>14. CASE Tick
  <2>1. \A r \in Rows :
           [outbox[r] EXCEPT !.wait = IF @ > 0 THEN @ - 1 ELSE 0]
             \in [status : Open \cup {"none", "delivered", "dead_letter"},
                  attempt_count : Nat, wait : Nat]
    <3>1. outbox \in [Rows -> [status : Open \cup {"none", "delivered", "dead_letter"},
                               attempt_count : Nat, wait : Nat]]
      BY DEF TypeOK
    <3> QED  BY <3>1
  <2>2. outbox' \in [Rows -> [status : Open \cup {"none", "delivered", "dead_letter"},
                              attempt_count : Nat, wait : Nat]]
    BY <1>14, <2>1 DEF Tick
  <2> QED  BY <1>14, <2>2 DEF Tick, TypeOK
<1>15. CASE UNCHANGED vars
  BY <1>15 DEF vars, TypeOK
<1> QED
  BY <1>1, <1>2, <1>3, <1>4, <1>5, <1>6, <1>7, <1>8, <1>9, <1>10, <1>11, <1>12, <1>13,
     <1>14, <1>15
  DEF Next, Work, Dispatch

\* Type correctness of the outbox for every instance.
THEOREM OutboxTypeCorrect == Spec => []TypeOK
BY TypeInit, TypeStep, PTL DEF Spec

-------------------------------------------------------------------------------
(* DeliveredWasReceived: the fact a dispatcher carries from its POST to its *)
(* UPDATE.                                                                 *)

\* A dispatcher that is about to record a success has had its POST accepted.
SuccessWasReceived ==
    \A d \in Dispatchers :
        dpc[d] \in {"log", "update"} /\ result[d] => job[d].row \in received

ReceivedInv == TypeOK /\ SuccessWasReceived /\ DeliveredWasReceived

\* Both facts are preserved by every step.
LEMMA ReceivedStep == ReceivedInv /\ [Next]_vars => ReceivedInv'
<1> SUFFICES ASSUME ReceivedInv, [Next]_vars PROVE ReceivedInv'
  OBVIOUS
<1> USE DEF workerVars, dispatchVars
<1>t. TypeOK /\ TypeOK'
  BY TypeStep DEF ReceivedInv
<1>f. SuccessWasReceived /\ DeliveredWasReceived
  BY DEF ReceivedInv
<1> SUFFICES SuccessWasReceived' /\ DeliveredWasReceived'
  BY <1>t DEF ReceivedInv
<1>1. ASSUME UNCHANGED <<dpc, result, job, received, outbox>>
      PROVE  SuccessWasReceived' /\ DeliveredWasReceived'
  BY <1>1, <1>f DEF SuccessWasReceived, DeliveredWasReceived
<1>2. ASSUME NEW w \in Workers, Work(w) \/ WorkerFails(w)
      PROVE  SuccessWasReceived' /\ DeliveredWasReceived'
  <2>1. CASE \E e \in Endpoints : InsertOutbox(w, e)
    <3>1. PICK e \in Endpoints : InsertOutbox(w, e)
      BY <2>1
    <3>2. SuccessWasReceived'
      BY <3>1, <1>f DEF InsertOutbox, SuccessWasReceived
    <3>3. \A r \in Rows : outbox'[r].status = "delivered" => outbox[r].status = "delivered"
      BY <3>1, <1>t DEF InsertOutbox, TypeOK
    <3> QED  BY <3>1, <3>2, <3>3, <1>f DEF InsertOutbox, DeliveredWasReceived
  <2>2. CASE ~ \E e \in Endpoints : InsertOutbox(w, e)
    BY <1>2, <2>2, <1>1 DEF Work, WorkerFails, Detect, SelectEndpoints, UpdateJobState
  <2> QED  BY <2>1, <2>2
<1>3. ASSUME NEW d \in Dispatchers, Claim(d) \/ BatchDone(d) \/ DispatcherFails(d)
      PROVE  SuccessWasReceived' /\ DeliveredWasReceived'
  <2>1. outbox' = outbox /\ received' = received /\ result' = result
    BY <1>3 DEF Claim, BatchDone, DispatcherFails
  <2>2. \A c \in Dispatchers : dpc'[c] \in {"log", "update"} => dpc'[c] = dpc[c] /\ job'[c] = job[c]
    BY <1>3, <1>t DEF Claim, BatchDone, DispatcherFails, TypeOK
  <2> QED  BY <1>f, <2>1, <2>2 DEF SuccessWasReceived, DeliveredWasReceived
<1>4. ASSUME NEW d \in Dispatchers, NEW p \in batch[d], Post(d, p)
      PROVE  SuccessWasReceived' /\ DeliveredWasReceived'
  <2>1. received \subseteq received' /\ (result'[d] => p.row \in received') /\ outbox' = outbox
    BY <1>4, <1>t DEF Post, TypeOK
  <2>2. job'[d] = p /\ \A c \in Dispatchers \ {d} : job'[c] = job[c] /\ dpc'[c] = dpc[c]
                                                     /\ result'[c] = result[c]
    BY <1>4, <1>t DEF Post, TypeOK
  <2> QED  BY <1>f, <2>1, <2>2 DEF SuccessWasReceived, DeliveredWasReceived
<1>5. ASSUME NEW d \in Dispatchers, InsertDelivery(d)
      PROVE  SuccessWasReceived' /\ DeliveredWasReceived'
  BY <1>5, <1>f, <1>t DEF InsertDelivery, SuccessWasReceived, DeliveredWasReceived, TypeOK
<1>6. ASSUME NEW d \in Dispatchers, UpdateDelivered(d)
      PROVE  SuccessWasReceived' /\ DeliveredWasReceived'
  <2>1. job[d].row \in received
    BY <1>6, <1>f DEF UpdateDelivered, SuccessWasReceived
  <2>2. \A r \in Rows : r # job[d].row => outbox'[r] = outbox[r]
    BY <1>6, <1>t DEF UpdateDelivered, TypeOK
  <2>3. \A c \in Dispatchers : dpc'[c] \in {"log", "update"} => dpc'[c] = dpc[c] /\ job'[c] = job[c]
    BY <1>6, <1>t DEF UpdateDelivered, TypeOK
  <2>4. received' = received /\ result' = result
    BY <1>6 DEF UpdateDelivered
  <2>5. SuccessWasReceived'
    BY <1>f, <2>3, <2>4 DEF SuccessWasReceived
  <2>6. DeliveredWasReceived'
    BY <1>f, <2>1, <2>2, <2>4 DEF DeliveredWasReceived
  <2> QED  BY <2>5, <2>6
<1>7. ASSUME NEW d \in Dispatchers, UpdateFailed(d)
      PROVE  SuccessWasReceived' /\ DeliveredWasReceived'
  <2>0. job[d] \in Deliveries /\ job[d].row \in Rows
    BY <1>7, <1>t DEF UpdateFailed, TypeOK, Deliveries
  <2>1. NextStatus(job[d]) # "delivered"
    BY <2>0, FailureValues
  <2>2. \A r \in Rows : outbox'[r].status = "delivered" => outbox[r].status = "delivered"
    BY <1>7, <1>t, <2>0, <2>1 DEF UpdateFailed, TypeOK
  <2>3. \A c \in Dispatchers : dpc'[c] \in {"log", "update"} => dpc'[c] = dpc[c] /\ job'[c] = job[c]
    BY <1>7, <1>t DEF UpdateFailed, TypeOK
  <2>4. received' = received /\ result' = result
    BY <1>7 DEF UpdateFailed
  <2>5. SuccessWasReceived'
    BY <1>f, <2>3, <2>4 DEF SuccessWasReceived
  <2>6. DeliveredWasReceived'
    BY <1>f, <2>2, <2>4 DEF DeliveredWasReceived
  <2> QED  BY <2>5, <2>6
<1>8. ASSUME NEW e \in Endpoints, NEW b \in BOOLEAN, NEW n \in MaxChoices,
             UpsertEndpoint(e, b, n)
      PROVE  SuccessWasReceived' /\ DeliveredWasReceived'
  BY <1>8, <1>1 DEF UpsertEndpoint
<1>9. CASE Tick
  <2>1. \A r \in Rows : outbox'[r].status = outbox[r].status
    BY <1>9, <1>t DEF Tick, TypeOK
  <2> QED  BY <1>9, <1>f, <2>1 DEF Tick, SuccessWasReceived, DeliveredWasReceived
<1>10. CASE UNCHANGED vars
  BY <1>10, <1>1 DEF vars
<1> QED
  BY <1>2, <1>3, <1>4, <1>5, <1>6, <1>7, <1>8, <1>9, <1>10 DEF Next, Dispatch

\* A row is marked delivered only if its target accepted it, for any number of
\* dispatchers that overlap, fail and restart.
THEOREM DeliveredTheorem == Spec => []DeliveredWasReceived
<1>1. Init => ReceivedInv
  <2> SUFFICES ASSUME Init PROVE ReceivedInv
    OBVIOUS
  <2>1. SuccessWasReceived
    BY DEF Init, SuccessWasReceived
  <2>2. \A r \in Rows : outbox[r].status = "none"
    BY DEF Init
  <2>3. DeliveredWasReceived
    BY <2>2 DEF DeliveredWasReceived
  <2> QED  BY TypeInit, <2>1, <2>3 DEF ReceivedInv
<1>2. ReceivedInv => DeliveredWasReceived
  BY DEF ReceivedInv
<1> QED  BY <1>1, <1>2, ReceivedStep, PTL DEF Spec

-------------------------------------------------------------------------------
(* SettledIsFinal and MaxAttemptsDeadLetters, for any number of dispatchers: *)
(* what a dispatcher has read may be behind its row, never ahead of it.    *)

\* The count of a delivery is at most that of its row, and below it once the row
\* was delivered or given up: settling a row counts an attempt.
Behind(p) ==
    /\ p.attempt_count <= outbox[p.row].attempt_count
    /\ outbox[p.row].status \in {"delivered", "dead_letter"} =>
          p.attempt_count < outbox[p.row].attempt_count

\* So it is for every delivery a dispatcher has left to post and for the one it
\* is recording.
BehindInv ==
    \A d \in Dispatchers :
        /\ \A p \in batch[d] : Behind(p)
        /\ dpc[d] \in {"log", "update"} => Behind(job[d])

\* What a step can do to a row: nothing but its wait, open it for the first time,
\* or record an outcome and count it.
LEMMA RowStep ==
    ASSUME TypeOK, [Next]_vars, NEW r \in Rows
    PROVE  \/ /\ outbox'[r].attempt_count = outbox[r].attempt_count
              /\ outbox'[r].status = outbox[r].status
           \/ /\ outbox'[r].attempt_count = outbox[r].attempt_count
              /\ outbox[r].status = "none" /\ outbox'[r].status = "pending"
           \/ outbox'[r].attempt_count = outbox[r].attempt_count + 1
<1> USE DEF workerVars, dispatchVars
<1>1. ASSUME NEW w \in Workers, NEW e \in Endpoints, InsertOutbox(w, e)
      PROVE  \/ outbox'[r] = outbox[r]
             \/ /\ outbox'[r].attempt_count = outbox[r].attempt_count
                /\ outbox[r].status = "none" /\ outbox'[r].status = "pending"
  BY <1>1 DEF InsertOutbox, TypeOK
<1>2. ASSUME NEW d \in Dispatchers, UpdateDelivered(d) \/ UpdateFailed(d)
      PROVE  outbox'[r] = outbox[r] \/ outbox'[r].attempt_count = outbox[r].attempt_count + 1
  BY <1>2 DEF UpdateDelivered, UpdateFailed, TypeOK
<1>3. CASE Tick
  BY <1>3 DEF Tick, TypeOK
<1>4. CASE outbox' = outbox
  BY <1>4
<1> QED
  BY <1>1, <1>2, <1>3, <1>4
  DEF Next, vars, Work, Detect, SelectEndpoints, UpdateJobState, WorkerFails, Dispatch, Claim,
      BatchDone, Post, InsertDelivery, DispatcherFails, UpsertEndpoint

\* No step puts a delivery ahead of its row, however many dispatchers overlap.
LEMMA BehindStep == TypeOK /\ BehindInv /\ [Next]_vars => BehindInv'
<1> SUFFICES ASSUME TypeOK, BehindInv, [Next]_vars PROVE BehindInv'
  OBVIOUS
<1> USE DEF workerVars, dispatchVars
<1>1. ASSUME NEW p \in Deliveries, Behind(p) PROVE Behind(p)'
  <2>1. p.row \in Rows /\ p.attempt_count \in Nat
    BY DEF Deliveries
  <2>2. outbox[p.row].attempt_count \in Nat
    BY <2>1 DEF TypeOK
  <2> QED  BY <1>1, <2>1, <2>2, RowStep DEF Behind
<1>2. ASSUME NEW d \in Dispatchers,
             batch'[d] \subseteq batch[d],
             dpc'[d] \in {"log", "update"} =>
                 \/ job'[d] \in batch[d]
                 \/ job'[d] = job[d] /\ dpc[d] \in {"log", "update"}
      PROVE  /\ \A p \in batch'[d] : Behind(p)'
             /\ dpc'[d] \in {"log", "update"} => Behind(job[d])'
  <2>1. \A p \in batch[d] : p \in Deliveries /\ Behind(p)
    BY DEF TypeOK, BehindInv
  <2>2. \A p \in batch[d] : Behind(p)'
    BY <2>1, <1>1
  <2>3. dpc[d] \in {"log", "update"} => job[d] \in Deliveries /\ Behind(job[d])
    BY DEF TypeOK, BehindInv
  <2>4. ASSUME dpc'[d] \in {"log", "update"} PROVE Behind(job[d])'
    <3> DEFINE q == job'[d]
    <3>1. q \in Deliveries /\ Behind(q)
      BY <1>2, <2>1, <2>3, <2>4
    <3> HIDE DEF q
    <3>2. /\ q.attempt_count <= outbox'[q.row].attempt_count
          /\ outbox'[q.row].status \in {"delivered", "dead_letter"} =>
                q.attempt_count < outbox'[q.row].attempt_count
      BY <3>1, <2>3, <2>1, RowStep DEF Behind, Deliveries, TypeOK
    <3> QED  BY <3>2 DEF Behind, q
  <2> QED  BY <1>2, <2>2, <2>4
<1>3. ASSUME NEW d \in Dispatchers, Claim(d), NEW c \in Dispatchers
      PROVE  /\ \A p \in batch'[c] : Behind(p)'
             /\ dpc'[c] \in {"log", "update"} => Behind(job[c])'
  <2>1. CASE c # d
    <3>1. batch'[c] = batch[c] /\ dpc'[c] = dpc[c] /\ job' = job
      BY <1>3, <2>1 DEF Claim, TypeOK
    <3> QED  BY <3>1, <1>2
  <2>2. CASE c = d
    <3>1. PICK s \in SUBSET Due : batch' = [batch EXCEPT ![d] = {Read(r) : r \in s}]
      BY <1>3 DEF Claim
    <3>2. batch'[d] = {Read(r) : r \in s} /\ dpc'[d] = "next" /\ outbox' = outbox
      BY <1>3, <3>1 DEF Claim, TypeOK
    <3>3. \A r \in s : Behind(Read(r))
      BY <3>1 DEF Behind, Read, Due, Open, TypeOK
    <3>4. \A p \in batch'[d] : Behind(p)'
      BY <3>2, <3>3 DEF Behind
    <3> QED  BY <2>2, <3>2, <3>4
  <2> QED  BY <2>1, <2>2
<1>4. ASSUME NEW d \in Dispatchers, NEW p \in batch[d], Post(d, p), NEW c \in Dispatchers
      PROVE  /\ batch'[c] \subseteq batch[c]
             /\ dpc'[c] \in {"log", "update"} =>
                    \/ job'[c] \in batch[c]
                    \/ job'[c] = job[c] /\ dpc[c] \in {"log", "update"}
  BY <1>4 DEF Post, TypeOK
<1>5. ASSUME NEW d \in Dispatchers, NEW c \in Dispatchers,
             \/ BatchDone(d) \/ InsertDelivery(d) \/ UpdateDelivered(d) \/ UpdateFailed(d)
             \/ DispatcherFails(d)
      PROVE  /\ batch'[c] \subseteq batch[c]
             /\ dpc'[c] \in {"log", "update"} =>
                    \/ job'[c] \in batch[c]
                    \/ job'[c] = job[c] /\ dpc[c] \in {"log", "update"}
  BY <1>5 DEF BatchDone, InsertDelivery, UpdateDelivered, UpdateFailed, DispatcherFails, TypeOK
<1>6. ASSUME UNCHANGED <<dpc, batch, job>>, NEW c \in Dispatchers
      PROVE  /\ batch'[c] \subseteq batch[c]
             /\ dpc'[c] \in {"log", "update"} =>
                    \/ job'[c] \in batch[c]
                    \/ job'[c] = job[c] /\ dpc[c] \in {"log", "update"}
  BY <1>6
<1>7. \/ \E d \in Dispatchers : Claim(d)
      \/ \E d \in Dispatchers, p \in UNION {batch[x] : x \in Dispatchers} :
            p \in batch[d] /\ Post(d, p)
      \/ \E d \in Dispatchers :
            \/ BatchDone(d) \/ InsertDelivery(d) \/ UpdateDelivered(d) \/ UpdateFailed(d)
            \/ DispatcherFails(d)
      \/ UNCHANGED <<dpc, batch, job>>
  BY DEF Next, vars, Work, Detect, SelectEndpoints, InsertOutbox, UpdateJobState, WorkerFails,
         Dispatch, UpsertEndpoint, Tick
<1>8. ASSUME NEW c \in Dispatchers
      PROVE  /\ \A p \in batch'[c] : Behind(p)'
             /\ dpc'[c] \in {"log", "update"} => Behind(job[c])'
  BY <1>2, <1>3, <1>4, <1>5, <1>6, <1>7
<1> QED  BY <1>8 DEF BehindInv

\* A step that changes a status that is delivered or dead_letter is the update of
\* a dispatcher that was overtaken.
LEMMA FinalStep ==
    ASSUME TypeOK, BehindInv, [Next]_vars, NEW r \in Rows,
           outbox[r].status \in {"delivered", "dead_letter"}
    PROVE  \/ outbox'[r].status = outbox[r].status
           \/ \E d \in Dispatchers : dpc[d] = "update" /\ job[d].row = r /\ Overtaken(d)
<1> USE DEF workerVars, dispatchVars
<1>1. ASSUME NEW w \in Workers, NEW e \in Endpoints, InsertOutbox(w, e)
      PROVE  outbox'[r].status = outbox[r].status
  BY <1>1 DEF InsertOutbox, TypeOK
<1>2. ASSUME NEW d \in Dispatchers, UpdateDelivered(d) \/ UpdateFailed(d)
      PROVE  \/ outbox'[r].status = outbox[r].status
             \/ dpc[d] = "update" /\ job[d].row = r /\ Overtaken(d)
  <2>1. dpc[d] = "update" /\ Behind(job[d])
    BY <1>2 DEF UpdateDelivered, UpdateFailed, BehindInv
  <2>2. CASE job[d].row = r
    BY <2>1, <2>2 DEF Behind, Overtaken
  <2>3. CASE job[d].row # r
    BY <1>2, <2>3 DEF UpdateDelivered, UpdateFailed, TypeOK
  <2> QED  BY <2>2, <2>3
<1>3. CASE Tick
  BY <1>3 DEF Tick, TypeOK
<1>4. CASE outbox' = outbox
  BY <1>4
<1> QED
  BY <1>1, <1>2, <1>3, <1>4
  DEF Next, vars, Work, Detect, SelectEndpoints, UpdateJobState, WorkerFails, Dispatch, Claim,
      BatchDone, Post, InsertDelivery, DispatcherFails, UpsertEndpoint

\* For any number of dispatchers, a row that was delivered or given up changes
\* its status only by the update of one that was overtaken on that row.
THEOREM FinalTheorem == Spec => SettledIsFinal
<1> DEFINE Final == \A r \in Rows :
               outbox[r].status \in {"delivered", "dead_letter"} =>
                   \/ outbox'[r].status = outbox[r].status
                   \/ \E d \in Dispatchers :
                         dpc[d] = "update" /\ job[d].row = r /\ Overtaken(d)
<1>1. Init => BehindInv
  BY DEF Init, BehindInv
<1>2. TypeOK /\ BehindInv /\ [Next]_vars => BehindInv'
  BY BehindStep
<1>3. TypeOK /\ BehindInv /\ [Next]_vars => [Final]_vars
  BY FinalStep
<1> QED  BY <1>1, <1>2, <1>3, OutboxTypeCorrect, PTL DEF Spec, SettledIsFinal

-------------------------------------------------------------------------------
(* The attempts a row can count.                                          *)

\* No statement of any process deletes an event or an outbox row.
LEMMA RowsStay ==
    ASSUME TypeOK, [Next]_vars
    PROVE  /\ events \subseteq events'
           /\ \A r \in Rows : outbox[r].status # "none" => outbox'[r].status # "none"
<1> USE DEF workerVars, dispatchVars
<1>1. events \subseteq events'
  BY DEF Next, Work, WorkerFails, Detect, SelectEndpoints, InsertOutbox, UpdateJobState,
         Dispatch, DispatcherFails, Claim, BatchDone, Post, InsertDelivery, UpdateDelivered,
         UpdateFailed, UpsertEndpoint, Tick, vars
<1>2. ASSUME NEW w \in Workers, NEW e \in Endpoints, InsertOutbox(w, e)
      PROVE  \A r \in Rows : outbox[r].status # "none" => outbox'[r].status # "none"
  BY <1>2 DEF InsertOutbox, TypeOK
<1>3. ASSUME NEW d \in Dispatchers, UpdateDelivered(d)
      PROVE  \A r \in Rows : outbox[r].status # "none" => outbox'[r].status # "none"
  BY <1>3 DEF UpdateDelivered, TypeOK
<1>4. ASSUME NEW d \in Dispatchers, UpdateFailed(d)
      PROVE  \A r \in Rows : outbox[r].status # "none" => outbox'[r].status # "none"
  <2>1. job[d] \in Deliveries
    BY <1>4 DEF UpdateFailed, TypeOK
  <2>2. NextStatus(job[d]) # "none"
    BY <2>1, FailureValues
  <2> QED  BY <1>4, <2>2 DEF UpdateFailed, TypeOK
<1>5. ASSUME Tick
      PROVE  \A r \in Rows : outbox[r].status # "none" => outbox'[r].status # "none"
  BY <1>5 DEF Tick, TypeOK
<1>6. ASSUME outbox' = outbox
      PROVE  \A r \in Rows : outbox[r].status # "none" => outbox'[r].status # "none"
  BY <1>6
<1>7. \/ outbox' = outbox \/ Tick
      \/ \E w \in Workers, e \in Endpoints : InsertOutbox(w, e)
      \/ \E d \in Dispatchers : UpdateDelivered(d) \/ UpdateFailed(d)
  BY DEF Next, Work, WorkerFails, Detect, SelectEndpoints, UpdateJobState, Dispatch,
         DispatcherFails, Claim, BatchDone, Post, InsertDelivery, UpsertEndpoint, vars
<1> QED  BY <1>1, <1>2, <1>3, <1>4, <1>5, <1>6, <1>7

\* The limits in use are at most the largest the endpoint has had, and a row that
\* nobody has announced yet counts no attempt.
LimitInv ==
    /\ \A e \in Endpoints :
          1 <= ceiling[e] /\ 1 <= endpoint[e].max_attempts
            /\ endpoint[e].max_attempts <= ceiling[e]
    /\ \A d \in Dispatchers :
          /\ \A p \in batch[d] : p.max_attempts <= ceiling[p.row[2]]
          /\ dpc[d] \in {"log", "update"} => job[d].max_attempts <= ceiling[job[d].row[2]]
    /\ \A r \in Rows : outbox[r].status = "none" => outbox[r].attempt_count = 0

\* The three parts of LimitInv are kept by every step.
LEMMA LimitStep == TypeOK /\ LimitInv /\ [Next]_vars => LimitInv'
<1> SUFFICES ASSUME TypeOK, LimitInv, [Next]_vars PROVE LimitInv'
  OBVIOUS
<1> USE DEF workerVars, dispatchVars
<1>t. /\ ceiling \in [Endpoints -> Nat]
      /\ endpoint \in [Endpoints -> [enabled : BOOLEAN, max_attempts : Nat]]
      /\ \A r \in Rows : r[2] \in Endpoints
  BY DEF TypeOK, Rows
<1> DEFINE Ends == \A e \in Endpoints :
               1 <= ceiling[e] /\ 1 <= endpoint[e].max_attempts
                 /\ endpoint[e].max_attempts <= ceiling[e]
<1>1. Ends' /\ \A e \in Endpoints : ceiling[e] <= ceiling'[e] /\ ceiling'[e] \in Nat
  <2>1. ASSUME NEW e \in Endpoints, NEW b \in BOOLEAN, NEW n \in MaxChoices,
               UpsertEndpoint(e, b, n)
        PROVE  Ends' /\ \A x \in Endpoints : ceiling[x] <= ceiling'[x] /\ ceiling'[x] \in Nat
    <3>1. n \in Nat /\ 1 <= n
      BY OutboxAssumption
    <3>2. endpoint' = [endpoint EXCEPT ![e] = [enabled |-> b, max_attempts |-> n]]
            /\ ceiling' = [ceiling EXCEPT ![e] = IF n > @ THEN n ELSE @]
      BY <2>1 DEF UpsertEndpoint
    <3> QED  BY <3>1, <3>2, <1>t DEF LimitInv
  <2>2. CASE UNCHANGED <<endpoint, ceiling>>
    BY <2>2, <1>t DEF LimitInv
  <2> QED
    BY <2>1, <2>2
    DEF Next, vars, Work, Detect, SelectEndpoints, InsertOutbox, UpdateJobState, WorkerFails,
        Dispatch, Claim, BatchDone, Post, InsertDelivery, UpdateDelivered, UpdateFailed,
        DispatcherFails, Tick
<1>2. ASSUME NEW p \in Deliveries, p.max_attempts <= ceiling[p.row[2]]
      PROVE  p.max_attempts <= ceiling'[p.row[2]]
  <2>1. p.row[2] \in Endpoints /\ p.max_attempts \in Nat
    BY <1>t DEF Deliveries
  <2> QED  BY <1>1, <1>2, <1>t, <2>1
<1> DEFINE Limits == \A d \in Dispatchers :
               /\ \A p \in batch[d] : p.max_attempts <= ceiling[p.row[2]]
               /\ dpc[d] \in {"log", "update"} => job[d].max_attempts <= ceiling[job[d].row[2]]
<1>3. Limits'
  <2>l. \A d \in Dispatchers :
           /\ \A p \in batch[d] : p.max_attempts <= ceiling'[p.row[2]]
           /\ dpc[d] \in {"log", "update"} => job[d].max_attempts <= ceiling'[job[d].row[2]]
    BY <1>2 DEF LimitInv, TypeOK
  <2>1. ASSUME NEW d \in Dispatchers, Claim(d) PROVE Limits'
    <3>1. \A r \in Rows : Read(r).max_attempts <= ceiling'[Read(r).row[2]]
      BY <1>t, <2>1 DEF Read, LimitInv, Claim
    <3>2. \A p \in batch'[d] : p.max_attempts <= ceiling'[p.row[2]]
      BY <2>1, <3>1 DEF Claim, Due, TypeOK
    <3> QED  BY <2>1, <2>l, <3>2 DEF Claim, TypeOK
  <2>2. ASSUME NEW d \in Dispatchers, NEW p \in batch[d], Post(d, p) PROVE Limits'
    BY <2>2, <2>l DEF Post, TypeOK
  <2>3. ASSUME NEW d \in Dispatchers,
               \/ BatchDone(d) \/ InsertDelivery(d) \/ UpdateDelivered(d) \/ UpdateFailed(d)
               \/ DispatcherFails(d)
        PROVE  Limits'
    BY <2>3, <2>l DEF BatchDone, InsertDelivery, UpdateDelivered, UpdateFailed, DispatcherFails,
                      TypeOK
  <2>4. CASE UNCHANGED <<batch, dpc, job>>
    BY <2>4, <2>l
  <2> QED
    BY <2>1, <2>2, <2>3, <2>4
    DEF Next, vars, Work, Detect, SelectEndpoints, InsertOutbox, UpdateJobState, WorkerFails,
        Dispatch, UpsertEndpoint, Tick
<1>4. \A r \in Rows : outbox'[r].status = "none" => outbox'[r].attempt_count = 0
  <2>1. ASSUME NEW r \in Rows, outbox'[r].status = "none" PROVE outbox[r].status = "none"
    BY <2>1, RowsStay
  <2>2. ASSUME NEW d \in Dispatchers, UpdateDelivered(d) \/ UpdateFailed(d), NEW r \in Rows,
               outbox'[r].status = "none"
        PROVE  outbox'[r] = outbox[r]
    <3>1. NextStatus(job[d]) # "none"
      BY DEF NextStatus
    <3> QED  BY <2>2, <3>1 DEF UpdateDelivered, UpdateFailed, TypeOK
  <2>3. ASSUME NEW w \in Workers, NEW e \in Endpoints, InsertOutbox(w, e), NEW r \in Rows
        PROVE  outbox'[r].attempt_count = outbox[r].attempt_count
    BY <2>3 DEF InsertOutbox, TypeOK
  <2>4. ASSUME Tick, NEW r \in Rows PROVE outbox'[r].attempt_count = outbox[r].attempt_count
    BY <2>4 DEF Tick, TypeOK
  <2>5. \/ outbox' = outbox \/ Tick
        \/ \E w \in Workers, e \in Endpoints : InsertOutbox(w, e)
        \/ \E d \in Dispatchers : UpdateDelivered(d) \/ UpdateFailed(d)
    BY DEF Next, Work, WorkerFails, Detect, SelectEndpoints, UpdateJobState, Dispatch,
           DispatcherFails, Claim, BatchDone, Post, InsertDelivery, UpsertEndpoint, vars
  <2> QED  BY <2>1, <2>2, <2>3, <2>4, <2>5 DEF LimitInv
<1> QED  BY <1>1, <1>3, <1>4 DEF LimitInv

\* The bound is kept: a delivery that is not behind its row finds the row open, so
\* its outcome counts an attempt below the bound, and an overtaken one pays for
\* itself and for the attempt that closes the row again.
LEMMA AttemptsStep ==
    ASSUME TypeOK, BehindInv, LimitInv, MaxAttemptsDeadLetters, [Next]_vars
    PROVE  MaxAttemptsDeadLetters'
<1> USE DEF workerVars, dispatchVars
<1> SUFFICES ASSUME NEW r \in Rows
             PROVE  LET most == ceiling[r[2]] + 2 * overtaken[r]
                    IN  (/\ outbox[r].attempt_count <= most
                         /\ outbox[r].status \in Open => outbox[r].attempt_count < most)'
  BY DEF MaxAttemptsDeadLetters
<1>t. /\ r[2] \in Endpoints /\ ceiling[r[2]] \in Nat /\ overtaken[r] \in Nat
      /\ outbox[r].attempt_count \in Nat
      /\ 1 <= ceiling[r[2]]
  BY DEF TypeOK, Rows, LimitInv
<1>m. /\ outbox[r].attempt_count <= ceiling[r[2]] + 2 * overtaken[r]
      /\ outbox[r].status \in Open =>
            outbox[r].attempt_count < ceiling[r[2]] + 2 * overtaken[r]
      /\ outbox[r].status = "none" => outbox[r].attempt_count = 0
  BY DEF MaxAttemptsDeadLetters, LimitInv
<1>1. ASSUME NEW d \in Dispatchers, UpdateDelivered(d) \/ UpdateFailed(d), job[d].row = r
      PROVE  /\ outbox'[r].attempt_count <= ceiling'[r[2]] + 2 * overtaken'[r]
             /\ outbox'[r].status \in Open =>
                   outbox'[r].attempt_count < ceiling'[r[2]] + 2 * overtaken'[r]
  <2>1. /\ job[d] \in Deliveries /\ job[d].attempt_count \in Nat /\ job[d].max_attempts \in Nat
        /\ job[d].max_attempts <= ceiling[r[2]] /\ Behind(job[d])
    BY <1>1 DEF UpdateDelivered, UpdateFailed, TypeOK, Deliveries, LimitInv, BehindInv
  <2>2. ceiling' = ceiling /\ outbox'[r].attempt_count = outbox[r].attempt_count + 1
    BY <1>1 DEF UpdateDelivered, UpdateFailed, TypeOK
  <2>3. CASE Overtaken(d)
    <3>1. overtaken'[r] = overtaken[r] + 1
      BY <1>1, <2>3 DEF UpdateDelivered, UpdateFailed, NoteOvertaken, TypeOK
    <3> QED  BY <3>1, <2>2, <1>t, <1>m
  <2>4. CASE ~Overtaken(d)
    <3>1. overtaken'[r] = overtaken[r] /\ job[d].attempt_count = outbox[r].attempt_count
      BY <1>1, <1>t, <2>1, <2>4
      DEF UpdateDelivered, UpdateFailed, NoteOvertaken, Overtaken, Behind
    <3>2. outbox[r].status \notin {"delivered", "dead_letter"}
      BY <1>1, <1>t, <2>1, <3>1 DEF Behind
    <3>3. outbox[r].status \in Open \cup {"none"}
      BY <3>2 DEF TypeOK
    <3>4. outbox'[r].attempt_count <= ceiling[r[2]] + 2 * overtaken[r]
      BY <3>3, <2>2, <1>m, <1>t
    <3>5. outbox'[r].status = "delivered" \/ outbox'[r].status = NextStatus(job[d])
      BY <1>1 DEF UpdateDelivered, UpdateFailed, TypeOK
    <3>6. outbox'[r].status \in Open => outbox[r].attempt_count + 1 < job[d].max_attempts
      BY <3>1, <3>5, <2>1 DEF NextStatus, Open
    <3> QED  BY <3>1, <3>4, <3>6, <2>1, <2>2, <1>t
  <2> QED  BY <2>3, <2>4
<1>2. ASSUME NEW d \in Dispatchers, UpdateDelivered(d) \/ UpdateFailed(d), job[d].row # r
      PROVE  outbox'[r] = outbox[r] /\ overtaken'[r] = overtaken[r] /\ ceiling' = ceiling
  BY <1>2 DEF UpdateDelivered, UpdateFailed, NoteOvertaken, TypeOK, Deliveries
<1>3. ASSUME NEW w \in Workers, NEW e \in Endpoints, InsertOutbox(w, e)
      PROVE  /\ outbox'[r].attempt_count = outbox[r].attempt_count
             /\ outbox'[r].status = outbox[r].status \/ outbox[r].status = "none"
             /\ UNCHANGED <<overtaken, ceiling>>
  BY <1>3 DEF InsertOutbox, TypeOK
<1>4. CASE Tick
  <2>1. /\ outbox'[r].attempt_count = outbox[r].attempt_count
        /\ outbox'[r].status = outbox[r].status
        /\ UNCHANGED <<overtaken, ceiling>>
    BY <1>4 DEF Tick, TypeOK
  <2> QED  BY <2>1, <1>m
<1>5. ASSUME NEW e \in Endpoints, NEW b \in BOOLEAN, NEW n \in MaxChoices,
             UpsertEndpoint(e, b, n)
      PROVE  outbox' = outbox /\ overtaken' = overtaken /\ ceiling[r[2]] <= ceiling'[r[2]]
               /\ ceiling'[r[2]] \in Nat
  BY <1>5, <1>t, OutboxAssumption DEF UpsertEndpoint, TypeOK
<1>6. \/ UNCHANGED <<outbox, overtaken, ceiling>> \/ Tick
      \/ \E w \in Workers, e \in Endpoints : InsertOutbox(w, e)
      \/ \E d \in Dispatchers : UpdateDelivered(d) \/ UpdateFailed(d)
      \/ \E e \in Endpoints, b \in BOOLEAN, n \in MaxChoices : UpsertEndpoint(e, b, n)
  BY DEF Next, Work, WorkerFails, Detect, SelectEndpoints, UpdateJobState, Dispatch,
         DispatcherFails, Claim, BatchDone, Post, InsertDelivery, vars
<1>7. CASE \E d \in Dispatchers : UpdateDelivered(d) \/ UpdateFailed(d)
  BY <1>7, <1>1, <1>2, <1>m
<1>8. CASE \E w \in Workers, e \in Endpoints : InsertOutbox(w, e)
  BY <1>8, <1>3, <1>m, <1>t
<1>9. CASE \E e \in Endpoints, b \in BOOLEAN, n \in MaxChoices : UpsertEndpoint(e, b, n)
  BY <1>9, <1>5, <1>m, <1>t
<1>10. CASE UNCHANGED <<outbox, overtaken, ceiling>>
  BY <1>10, <1>m
<1> QED  BY <1>4, <1>6, <1>7, <1>8, <1>9, <1>10

\* For any number of dispatchers and any changes of max_attempts: a row counts at
\* most the largest limit its endpoint has had, and two more for each outcome
\* that was recorded from a stale count; an open row has attempts left of these.
THEOREM MaxAttemptsTheorem == Spec => []MaxAttemptsDeadLetters
<1>1. Init => BehindInv /\ LimitInv /\ MaxAttemptsDeadLetters
  <2> SUFFICES ASSUME Init PROVE BehindInv /\ LimitInv /\ MaxAttemptsDeadLetters
    OBVIOUS
  <2>1. BehindInv
    BY DEF Init, BehindInv
  <2>2. \A r \in Rows : /\ outbox[r].status = "none" /\ outbox[r].attempt_count = 0
                        /\ overtaken[r] = 0 /\ r[2] \in Endpoints
    BY DEF Init, Rows
  <2>3. \A e \in Endpoints : /\ endpoint[e].max_attempts \in MaxChoices
                             /\ ceiling[e] = endpoint[e].max_attempts
    BY DEF Init
  <2>4. \A n \in MaxChoices : n \in Nat /\ 1 <= n
    BY OutboxAssumption
  <2>5. \A d \in Dispatchers : batch[d] = {} /\ dpc[d] = "idle"
    BY DEF Init
  <2>6. LimitInv
    BY <2>2, <2>3, <2>4, <2>5 DEF LimitInv
  <2>7. MaxAttemptsDeadLetters
    BY <2>2, <2>3, <2>4 DEF MaxAttemptsDeadLetters, Open
  <2> QED  BY <2>1, <2>6, <2>7
<1>2. TypeOK /\ BehindInv /\ LimitInv /\ MaxAttemptsDeadLetters /\ [Next]_vars =>
         BehindInv' /\ LimitInv' /\ MaxAttemptsDeadLetters'
  BY BehindStep, LimitStep, AttemptsStep
<1> QED  BY <1>1, <1>2, OutboxTypeCorrect, PTL DEF Spec

-------------------------------------------------------------------------------
(* When no two dispatchers overlap, what a dispatcher has read is what the  *)
(* row still says.                                                         *)

\* The row of a delivery still is as claim_pending_deliveries read it.
Held(p) ==
    /\ outbox[p.row].status \in Open
    /\ outbox[p.row].attempt_count = p.attempt_count

\* So it is for every delivery a dispatcher has left to post and for the one it
\* is recording, and these are deliveries of different rows.
HeldInv ==
    \A d \in Dispatchers :
        /\ \A p \in batch[d] : Held(p)
        /\ \A p, q \in batch[d] : p.row = q.row => p = q
        /\ dpc[d] \in {"log", "update"} =>
              Held(job[d]) /\ \A p \in batch[d] : p.row # job[d].row

\* With one dispatcher at a time no step makes what was read stale.
LEMMA HeldStep ==
    ASSUME \A c, d \in Dispatchers : c = d
    PROVE  TypeOK /\ HeldInv /\ [Next]_vars => HeldInv'
<1> SUFFICES ASSUME TypeOK, HeldInv, [Next]_vars PROVE HeldInv'
  OBVIOUS
<1> USE DEF workerVars, dispatchVars
<1>s. \A c, d \in Dispatchers : c = d
  OBVIOUS
<1>t. \A d \in Dispatchers :
         /\ \A p \in batch[d] : p.row \in Rows
         /\ dpc[d] \in {"log", "update"} => job[d].row \in Rows
  BY DEF TypeOK, Deliveries
<1>1. ASSUME UNCHANGED <<dpc, batch, job>>,
             \A r \in Rows : outbox[r].status \in Open =>
                 /\ outbox'[r].status = outbox[r].status
                 /\ outbox'[r].attempt_count = outbox[r].attempt_count
      PROVE  HeldInv'
  BY <1>1, <1>t DEF HeldInv, Held
<1>2. ASSUME NEW w \in Workers, Work(w) \/ WorkerFails(w) PROVE HeldInv'
  <2>1. CASE \E e \in Endpoints : InsertOutbox(w, e)
    <3>1. PICK e \in Endpoints : InsertOutbox(w, e)
      BY <2>1
    <3>2. \A r \in Rows : outbox[r].status \in Open => outbox'[r] = outbox[r]
      BY <3>1 DEF InsertOutbox, TypeOK, Open
    <3> QED  BY <3>1, <3>2, <1>1 DEF InsertOutbox
  <2>2. CASE ~ \E e \in Endpoints : InsertOutbox(w, e)
    <3>1. UNCHANGED <<dpc, batch, job, outbox>>
      BY <1>2, <2>2 DEF Work, WorkerFails, Detect, SelectEndpoints, UpdateJobState
    <3> QED  BY <3>1, <1>1
  <2> QED  BY <2>1, <2>2
<1>3. ASSUME NEW d \in Dispatchers, Claim(d) PROVE HeldInv'
  <2>1. PICK c \in SUBSET Due : batch' = [batch EXCEPT ![d] = {Read(r) : r \in c}]
    BY <1>3 DEF Claim
  <2>2. batch'[d] = {Read(r) : r \in c} /\ dpc'[d] = "next" /\ outbox' = outbox
    BY <1>3, <2>1 DEF Claim, TypeOK
  <2>3. \A p \in batch'[d] : Held(p)
    BY <2>1, <2>2 DEF Held, Read, Due
  <2>4. \A p, q \in batch'[d] : p.row = q.row => p = q
    BY <2>1, <2>2, ReadType DEF Due
  <2> QED  BY <1>s, <2>2, <2>3, <2>4 DEF HeldInv, Held
<1>4. ASSUME NEW d \in Dispatchers, BatchDone(d) PROVE HeldInv'
  BY <1>4, <1>s DEF BatchDone, HeldInv, Held, TypeOK
<1>5. ASSUME NEW d \in Dispatchers, DispatcherFails(d) PROVE HeldInv'
  BY <1>5, <1>s DEF DispatcherFails, HeldInv, Held, TypeOK
<1>6. ASSUME NEW d \in Dispatchers, NEW p \in batch[d], Post(d, p) PROVE HeldInv'
  <2>1. /\ batch'[d] = batch[d] \ {p} /\ job'[d] = p /\ outbox' = outbox
    BY <1>6 DEF Post, TypeOK
  <2>2. Held(p) /\ \A q \in batch'[d] : Held(q) /\ q.row # p.row
    BY <2>1 DEF HeldInv
  <2>3. \A q, x \in batch'[d] : q.row = x.row => q = x
    BY <2>1 DEF HeldInv
  <2> QED  BY <1>s, <2>1, <2>2, <2>3 DEF HeldInv, Held
<1>7. ASSUME NEW d \in Dispatchers, InsertDelivery(d) PROVE HeldInv'
  <2>1. dpc[d] = "log" /\ UNCHANGED <<batch, job, outbox>>
    BY <1>7 DEF InsertDelivery
  <2> QED  BY <1>s, <2>1 DEF HeldInv, Held
<1>8. ASSUME NEW d \in Dispatchers, UpdateDelivered(d) \/ UpdateFailed(d) PROVE HeldInv'
  <2>1. dpc[d] = "update" /\ dpc'[d] = "next" /\ batch' = batch
    BY <1>8 DEF UpdateDelivered, UpdateFailed, TypeOK
  <2>2. \A r \in Rows : r # job[d].row => outbox'[r] = outbox[r]
    BY <1>8 DEF UpdateDelivered, UpdateFailed, TypeOK
  <2>3. \A p \in batch[d] : outbox'[p.row] = outbox[p.row]
    BY <2>1, <2>2, <1>t DEF HeldInv
  <2> QED  BY <1>s, <2>1, <2>3 DEF HeldInv, Held
<1>9. ASSUME NEW e \in Endpoints, NEW b \in BOOLEAN, NEW n \in MaxChoices,
             UpsertEndpoint(e, b, n)
      PROVE  HeldInv'
  BY <1>9, <1>1 DEF UpsertEndpoint
<1>10. CASE Tick
  <2>1. \A r \in Rows : outbox'[r].status = outbox[r].status
                          /\ outbox'[r].attempt_count = outbox[r].attempt_count
    BY <1>10 DEF Tick, TypeOK
  <2> QED  BY <1>10, <2>1, <1>1 DEF Tick
<1>11. CASE UNCHANGED vars
  BY <1>11, <1>1 DEF vars
<1> QED
  BY <1>2, <1>3, <1>4, <1>5, <1>6, <1>7, <1>8, <1>9, <1>10, <1>11 DEF Next, Dispatch

\* With at most one dispatcher nobody is ever overtaken, wherever it fails and
\* whatever workers and administrators do: FinalTheorem and MaxAttemptsTheorem
\* then hold without their exceptions.
THEOREM OneDispatcherTheorem ==
    ASSUME \A c, d \in Dispatchers : c = d
    PROVE  Spec => [](/\ \A d \in Dispatchers : dpc[d] = "update" => ~Overtaken(d)
                      /\ \A r \in Rows : overtaken[r] = 0)
<1> USE DEF workerVars, dispatchVars
<1> DEFINE Never == \A r \in Rows : overtaken[r] = 0
<1>1. Init => HeldInv /\ Never
  BY DEF Init, HeldInv
<1>2. TypeOK /\ HeldInv => \A d \in Dispatchers : dpc[d] = "update" => ~Overtaken(d)
  <2> SUFFICES ASSUME TypeOK, HeldInv, NEW d \in Dispatchers, dpc[d] = "update"
               PROVE  ~Overtaken(d)
    OBVIOUS
  <2>1. Held(job[d]) /\ job[d] \in Deliveries /\ job[d].attempt_count \in Nat
    BY DEF HeldInv, TypeOK, Deliveries
  <2> QED  BY <2>1 DEF Held, Overtaken
<1>3. TypeOK /\ HeldInv /\ Never /\ [Next]_vars => HeldInv' /\ Never'
  <2> SUFFICES ASSUME TypeOK, HeldInv, Never, [Next]_vars PROVE HeldInv' /\ Never'
    OBVIOUS
  <2>1. HeldInv'
    BY HeldStep
  <2>2. ASSUME NEW d \in Dispatchers, UpdateDelivered(d) \/ UpdateFailed(d)
        PROVE  overtaken' = overtaken
    BY <2>2, <1>2 DEF UpdateDelivered, UpdateFailed, NoteOvertaken
  <2>3. overtaken' = overtaken
    BY <2>2 DEF Next, Work, WorkerFails, Detect, SelectEndpoints, InsertOutbox, UpdateJobState,
                Dispatch, DispatcherFails, Claim, BatchDone, Post, InsertDelivery,
                UpsertEndpoint, Tick, vars
  <2> QED  BY <2>1, <2>3
<1> QED  BY <1>1, <1>2, <1>3, OutboxTypeCorrect, PTL DEF Spec

-------------------------------------------------------------------------------
(* RecordedWasAnnounced: what a pass over a window has done so far.        *)

\* The rows a worker has got behind it are there, and its event is stored.
PassInv ==
    \A w \in Workers :
        /\ wpc[w] # "idle" => wevent[w] \in events
        /\ wpc[w] = "insert" =>
              \A e \in wrows[w] \ wtodo[w] : outbox[<<wevent[w], e>>].status # "none"

\* Every step keeps PassInv and RecordedWasAnnounced.
LEMMA PassStep ==
    ASSUME TypeOK, PassInv, RecordedWasAnnounced, [Next]_vars
    PROVE  PassInv' /\ RecordedWasAnnounced'
<1> USE DEF workerVars, dispatchVars
<1>1. /\ events \subseteq events'
      /\ \A r \in Rows : outbox[r].status # "none" => outbox'[r].status # "none"
  BY RowsStay
<1>2. /\ wpc \in [Workers -> {"idle", "select", "insert"}]
      /\ wevent \in [Workers -> Events \cup {NoEvent}]
      /\ \A w \in Workers : wpc[w] # "idle" => wevent[w] \in Events
      /\ wrows \in [Workers -> SUBSET Endpoints] /\ wtodo \in [Workers -> SUBSET Endpoints]
      /\ announced \subseteq Rows
  BY DEF TypeOK
<1>3. ASSUME NEW w \in Workers, NEW v \in Events, Detect(w, v) \/ SelectEndpoints(w)
      PROVE  PassInv' /\ RecordedWasAnnounced'
  <2>1. UNCHANGED <<outbox, announced>>
    BY <1>3 DEF Detect, SelectEndpoints
  <2>2. RecordedWasAnnounced'
    BY <1>1, <2>1 DEF RecordedWasAnnounced
  <2>3. CASE Detect(w, v)
    BY <1>1, <1>2, <2>1, <2>2, <2>3 DEF Detect, PassInv
  <2>4. CASE SelectEndpoints(w)
    BY <1>2, <2>1, <2>2, <2>4 DEF SelectEndpoints, PassInv
  <2> QED  BY <1>3, <2>3, <2>4
<1>4. ASSUME NEW w \in Workers, NEW e \in Endpoints, InsertOutbox(w, e)
      PROVE  PassInv' /\ RecordedWasAnnounced'
  <2> DEFINE r == <<wevent[w], e>>
  <2>1. /\ UNCHANGED <<events, wpc, wevent, wrows, announced>>
        /\ wtodo' = [wtodo EXCEPT ![w] = @ \ {e}] /\ r \in Rows
    BY <1>2, <1>4 DEF InsertOutbox, Rows
  <2>2. outbox'[r].status # "none"
    BY <1>4, <2>1 DEF InsertOutbox, TypeOK
  <2>3. ASSUME NEW x \in Workers, wpc[x] = "insert", NEW f \in wrows[x] \ wtodo'[x]
        PROVE  outbox'[<<wevent[x], f>>].status # "none"
    <3>1. <<wevent[x], f>> \in Rows
      BY <1>2, <2>3 DEF Rows
    <3>2. CASE f \notin wtodo[x]
      BY <1>1, <2>3, <3>1, <3>2 DEF PassInv
    <3>3. CASE f \in wtodo[x]
      BY <1>2, <2>1, <2>2, <2>3, <3>3
    <3> QED  BY <3>2, <3>3
  <2>4. PassInv'
    BY <2>1, <2>3 DEF PassInv
  <2>5. RecordedWasAnnounced'
    BY <1>1, <1>2, <2>1 DEF RecordedWasAnnounced
  <2> QED  BY <2>4, <2>5
<1>5. ASSUME NEW w \in Workers, UpdateJobState(w)
      PROVE  PassInv' /\ RecordedWasAnnounced'
  <2>1. /\ UNCHANGED <<events, outbox, wtodo>> /\ wpc[w] = "insert" /\ wtodo[w] = {}
        /\ announced' = announced \cup ({wevent[w]} \X wrows[w])
    BY <1>5 DEF UpdateJobState
  <2>2. \A r \in {wevent[w]} \X wrows[w] : r[1] \in events /\ outbox[r].status # "none"
    <3> TAKE r \in {wevent[w]} \X wrows[w]
    <3>1. r = <<wevent[w], r[2]>> /\ r[1] = wevent[w] /\ r[2] \in wrows[w] \ wtodo[w]
      BY <2>1
    <3> QED  BY <2>1, <3>1 DEF PassInv
  <2>3. RecordedWasAnnounced'
    BY <2>1, <2>2 DEF RecordedWasAnnounced
  <2>4. PassInv'
    BY <1>2, <1>5, <2>1 DEF UpdateJobState, PassInv
  <2> QED  BY <2>3, <2>4
<1>6. ASSUME NEW w \in Workers, WorkerFails(w)
      PROVE  PassInv' /\ RecordedWasAnnounced'
  BY <1>2, <1>6 DEF WorkerFails, PassInv, RecordedWasAnnounced
<1>7. ASSUME UNCHANGED workerVars
      PROVE  PassInv' /\ RecordedWasAnnounced'
  <2>1. \A w \in Workers, e \in Endpoints : wpc[w] = "insert" => <<wevent[w], e>> \in Rows
    BY <1>2 DEF Rows
  <2> QED  BY <1>1, <1>2, <1>7, <2>1 DEF PassInv, RecordedWasAnnounced
<1>8. \/ UNCHANGED workerVars
      \/ \E w \in Workers : Work(w) \/ WorkerFails(w)
  BY DEF Next, Dispatch, DispatcherFails, Claim, BatchDone, Post, InsertDelivery,
         UpdateDelivered, UpdateFailed, UpsertEndpoint, Tick, vars
<1>9. ASSUME NEW w \in Workers, SelectEndpoints(w)
      PROVE  PassInv' /\ RecordedWasAnnounced'
  <2>1. wevent[w] \in Events
    BY <1>2, <1>9 DEF SelectEndpoints
  <2> QED  BY <1>3, <1>9, <2>1
<1> QED  BY <1>3, <1>4, <1>5, <1>6, <1>7, <1>8, <1>9 DEF Work

\* When a pass over a window is recorded, every endpoint selected for its event
\* has an outbox row and keeps it, for any number of workers and failures.
THEOREM AnnouncedTheorem == Spec => []RecordedWasAnnounced
<1>1. Init => PassInv /\ RecordedWasAnnounced
  BY DEF Init, PassInv, RecordedWasAnnounced
<1>2. TypeOK /\ PassInv /\ RecordedWasAnnounced /\ [Next]_vars
        => PassInv' /\ RecordedWasAnnounced'
  BY PassStep
<1> QED  BY <1>1, <1>2, OutboxTypeCorrect, PTL DEF Spec

-------------------------------------------------------------------------------
(* AttemptsAreLogged: the entries of dispatchers between their two         *)
(* statements.                                                             *)

\* The dispatchers that logged an attempt on r and have not counted it yet.
Counting(r) == {d \in Dispatchers : dpc[d] = "update" /\ job[d].row = r}

\* AttemptsAreLogged, with what makes it inductive: however many dispatchers there
\* are, only finitely many are at work.
LoggedInv ==
    /\ IsFiniteSet({d \in Dispatchers : dpc[d] # "idle"})
    /\ \A r \in Rows : outbox[r].attempt_count + Cardinality(Counting(r)) <= logged[r]

\* There are finitely many of them, before the step.
LEMMA CountingFinite ==
    ASSUME LoggedInv, NEW r
    PROVE  IsFiniteSet(Counting(r)) /\ Cardinality(Counting(r)) \in Nat
<1>1. Counting(r) \in SUBSET {d \in Dispatchers : dpc[d] # "idle"}
  BY DEF Counting
<1>2. IsFiniteSet({d \in Dispatchers : dpc[d] # "idle"})
  BY DEF LoggedInv
<1>3. IsFiniteSet(Counting(r))
  BY <1>1, <1>2, FS_Subset
<1> QED  BY <1>3, FS_CardinalityType

\* A step in which dispatcher d moves and no other one does.
LEMMA BusyStaysFinite ==
    ASSUME LoggedInv, NEW d \in Dispatchers,
           \A c \in Dispatchers : c # d => dpc'[c] = dpc[c]
    PROVE  IsFiniteSet({c \in Dispatchers : dpc'[c] # "idle"})
<1>1. IsFiniteSet({c \in Dispatchers : dpc[c] # "idle"} \cup {d})
  BY FS_AddElement DEF LoggedInv
<1>2. {c \in Dispatchers : dpc'[c] # "idle"}
        \in SUBSET ({c \in Dispatchers : dpc[c] # "idle"} \cup {d})
  OBVIOUS
<1> QED  BY <1>1, <1>2, FS_Subset

\* Every step keeps the log ahead of the counts.
LEMMA LoggedStep ==
    ASSUME TypeOK, LoggedInv, [Next]_vars
    PROVE  LoggedInv'
<1> USE DEF workerVars, dispatchVars
<1>1. /\ dpc \in [Dispatchers -> {"idle", "next", "log", "update"}]
      /\ job \in [Dispatchers -> Deliveries \cup {NoDelivery}]
      /\ \A d \in Dispatchers : dpc[d] \in {"log", "update"} => job[d].row \in Rows
      /\ logged \in [Rows -> Nat]
      /\ \A r \in Rows : outbox[r].attempt_count \in Nat
  BY DEF TypeOK, Deliveries
<1>2. \A r \in Rows : outbox[r].attempt_count + Cardinality(Counting(r)) <= logged[r]
  BY DEF LoggedInv
<1>3. \A r \in Rows : IsFiniteSet(Counting(r)) /\ Cardinality(Counting(r)) \in Nat
  BY CountingFinite
<1>4. ASSUME UNCHANGED <<dpc, job, logged>>,
             \A r \in Rows : outbox'[r].attempt_count = outbox[r].attempt_count
      PROVE  LoggedInv'
  BY <1>4 DEF LoggedInv, Counting
<1>5. ASSUME NEW w \in Workers, Work(w) \/ WorkerFails(w)
      PROVE  LoggedInv'
  <2>1. UNCHANGED <<dpc, job, logged>>
    BY <1>5 DEF Work, WorkerFails, Detect, SelectEndpoints, InsertOutbox, UpdateJobState
  <2>2. ASSUME NEW e \in Endpoints, InsertOutbox(w, e)
        PROVE  \A r \in Rows : outbox'[r].attempt_count = outbox[r].attempt_count
    BY <2>2 DEF InsertOutbox, TypeOK
  <2>3. outbox' = outbox \/ \E e \in Endpoints : InsertOutbox(w, e)
    BY <1>5 DEF Work, WorkerFails, Detect, SelectEndpoints, UpdateJobState
  <2> QED  BY <1>4, <2>1, <2>2, <2>3
<1>6. ASSUME NEW d \in Dispatchers, UNCHANGED <<outbox, logged>>, dpc'[d] # "update",
             \A c \in Dispatchers : c # d => dpc'[c] = dpc[c] /\ job'[c] = job[c]
      PROVE  LoggedInv'
  <2>1. ASSUME NEW r \in Rows
        PROVE  outbox'[r].attempt_count + Cardinality(Counting(r)') <= logged'[r]
    <3>1. Counting(r)' \in SUBSET Counting(r)
      BY <1>6 DEF Counting
    <3>2. Cardinality(Counting(r)') \in Nat /\ Cardinality(Counting(r)') <= Cardinality(Counting(r))
      BY <1>3, <3>1, FS_Subset, FS_CardinalityType
    <3> QED  BY <1>1, <1>2, <1>3, <1>6, <3>2
  <2> QED  BY <1>6, <2>1, BusyStaysFinite DEF LoggedInv
<1>7. ASSUME NEW d \in Dispatchers, Claim(d) \/ BatchDone(d) \/ DispatcherFails(d)
      PROVE  LoggedInv'
  <2>1. /\ UNCHANGED <<outbox, logged>> /\ dpc'[d] # "update"
        /\ \A c \in Dispatchers : c # d => dpc'[c] = dpc[c] /\ job'[c] = job[c]
    BY <1>1, <1>7 DEF Claim, BatchDone, DispatcherFails
  <2> QED  BY <1>6, <2>1
<1>8. ASSUME NEW d \in Dispatchers, NEW p \in batch[d], Post(d, p)
      PROVE  LoggedInv'
  <2>1. /\ UNCHANGED <<outbox, logged>> /\ dpc'[d] # "update"
        /\ \A c \in Dispatchers : c # d => dpc'[c] = dpc[c] /\ job'[c] = job[c]
    BY <1>1, <1>8 DEF Post
  <2> QED  BY <1>6, <2>1
<1>9. ASSUME NEW d \in Dispatchers, InsertDelivery(d)
      PROVE  LoggedInv'
  <2>1. /\ dpc[d] = "log" /\ dpc' = [dpc EXCEPT ![d] = "update"] /\ job[d].row \in Rows
        /\ logged' = [logged EXCEPT ![job[d].row] = @ + 1] /\ UNCHANGED <<outbox, job>>
    BY <1>1, <1>9 DEF InsertDelivery
  <2>2. ASSUME NEW r \in Rows
        PROVE  outbox'[r].attempt_count + Cardinality(Counting(r)') <= logged'[r]
    <3>1. CASE r = job[d].row
      <4>1. Counting(r)' = Counting(r) \cup {d} /\ d \notin Counting(r)
        BY <1>1, <2>1, <3>1 DEF Counting
      <4>2. Cardinality(Counting(r)') = Cardinality(Counting(r)) + 1
        BY <1>3, <4>1, FS_AddElement
      <4>3. logged'[r] = logged[r] + 1
        BY <1>1, <2>1, <3>1
      <4> QED  BY <1>1, <1>2, <1>3, <2>1, <4>2, <4>3
    <3>2. CASE r # job[d].row
      <4>1. Counting(r)' = Counting(r)
        BY <1>1, <2>1, <3>2 DEF Counting
      <4>2. logged'[r] = logged[r]
        BY <1>1, <2>1, <3>2
      <4> QED  BY <1>2, <2>1, <4>1, <4>2
    <3> QED  BY <3>1, <3>2
  <2>3. IsFiniteSet({c \in Dispatchers : dpc'[c] # "idle"})
    BY <1>1, <2>1, BusyStaysFinite
  <2> QED  BY <2>2, <2>3 DEF LoggedInv
<1>10. ASSUME NEW d \in Dispatchers, UpdateDelivered(d) \/ UpdateFailed(d)
       PROVE  LoggedInv'
  <2>1. /\ dpc[d] = "update" /\ dpc' = [dpc EXCEPT ![d] = "next"] /\ job[d].row \in Rows
        /\ job' = [job EXCEPT ![d] = NoDelivery] /\ UNCHANGED logged
    BY <1>1, <1>10 DEF UpdateDelivered, UpdateFailed
  <2>2. ASSUME NEW r \in Rows
        PROVE  outbox'[r].attempt_count + Cardinality(Counting(r)') <= logged'[r]
    <3>1. CASE r = job[d].row
      <4>1. Counting(r)' = Counting(r) \ {d} /\ d \in Counting(r)
        BY <1>1, <2>1, <3>1 DEF Counting
      <4>2. Cardinality(Counting(r)') = Cardinality(Counting(r)) - 1
        BY <1>3, <4>1, FS_RemoveElement
      <4>3. outbox'[r].attempt_count = outbox[r].attempt_count + 1
        BY <1>10, <3>1 DEF UpdateDelivered, UpdateFailed, TypeOK
      <4> QED  BY <1>1, <1>2, <1>3, <2>1, <4>2, <4>3
    <3>2. CASE r # job[d].row
      <4>1. Counting(r)' = Counting(r)
        BY <1>1, <2>1, <3>2 DEF Counting
      <4>2. outbox'[r] = outbox[r]
        BY <1>10, <3>2 DEF UpdateDelivered, UpdateFailed, TypeOK
      <4> QED  BY <1>2, <2>1, <4>1, <4>2
    <3> QED  BY <3>1, <3>2
  <2>3. IsFiniteSet({c \in Dispatchers : dpc'[c] # "idle"})
    BY <1>1, <2>1, BusyStaysFinite
  <2> QED  BY <2>2, <2>3 DEF LoggedInv
<1>11. ASSUME NEW e \in Endpoints, NEW b \in BOOLEAN, NEW n \in MaxChoices,
              UpsertEndpoint(e, b, n)
       PROVE  LoggedInv'
  BY <1>4, <1>11 DEF UpsertEndpoint
<1>12. CASE Tick
  <2>1. \A r \in Rows : outbox'[r].attempt_count = outbox[r].attempt_count
    BY <1>12 DEF Tick, TypeOK
  <2> QED  BY <1>4, <1>12, <2>1 DEF Tick
<1>13. CASE UNCHANGED vars
  BY <1>4, <1>13 DEF vars
<1> QED
  BY <1>5, <1>7, <1>8, <1>9, <1>10, <1>11, <1>12, <1>13 DEF Next, Dispatch

\* Every counted attempt has its entry in webhook_deliveries, for any number of
\* dispatchers that overlap, fail and restart.
THEOREM LoggedTheorem == Spec => []AttemptsAreLogged
<1>1. Init => LoggedInv
  <2> SUFFICES ASSUME Init PROVE LoggedInv
    OBVIOUS
  <2>1. {d \in Dispatchers : dpc[d] # "idle"} = {} /\ \A r \in Rows : Counting(r) = {}
    BY DEF Init, Counting
  <2>2. \A r \in Rows : outbox[r].attempt_count = 0 /\ logged[r] = 0
    BY DEF Init
  <2> QED  BY <2>1, <2>2, FS_EmptySet DEF LoggedInv
<1>2. TypeOK /\ LoggedInv /\ [Next]_vars => LoggedInv'
  BY LoggedStep
<1>3. LoggedInv => AttemptsAreLogged
  BY DEF LoggedInv, AttemptsAreLogged, Counting
<1> QED  BY <1>1, <1>2, <1>3, OutboxTypeCorrect, PTL DEF Spec
===============================================================================
