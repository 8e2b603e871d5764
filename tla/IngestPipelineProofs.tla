------------------------- MODULE IngestPipelineProofs -------------------------
(***************************************************************************)
(* Theorems about the ingest pipeline, for any number of clients, events,  *)
(* metrics, requests and restarts.                                         *)
(***************************************************************************)
EXTENDS IngestPipeline, SequenceTheorems, TLAPS

\* An event has at least its raw record.
LEMMA PartCountNat == \A e \in Events : PartCount(e) \in Nat \ {0}
BY PipelineAssumption DEF PartCount

\* What TypeOK says of a single request.
LEMMA RequestFacts ==
    ASSUME TypeOK
    PROVE  /\ reqs \in Seq(RequestType) /\ Len(reqs) \in Nat /\ DOMAIN reqs = 1..Len(reqs)
           /\ \A r \in 1..Len(reqs) :
                 /\ reqs[r] \in RequestType /\ reqs[r].sent \in Nat
                 /\ reqs[r].event \in Events /\ PartCount(reqs[r].event) \in Nat \ {0}
                 /\ reqs[r].sent <= PartCount(reqs[r].event)
<1>1. reqs \in Seq(RequestType)
  BY DEF TypeOK
<1>2. Len(reqs) \in Nat /\ DOMAIN reqs = 1..Len(reqs)
  BY <1>1, LenProperties
<1>3. \A r \in 1..Len(reqs) : reqs[r] \in RequestType
  BY <1>1, ElementOfSeq
<1>4. \A r \in 1..Len(reqs) : reqs[r].sent \in Nat /\ reqs[r].event \in Events
  BY <1>3 DEF RequestType
<1>5. \A r \in 1..Len(reqs) : reqs[r].sent <= PartCount(reqs[r].event)
  BY <1>2 DEF TypeOK
<1> QED  BY <1>1, <1>2, <1>3, <1>4, <1>5, PartCountNat

\* A record the publisher sends next, or has in its buffer.
OnItsWay(x) ==
    /\ x \in (DOMAIN reqs) \X Nat /\ x[2] \in 1..PartCount(reqs[x[1]].event)
    /\ x \in buffer \/ x[2] = reqs[x[1]].sent + 1

\* What every step keeps: requests and records are only added, a request keeps
\* its event and its key, and its count of records only goes up.
Grows ==
    /\ reqs' \in Seq(RequestType) /\ Len(reqs) <= Len(reqs')
    /\ \A r \in 1..Len(reqs) :
          /\ reqs'[r].client = reqs[r].client /\ reqs'[r].event = reqs[r].event
          /\ reqs'[r].sequence = reqs[r].sequence
          /\ reqs[r].sent <= reqs'[r].sent
          /\ reqs'[r].sent <= PartCount(reqs[r].event)
    /\ log' \in [Topics -> Seq(Nat \X Nat)]
    /\ \A t \in Topics :
          /\ Len(log[t]) <= Len(log'[t])
          /\ \A n \in 1..Len(log[t]) : log'[t][n] = log[t][n]
          /\ \A n \in Len(log[t])+1..Len(log'[t]) :
                OnItsWay(log'[t][n]) /\ t = Topic(log'[t][n])
    /\ \A x \in buffer' : OnItsWay(x)

\* A request that moves on keeps everything but its pc and its count.
LEMMA RequestStep ==
    ASSUME TypeOK, NEW r \in DOMAIN reqs, NEW q \in RequestType,
           q.client = reqs[r].client, q.event = reqs[r].event,
           q.sequence = reqs[r].sequence, reqs[r].sent <= q.sent,
           q.sent <= PartCount(q.event),
           reqs' = [reqs EXCEPT ![r] = q]
    PROVE  /\ reqs' \in Seq(RequestType) /\ Len(reqs') = Len(reqs)
           /\ reqs'[r] = q
           /\ \A s \in 1..Len(reqs) :
                 /\ reqs'[s].client = reqs[s].client /\ reqs'[s].event = reqs[s].event
                 /\ reqs'[s].sequence = reqs[s].sequence
                 /\ reqs[s].sent <= reqs'[s].sent
                 /\ reqs'[s].sent <= PartCount(reqs[s].event)
                 /\ s # r => reqs'[s] = reqs[s]
<1>1. reqs \in Seq(RequestType) /\ r \in 1..Len(reqs)
  BY DEF TypeOK
<1>2. /\ reqs' \in Seq(RequestType) /\ Len(reqs') = Len(reqs)
      /\ \A s \in 1..Len(reqs) : reqs'[s] = IF s = r THEN q ELSE reqs[s]
  BY <1>1, ExceptSeq
<1> QED  BY <1>1, <1>2, RequestFacts

\* A record goes to the end of its topic.
LEMMA LogStep ==
    ASSUME TypeOK, NEW x \in Nat \X Nat, OnItsWay(x), Topic(x) \in Topics,
           log' = [log EXCEPT ![Topic(x)] = Append(@, x)]
    PROVE  /\ log' \in [Topics -> Seq(Nat \X Nat)]
           /\ \A t \in Topics :
                 /\ Len(log[t]) <= Len(log'[t])
                 /\ \A n \in 1..Len(log[t]) : log'[t][n] = log[t][n]
                 /\ \A n \in Len(log[t])+1..Len(log'[t]) :
                       OnItsWay(log'[t][n]) /\ t = Topic(log'[t][n])
           /\ log'[Topic(x)][Len(log'[Topic(x)])] = x /\ Len(log'[Topic(x)]) \in Nat \ {0}
<1> DEFINE u == Topic(x)
<1>0. u \in Topics /\ u = Topic(x) /\ log' = [log EXCEPT ![u] = Append(@, x)]
  OBVIOUS
<1> HIDE DEF u
<1>1. log \in [Topics -> Seq(Nat \X Nat)]
  BY DEF TypeOK
<1>2. log[u] \in Seq(Nat \X Nat) /\ log'[u] = Append(log[u], x)
      /\ \A t \in Topics \ {u} : log'[t] = log[t]
  BY <1>0, <1>1
<1>3. /\ Append(log[u], x) \in Seq(Nat \X Nat)
      /\ Len(Append(log[u], x)) = Len(log[u]) + 1 /\ Len(log[u]) \in Nat
      /\ \A n \in 1..Len(log[u]) : Append(log[u], x)[n] = log[u][n]
      /\ Append(log[u], x)[Len(log[u]) + 1] = x
  BY <1>2
<1>4. \A t \in Topics : Len(log[t]) \in Nat
  BY <1>1
<1>5. log' \in [Topics -> Seq(Nat \X Nat)]
  BY <1>0, <1>1, <1>2, <1>3
<1>6. ASSUME NEW t \in Topics
      PROVE  /\ Len(log[t]) <= Len(log'[t])
             /\ \A n \in 1..Len(log[t]) : log'[t][n] = log[t][n]
             /\ \A n \in Len(log[t])+1..Len(log'[t]) : t = u /\ log'[t][n] = x
  <2>1. CASE t = u
    <3>1. Len(log'[t]) = Len(log[t]) + 1 /\ Len(log[t]) \in Nat
      BY <1>2, <1>3, <2>1
    <3>2. \A n \in Len(log[t])+1..Len(log'[t]) : n = Len(log[t]) + 1
      BY <3>1
    <3>3. log'[t][Len(log[t]) + 1] = x /\ \A n \in 1..Len(log[t]) : log'[t][n] = log[t][n]
      BY <1>2, <1>3, <2>1
    <3> QED  BY <2>1, <3>1, <3>2, <3>3
  <2>2. CASE t # u
    <3>1. log'[t] = log[t] /\ Len(log[t]) \in Nat
      BY <1>2, <1>4, <2>2
    <3>2. Len(log[t]) <= Len(log[t]) /\ \A n \in Len(log[t])+1..Len(log[t]) : FALSE
      BY <3>1
    <3> QED  BY <3>1, <3>2, Zenon
  <2> QED  BY <2>1, <2>2
<1>7. log'[u][Len(log'[u])] = x /\ Len(log'[u]) \in Nat \ {0}
  BY <1>2, <1>3
<1> QED  BY <1>0, <1>5, <1>6, <1>7, Zenon

\* A step that leaves requests, topics and buffer alone keeps them.
LEMMA GrowsStutter ==
    ASSUME TypeOK, UNCHANGED <<reqs, log>>, buffer' \subseteq buffer
    PROVE  Grows
<1>2. \A t \in Topics : Len(log[t]) \in Nat
  BY DEF TypeOK
<1>3. \A x \in buffer : OnItsWay(x)
  BY DEF TypeOK, OnItsWay
<1> QED  BY <1>2, <1>3, RequestFacts DEF TypeOK, Grows

\* A step of a request that touches neither the topics nor its count.
LEMMA GrowsGoto ==
    ASSUME TypeOK, NEW r \in DOMAIN reqs,
           NEW pc \in {"check", "refused", "publish", "unavailable", "accepted"},
           Goto(r, pc), log' = log, \A x \in buffer' : OnItsWay(x)
    PROVE  Grows
<1> DEFINE q == [reqs[r] EXCEPT !.pc = pc]
<1>1. reqs[r] \in RequestType /\ reqs[r].sent <= PartCount(reqs[r].event) /\ reqs[r].sent \in Nat
  BY RequestFacts
<1>2. /\ q \in RequestType /\ q.client = reqs[r].client /\ q.event = reqs[r].event
      /\ q.sequence = reqs[r].sequence /\ q.sent = reqs[r].sent
  BY <1>1 DEF RequestType
<1>3. /\ reqs' = [reqs EXCEPT ![r] = q]
      /\ reqs[r].sent <= q.sent /\ q.sent <= PartCount(q.event)
  BY <1>1, <1>2 DEF Goto
<1> HIDE DEF q
<1>4. /\ reqs' \in Seq(RequestType) /\ Len(reqs') = Len(reqs)
      /\ \A s \in 1..Len(reqs) :
            /\ reqs'[s].client = reqs[s].client /\ reqs'[s].event = reqs[s].event
            /\ reqs'[s].sequence = reqs[s].sequence
            /\ reqs[s].sent <= reqs'[s].sent
            /\ reqs'[s].sent <= PartCount(reqs[s].event)
  BY <1>1, <1>2, <1>3, RequestStep
<1>5. \A t \in Topics : Len(log[t]) \in Nat
  BY DEF TypeOK
<1>6. Len(reqs) \in Nat
  BY DEF TypeOK
<1> QED  BY <1>4, <1>5, <1>6 DEF TypeOK, Grows

\* Every step adds to the requests and topics, and takes nothing away.
LEMMA GrowsLemma == TypeOK /\ [Next]_vars => Grows
<1> SUFFICES ASSUME TypeOK, [Next]_vars PROVE Grows
  OBVIOUS
<1> USE DEF clientVars, sinkVars
<1>0. \A x \in buffer : OnItsWay(x)
  BY DEF TypeOK, OnItsWay
<1>1. ASSUME NEW c \in Clients, NEW e \in Events, SendEvent(c, e)
      PROVE  Grows
  <2> DEFINE q == [client |-> c, event |-> e, sequence |-> sequence[c],
                   pc |-> "check", sent |-> 0]
  <2>1. q \in RequestType
    BY DEF TypeOK, RequestType
  <2>2. reqs \in Seq(RequestType) /\ reqs' = Append(reqs, q)
    BY <1>1 DEF TypeOK, SendEvent
  <2> HIDE DEF q
  <2>3. /\ reqs' \in Seq(RequestType) /\ Len(reqs') = Len(reqs) + 1 /\ Len(reqs) \in Nat
        /\ \A s \in 1..Len(reqs) : reqs'[s] = reqs[s]
    BY <2>1, <2>2
  <2>6. log' = log /\ buffer' = buffer
    BY <1>1 DEF SendEvent
  <2>7. \A t \in Topics : Len(log[t]) \in Nat
    BY DEF TypeOK
  <2> QED  BY <1>0, <2>3, <2>6, <2>7, RequestFacts DEF Grows, TypeOK
<1>2. ASSUME NEW c \in Clients, Succeed(c) \/ Fail(c)
      PROVE  Grows
  BY <1>2, GrowsStutter DEF Succeed, Fail
<1>3. ASSUME NEW r \in DOMAIN reqs, Refuse(r) \/ Admit(r) \/ Accept(r)
      PROVE  Grows
  BY <1>0, <1>3, GrowsGoto DEF Refuse, Admit, Accept
<1>4. ASSUME NEW r \in DOMAIN reqs, PublishFails(r)
      PROVE  Grows
  <2>1. reqs[r] \in RequestType /\ reqs[r].sent \in Nat
    BY RequestFacts
  <2>2. OnItsWay(<<r, reqs[r].sent + 1>>)
    BY <1>4, <2>1, RequestFacts DEF PublishFails, OnItsWay
  <2>3. \A x \in buffer' : OnItsWay(x)
    BY <1>0, <1>4, <2>2 DEF PublishFails
  <2> QED  BY <1>4, <2>3, GrowsGoto DEF PublishFails
<1>5. ASSUME NEW r \in DOMAIN reqs, Publish(r)
      PROVE  Grows
  <2> DEFINE x == <<r, reqs[r].sent + 1>>
             q == [reqs[r] EXCEPT !.sent = @ + 1]
  <2>1. reqs[r] \in RequestType /\ reqs[r].sent \in Nat /\ PartCount(reqs[r].event) \in Nat
    BY RequestFacts
  <2>2. x \in Nat \X Nat /\ x[1] = r /\ x[2] = reqs[r].sent + 1 /\ OnItsWay(x) /\ Topic(x) \in Topics
    <3>1. r \in Nat /\ x[1] = r /\ x[2] = reqs[r].sent + 1 /\ x[2] \in 1..PartCount(reqs[r].event)
      BY <1>5, <2>1, RequestFacts DEF Publish
    <3>2. Topic(x) \in Topics
      BY DEF Topic, TopicOf, Topics
    <3>3. x \in (DOMAIN reqs) \X Nat /\ x \in Nat \X Nat
      BY <2>1, <3>1
    <3> HIDE DEF x
    <3> QED  BY <3>1, <3>2, <3>3 DEF OnItsWay
  <2>3. log' = [log EXCEPT ![Topic(x)] = Append(@, x)] /\ buffer' = buffer
    BY <1>5 DEF Publish
  <2>4. /\ q \in RequestType /\ q.client = reqs[r].client /\ q.event = reqs[r].event
        /\ q.sequence = reqs[r].sequence /\ q.sent = reqs[r].sent + 1
        /\ reqs' = [reqs EXCEPT ![r] = q]
        /\ reqs[r].sent <= q.sent /\ q.sent <= PartCount(q.event)
    BY <1>5, <2>1 DEF RequestType, Publish
  <2> HIDE DEF x, q
  <2>5. /\ reqs' \in Seq(RequestType) /\ Len(reqs') = Len(reqs)
        /\ \A s \in 1..Len(reqs) :
              /\ reqs'[s].client = reqs[s].client /\ reqs'[s].event = reqs[s].event
              /\ reqs'[s].sequence = reqs[s].sequence
              /\ reqs[s].sent <= reqs'[s].sent
              /\ reqs'[s].sent <= PartCount(reqs[s].event)
    BY <2>1, <2>4, RequestStep
  <2>6. /\ log' \in [Topics -> Seq(Nat \X Nat)]
        /\ \A t \in Topics :
              /\ Len(log[t]) <= Len(log'[t])
              /\ \A n \in 1..Len(log[t]) : log'[t][n] = log[t][n]
              /\ \A n \in Len(log[t])+1..Len(log'[t]) :
                    OnItsWay(log'[t][n]) /\ t = Topic(log'[t][n])
    BY <2>2, <2>3, LogStep
  <2>7. Len(reqs) <= Len(reqs')
    BY <2>5, RequestFacts
  <2>8. \A y \in buffer' : OnItsWay(y)
    BY <1>0, <2>3
  <2> QED  BY <2>5, <2>6, <2>7, <2>8, Zenon DEF Grows
<1>6. ASSUME NEW x \in buffer, BufferedSend(x)
      PROVE  Grows
  <2>1. x \in Nat \X Nat /\ Topic(x) \in Topics /\ OnItsWay(x)
    BY <1>0 DEF TypeOK, Topic, TopicOf, Topics
  <2>2. CASE log' = log
    BY <1>6, <2>2, GrowsStutter DEF BufferedSend
  <2>3. CASE log' = [log EXCEPT ![Topic(x)] = Append(@, x)]
    <3>1. /\ log' \in [Topics -> Seq(Nat \X Nat)]
          /\ \A t \in Topics :
                /\ Len(log[t]) <= Len(log'[t])
                /\ \A n \in 1..Len(log[t]) : log'[t][n] = log[t][n]
                /\ \A n \in Len(log[t])+1..Len(log'[t]) :
                      OnItsWay(log'[t][n]) /\ t = Topic(log'[t][n])
      BY <2>1, <2>3, LogStep
    <3>2. reqs' = reqs /\ \A y \in buffer' : OnItsWay(y)
      BY <1>0, <1>6 DEF BufferedSend
    <3>3. /\ reqs' \in Seq(RequestType) /\ Len(reqs) <= Len(reqs')
          /\ \A r \in 1..Len(reqs) :
                /\ reqs'[r].client = reqs[r].client /\ reqs'[r].event = reqs[r].event
                /\ reqs'[r].sequence = reqs[r].sequence
                /\ reqs[r].sent <= reqs'[r].sent
                /\ reqs'[r].sent <= PartCount(reqs[r].event)
      BY <3>2, RequestFacts
    <3> QED  BY <3>1, <3>2, <3>3, Zenon DEF Grows
  <2> QED  BY <1>6, <2>2, <2>3 DEF BufferedSend
<1>7. ASSUME NEW t \in Topics, Sink(t)
      PROVE  Grows
  BY <1>7, GrowsStutter DEF Sink, Deliver, CommitOffset, Restart
<1>8. CASE UNCHANGED vars
  BY <1>8, GrowsStutter DEF vars
<1> QED  BY <1>1, <1>2, <1>3, <1>4, <1>5, <1>6, <1>7, <1>8 DEF Next, Client, Serve

\* What a step does to the counts: a count goes up by the record that was
\* published, a request is accepted when its count is full, and starts at zero.
Counts ==
    /\ \A r \in 1..Len(reqs) :
          /\ \/ reqs'[r].sent = reqs[r].sent
             \/ /\ reqs'[r].sent = reqs[r].sent + 1 /\ reqs'[r].pc = "publish"
                /\ \E t \in Topics : /\ t = TopicOf(reqs[r].event, reqs[r].sent + 1)
                                   /\ <<r, reqs[r].sent + 1>> \in InTopic(t)'
          /\ reqs'[r].pc = "accepted" =>
                reqs[r].pc = "accepted" \/ reqs[r].sent = PartCount(reqs[r].event)
    /\ \A r \in Len(reqs)+1..Len(reqs') : reqs'[r].sent = 0 /\ reqs'[r].pc = "check"

\* A step that changes no request changes no count.
LEMMA CountsStutter ==
    ASSUME TypeOK, reqs' = reqs
    PROVE  Counts
<1>1. Len(reqs) \in Nat
  BY RequestFacts
<1>2. \A r \in Len(reqs)+1..Len(reqs) : FALSE
  BY <1>1
<1> QED  BY <1>2, Zenon DEF Counts

\* A step of a request that only moves its pc.
LEMMA CountsGoto ==
    ASSUME TypeOK, NEW r \in DOMAIN reqs,
           NEW pc \in {"check", "refused", "publish", "unavailable", "accepted"},
           Goto(r, pc), pc = "accepted" => reqs[r].sent = PartCount(reqs[r].event)
    PROVE  Counts
<1>1. reqs \in Seq(RequestType) /\ r \in 1..Len(reqs) /\ reqs[r] \in RequestType
  BY RequestFacts
<1> DEFINE q == [reqs[r] EXCEPT !.pc = pc]
<1>2. q \in RequestType /\ q.sent = reqs[r].sent /\ q.pc = pc /\ reqs' = [reqs EXCEPT ![r] = q]
  BY <1>1 DEF RequestType, Goto
<1> HIDE DEF q
<1>3. Len(reqs') = Len(reqs) /\ \A s \in 1..Len(reqs) : reqs'[s] = IF s = r THEN q ELSE reqs[s]
  BY <1>1, <1>2, ExceptSeq
<1>4. \A s \in Len(reqs)+1..Len(reqs') : FALSE
  BY <1>3, RequestFacts
<1>5. ASSUME NEW s \in 1..Len(reqs)
      PROVE  /\ reqs'[s].sent = reqs[s].sent
             /\ reqs'[s].pc = "accepted" =>
                   reqs[s].pc = "accepted" \/ reqs[s].sent = PartCount(reqs[s].event)
  BY <1>2, <1>3
<1> QED  BY <1>4, <1>5, Zenon DEF Counts

\* Every step keeps the counts in line with the topics.
LEMMA CountsLemma == TypeOK /\ [Next]_vars => Counts
<1> SUFFICES ASSUME TypeOK, [Next]_vars PROVE Counts
  OBVIOUS
<1> USE DEF clientVars, sinkVars
<1>1. ASSUME NEW c \in Clients, NEW e \in Events, SendEvent(c, e)
      PROVE  Counts
  <2> DEFINE q == [client |-> c, event |-> e, sequence |-> sequence[c],
                   pc |-> "check", sent |-> 0]
  <2>1. q \in RequestType /\ q.sent = 0 /\ q.pc = "check"
    BY DEF TypeOK, RequestType
  <2>2. reqs \in Seq(RequestType) /\ reqs' = Append(reqs, q)
    BY <1>1 DEF TypeOK, SendEvent
  <2> HIDE DEF q
  <2>3. /\ Len(reqs') = Len(reqs) + 1 /\ Len(reqs) \in Nat
        /\ \A s \in 1..Len(reqs) : reqs'[s] = reqs[s]
        /\ reqs'[Len(reqs) + 1] = q
    BY <2>1, <2>2
  <2>4. \A s \in Len(reqs)+1..Len(reqs') : reqs'[s] = q
    BY <2>3
  <2> QED  BY <2>1, <2>3, <2>4, Zenon DEF Counts
<1>2. ASSUME NEW r \in DOMAIN reqs, Refuse(r) \/ Admit(r) \/ PublishFails(r) \/ Accept(r)
      PROVE  Counts
  BY <1>2, CountsGoto DEF Refuse, Admit, PublishFails, Accept
<1>3. ASSUME NEW r \in DOMAIN reqs, Publish(r)
      PROVE  Counts
  <2> DEFINE x == <<r, reqs[r].sent + 1>>
             q == [reqs[r] EXCEPT !.sent = @ + 1]
  <2>1. /\ reqs \in Seq(RequestType) /\ r \in 1..Len(reqs) /\ reqs[r] \in RequestType
        /\ reqs[r].sent \in Nat /\ reqs[r].event \in Events
        /\ PartCount(reqs[r].event) \in Nat /\ Len(reqs) \in Nat
    BY RequestFacts
  <2>2. /\ q.sent = reqs[r].sent + 1 /\ q.pc = "publish" /\ q \in RequestType
        /\ reqs' = [reqs EXCEPT ![r] = q]
    <3>1. reqs[r].pc = "publish" /\ reqs' = [reqs EXCEPT ![r] = q]
      BY <1>3 DEF Publish
    <3>2. q.sent = reqs[r].sent + 1 /\ q.pc = reqs[r].pc
      BY <2>1 DEF RequestType
    <3>3. q \in RequestType
      <4>1. reqs[r] \in RequestType /\ reqs[r].sent + 1 \in Nat
        BY <2>1
      <4> QED  BY <4>1 DEF RequestType
    <3> QED  BY <3>1, <3>2, <3>3
  <2>3. /\ x \in Nat \X Nat /\ x[1] = r /\ x[2] = reqs[r].sent + 1
        /\ x[2] \in 1..PartCount(reqs[r].event)
        /\ log' = [log EXCEPT ![Topic(x)] = Append(@, x)]
        /\ x = <<r, reqs[r].sent + 1>>
    BY <1>3, <2>1 DEF Publish
  <2> HIDE DEF x, q
  <2>4. OnItsWay(x) /\ Topic(x) \in Topics /\ Topic(x) = TopicOf(reqs[r].event, reqs[r].sent + 1)
    <3>1. Topic(x) = TopicOf(reqs[r].event, reqs[r].sent + 1)
      BY <2>3 DEF Topic
    <3>2. x \in (DOMAIN reqs) \X Nat
      BY <2>1, <2>3
    <3> QED  BY <2>3, <3>1, <3>2 DEF OnItsWay, TopicOf, Topics
  <2>5. /\ log'[Topic(x)][Len(log'[Topic(x)])] = x /\ Len(log'[Topic(x)]) \in Nat \ {0}
        /\ log' \in [Topics -> Seq(Nat \X Nat)]
    BY <2>3, <2>4, LogStep
  <2>6. \E t \in Topics : /\ t = TopicOf(reqs[r].event, reqs[r].sent + 1)
                         /\ x \in InTopic(t)'
    <3> DEFINE u == Topic(x)
    <3>1. u \in Topics /\ u = TopicOf(reqs[r].event, reqs[r].sent + 1)
      BY <2>4
    <3>2. log'[u] \in Seq(Nat \X Nat) /\ Len(log'[u]) \in DOMAIN log'[u] /\ log'[u][Len(log'[u])] = x
      BY <2>5, <3>1
    <3> HIDE DEF u
    <3>3. x \in {log'[u][i] : i \in DOMAIN log'[u]}
      BY <3>2
    <3> QED  BY <3>1, <3>3 DEF InTopic
  <2>7. Len(reqs') = Len(reqs) /\ \A s \in 1..Len(reqs) : reqs'[s] = IF s = r THEN q ELSE reqs[s]
    BY <2>1, <2>2, ExceptSeq
  <2>8. \A s \in Len(reqs)+1..Len(reqs') : FALSE
    BY <2>1, <2>7
  <2>9. ASSUME NEW s \in 1..Len(reqs)
        PROVE  /\ \/ reqs'[s].sent = reqs[s].sent
                  \/ /\ reqs'[s].sent = reqs[s].sent + 1 /\ reqs'[s].pc = "publish"
                     /\ \E t \in Topics : /\ t = TopicOf(reqs[s].event, reqs[s].sent + 1)
                                        /\ <<s, reqs[s].sent + 1>> \in InTopic(t)'
               /\ reqs'[s].pc = "accepted" => reqs[s].pc = "accepted"
    <3>1. CASE s = r
      <4>1. reqs'[s] = q /\ <<s, reqs[s].sent + 1>> = x
        BY <2>3, <2>7, <3>1
      <4> QED  BY <2>2, <2>6, <3>1, <4>1
    <3>2. CASE s # r
      BY <2>7, <3>2
    <3> QED  BY <3>1, <3>2
  <2> QED  BY <2>8, <2>9, Zenon DEF Counts
<1>4. CASE reqs' = reqs
  BY <1>4, CountsStutter
<1>5. ASSUME NEW c \in Clients, Succeed(c) \/ Fail(c) PROVE reqs' = reqs
  BY <1>5 DEF Succeed, Fail
<1>6. ASSUME NEW x \in buffer, BufferedSend(x) PROVE reqs' = reqs
  BY <1>6 DEF BufferedSend
<1>7. ASSUME NEW t \in Topics, Sink(t) PROVE reqs' = reqs
  BY <1>7 DEF Sink, Deliver, CommitOffset, Restart
<1>8. CASE UNCHANGED vars
  BY <1>8, CountsStutter DEF vars
<1> QED  BY <1>1, <1>2, <1>3, <1>4, <1>5, <1>6, <1>7, <1>8 DEF Next, Client, Serve

\* Requests and topics before and after a step.
LEMMA TopicsGrow ==
    ASSUME TypeOK, Grows
    PROVE  /\ Len(reqs) \in Nat /\ Len(reqs') \in Nat
           /\ DOMAIN reqs = 1..Len(reqs) /\ DOMAIN reqs' = 1..Len(reqs')
           /\ DOMAIN reqs \subseteq DOMAIN reqs'
           /\ \A t \in Topics :
                 /\ Len(log[t]) \in Nat /\ Len(log'[t]) \in Nat
                 /\ DOMAIN log[t] = 1..Len(log[t]) /\ DOMAIN log'[t] = 1..Len(log'[t])
                 /\ DOMAIN log[t] \subseteq DOMAIN log'[t]
                 /\ InTopic(t) \subseteq InTopic(t)'
                 /\ \A x \in InTopic(t)' : x \in InTopic(t) \/ (OnItsWay(x) /\ t = Topic(x))
<1>1. reqs \in Seq(RequestType) /\ log \in [Topics -> Seq(Nat \X Nat)]
  BY DEF TypeOK
<1>2. /\ reqs' \in Seq(RequestType) /\ Len(reqs) <= Len(reqs')
      /\ log' \in [Topics -> Seq(Nat \X Nat)]
  BY DEF Grows
<1>3. /\ Len(reqs) \in Nat /\ Len(reqs') \in Nat
      /\ DOMAIN reqs = 1..Len(reqs) /\ DOMAIN reqs' = 1..Len(reqs')
      /\ DOMAIN reqs \subseteq DOMAIN reqs'
  BY <1>1, <1>2
<1>4. ASSUME NEW t \in Topics
      PROVE  /\ Len(log[t]) \in Nat /\ Len(log'[t]) \in Nat
             /\ DOMAIN log[t] = 1..Len(log[t]) /\ DOMAIN log'[t] = 1..Len(log'[t])
             /\ DOMAIN log[t] \subseteq DOMAIN log'[t]
             /\ InTopic(t) \subseteq InTopic(t)'
             /\ \A x \in InTopic(t)' : x \in InTopic(t) \/ (OnItsWay(x) /\ t = Topic(x))
  <2>1. /\ Len(log[t]) <= Len(log'[t])
        /\ \A n \in 1..Len(log[t]) : log'[t][n] = log[t][n]
        /\ \A n \in Len(log[t])+1..Len(log'[t]) :
              OnItsWay(log'[t][n]) /\ t = Topic(log'[t][n])
    BY DEF Grows
  <2>2. /\ Len(log[t]) \in Nat /\ Len(log'[t]) \in Nat
        /\ DOMAIN log[t] = 1..Len(log[t]) /\ DOMAIN log'[t] = 1..Len(log'[t])
    BY <1>1, <1>2
  <2>3. /\ DOMAIN log[t] \subseteq DOMAIN log'[t]
        /\ DOMAIN log'[t] \subseteq (1..Len(log[t])) \cup (Len(log[t])+1..Len(log'[t]))
    BY <2>1, <2>2
  <2>4. InTopic(t) \subseteq InTopic(t)'
    BY <2>1, <2>2, <2>3, Zenon DEF InTopic
  <2>5. \A x \in InTopic(t)' : x \in InTopic(t) \/ (OnItsWay(x) /\ t = Topic(x))
    <3> SUFFICES ASSUME NEW n \in DOMAIN log'[t]
                 PROVE  \/ log'[t][n] \in InTopic(t)
                        \/ OnItsWay(log'[t][n]) /\ t = Topic(log'[t][n])
      BY Zenon DEF InTopic
    <3>1. CASE n \in 1..Len(log[t])
      BY <2>1, <2>2, <3>1, Zenon DEF InTopic
    <3>2. CASE n \in Len(log[t])+1..Len(log'[t])
      BY <2>1, <3>2, Zenon
    <3> QED  BY <2>3, <3>1, <3>2, Zenon
  <2> QED  BY <2>2, <2>3, <2>4, <2>5, Zenon
<1> QED  BY <1>3, <1>4, Zenon

\* The next-state relation keeps the types.
LEMMA TypeStep == TypeOK /\ [Next]_vars => TypeOK'
<1> SUFFICES ASSUME TypeOK, [Next]_vars PROVE TypeOK'
  OBVIOUS
<1>1. Grows /\ Counts
  BY GrowsLemma, CountsLemma
<1>2. /\ Len(reqs) \in Nat /\ Len(reqs') \in Nat
      /\ DOMAIN reqs = 1..Len(reqs) /\ DOMAIN reqs' = 1..Len(reqs')
      /\ DOMAIN reqs \subseteq DOMAIN reqs'
      /\ \A t \in Topics :
            /\ Len(log[t]) \in Nat /\ Len(log'[t]) \in Nat
            /\ DOMAIN log[t] = 1..Len(log[t])
            /\ \A x \in InTopic(t)' : x \in InTopic(t) \/ (OnItsWay(x) /\ t = Topic(x))
  BY <1>1, TopicsGrow
<1>3. /\ reqs' \in Seq(RequestType)
      /\ \A r \in DOMAIN reqs' : reqs'[r].sent <= PartCount(reqs'[r].event)
  <2>1. reqs' \in Seq(RequestType)
    BY <1>1 DEF Grows
  <2>2. \A r \in 1..Len(reqs) : reqs'[r].sent <= PartCount(reqs'[r].event)
    BY <1>1 DEF Grows
  <2>3. ASSUME NEW r \in Len(reqs)+1..Len(reqs')
        PROVE  reqs'[r].sent <= PartCount(reqs'[r].event)
    <3>1. reqs'[r].sent = 0
      BY <1>1 DEF Counts
    <3>2. reqs'[r] \in RequestType
      BY <1>2, <2>1
    <3>3. PartCount(reqs'[r].event) \in Nat
      BY <3>2, PartCountNat DEF RequestType
    <3> QED  BY <3>1, <3>3
  <2>4. DOMAIN reqs' \subseteq (1..Len(reqs)) \cup (Len(reqs)+1..Len(reqs'))
    BY <1>2
  <2> QED  BY <2>1, <2>2, <2>3, <2>4, Zenon
<1>4. ASSUME NEW x, OnItsWay(x)
      PROVE  x \in (DOMAIN reqs') \X Nat /\ x[2] \in 1..PartCount(reqs'[x[1]].event)
  <2>1. x \in (DOMAIN reqs) \X Nat /\ x[2] \in 1..PartCount(reqs[x[1]].event)
    BY <1>4 DEF OnItsWay
  <2>2. reqs'[x[1]].event = reqs[x[1]].event
    BY <1>1, <1>2, <2>1 DEF Grows
  <2>3. x \in (DOMAIN reqs') \X Nat
    BY <1>2, <2>1
  <2> QED  BY <2>1, <2>2, <2>3
<1>5. \A x \in buffer' : x \in (DOMAIN reqs') \X Nat /\ x[2] \in 1..PartCount(reqs'[x[1]].event)
  BY <1>1, <1>4 DEF Grows
<1>6. /\ log' \in [Topics -> Seq(Nat \X Nat)]
      /\ \A t \in Topics : \A x \in InTopic(t)' :
            x[1] \in DOMAIN reqs' /\ x[2] \in 1..PartCount(reqs'[x[1]].event)
  <2>1. log' \in [Topics -> Seq(Nat \X Nat)]
    BY <1>1 DEF Grows
  <2>2. ASSUME NEW t \in Topics, NEW x \in InTopic(t)'
        PROVE  x[1] \in DOMAIN reqs' /\ x[2] \in 1..PartCount(reqs'[x[1]].event)
    <3>1. CASE x \in InTopic(t)
      <4>1. x[1] \in DOMAIN reqs /\ x[2] \in 1..PartCount(reqs[x[1]].event)
        BY <3>1 DEF TypeOK
      <4>2. reqs'[x[1]].event = reqs[x[1]].event
        BY <1>1, <1>2, <4>1 DEF Grows
      <4> QED  BY <1>2, <4>1, <4>2
    <3>2. CASE OnItsWay(x)
      BY <1>4, <3>2
    <3> QED  BY <1>2, <3>1, <3>2
  <2> QED  BY <2>1, <2>2, Zenon
<1>7. /\ sequence' \in [Clients -> Nat] /\ done' \subseteq Events
      /\ call' \in [Clients -> Nat \cup {NoCall}]
      /\ \A c \in Clients : call'[c] # NoCall => call'[c] \in DOMAIN reqs'
  <2> USE DEF clientVars, sinkVars
  <2>0. /\ sequence \in [Clients -> Nat] /\ done \subseteq Events
        /\ call \in [Clients -> Nat \cup {NoCall}]
        /\ \A c \in Clients : call[c] # NoCall => call[c] \in DOMAIN reqs
    BY DEF TypeOK
  <2>1. CASE UNCHANGED clientVars
    BY <1>2, <2>0, <2>1
  <2>2. ASSUME NEW c \in Clients, NEW e \in Events, SendEvent(c, e)
        PROVE  /\ sequence' \in [Clients -> Nat] /\ done' \subseteq Events
               /\ call' \in [Clients -> Nat \cup {NoCall}]
               /\ \A d \in Clients : call'[d] # NoCall => call'[d] \in DOMAIN reqs'
    <3>1. Len(reqs') = Len(reqs) + 1
      BY <2>2 DEF SendEvent, TypeOK
    <3>2. call' = [call EXCEPT ![c] = Len(reqs) + 1] /\ UNCHANGED <<sequence, done>>
      BY <2>2 DEF SendEvent
    <3>3. Len(reqs) + 1 \in DOMAIN reqs' /\ Len(reqs) + 1 \in Nat
      BY <1>2, <3>1
    <3> QED  BY <1>2, <2>0, <3>2, <3>3
  <2>3. ASSUME NEW c \in Clients, Succeed(c)
        PROVE  /\ sequence' \in [Clients -> Nat] /\ done' \subseteq Events
               /\ call' \in [Clients -> Nat \cup {NoCall}]
               /\ \A d \in Clients : call'[d] # NoCall => call'[d] \in DOMAIN reqs'
    <3>1. reqs[call[c]].event \in Events
      BY <1>2, <2>0, <2>3, RequestFacts DEF Succeed
    <3> QED  BY <1>2, <2>0, <2>3, <3>1 DEF Succeed
  <2>4. ASSUME NEW c \in Clients, Fail(c)
        PROVE  /\ sequence' \in [Clients -> Nat] /\ done' \subseteq Events
               /\ call' \in [Clients -> Nat \cup {NoCall}]
               /\ \A d \in Clients : call'[d] # NoCall => call'[d] \in DOMAIN reqs'
    BY <1>2, <2>0, <2>4 DEF Fail
  <2>5. ASSUME NEW r \in DOMAIN reqs, Serve(r) PROVE UNCHANGED clientVars
    BY <2>5 DEF Serve, Refuse, Admit, Publish, PublishFails, Accept
  <2>6. ASSUME NEW x \in buffer, BufferedSend(x) PROVE UNCHANGED clientVars
    BY <2>6 DEF BufferedSend
  <2>7. ASSUME NEW t \in Topics, Sink(t) PROVE UNCHANGED clientVars
    BY <2>7 DEF Sink, Deliver, CommitOffset, Restart
  <2>8. ASSUME UNCHANGED vars PROVE UNCHANGED clientVars
    BY <2>8 DEF vars
  <2> QED  BY <2>1, <2>2, <2>3, <2>4, <2>5, <2>6, <2>7, <2>8 DEF Next, Client
<1>8. /\ position' \in [Topics -> Nat] /\ committed' \in [Topics -> Nat]
      /\ \A t \in Topics : committed'[t] <= position'[t] /\ position'[t] <= Len(log'[t])
      /\ \A k \in DOMAIN raw' : raw'[k] \in DOMAIN reqs'
      /\ restarts' \in Nat
  <2> USE DEF clientVars, sinkVars
  <2>0. /\ position \in [Topics -> Nat] /\ committed \in [Topics -> Nat]
        /\ \A t \in Topics : committed[t] <= position[t] /\ position[t] <= Len(log[t])
        /\ \A k \in DOMAIN raw : raw[k] \in DOMAIN reqs
        /\ restarts \in Nat
    BY DEF TypeOK
  <2>1. \A t \in Topics : Len(log[t]) <= Len(log'[t])
    BY <1>1 DEF Grows
  <2>2. CASE UNCHANGED sinkVars
    BY <1>2, <2>0, <2>1, <2>2
  <2>3. ASSUME NEW t \in Topics, Deliver(t)
        PROVE  /\ position' \in [Topics -> Nat] /\ committed' \in [Topics -> Nat]
               /\ \A u \in Topics : committed'[u] <= position'[u] /\ position'[u] <= Len(log'[u])
               /\ \A k \in DOMAIN raw' : raw'[k] \in DOMAIN reqs'
               /\ restarts' \in Nat
    <3> DEFINE x == log[t][position[t] + 1]
    <3>1. position[t] + 1 \in DOMAIN log[t]
      BY <1>2, <2>0, <2>3 DEF Deliver
    <3>2. x[1] \in DOMAIN reqs
      BY <3>1 DEF TypeOK, InTopic
    <3>3. \A k \in DOMAIN raw' : raw'[k] \in DOMAIN reqs
      <4>1. raw' = raw \/ UpsertRaw(x)
        BY <2>3 DEF Deliver
      <4> HIDE DEF x
      <4> QED  BY <2>0, <3>2, <4>1 DEF UpsertRaw
    <3> HIDE DEF x
    <3>4. log' = log /\ reqs' = reqs /\ committed' = committed /\ restarts' = restarts
          /\ position' = [position EXCEPT ![t] = @ + 1] /\ position[t] < Len(log[t])
      BY <2>3 DEF Deliver
    <3>5. position' \in [Topics -> Nat]
      BY <2>0, <3>4
    <3>6. \A u \in Topics : committed'[u] <= position'[u] /\ position'[u] <= Len(log'[u])
      BY <1>2, <2>0, <3>4
    <3> QED  BY <2>0, <3>3, <3>4, <3>5, <3>6
  <2>4. ASSUME NEW t \in Topics, CommitOffset(t)
        PROVE  /\ position' \in [Topics -> Nat] /\ committed' \in [Topics -> Nat]
               /\ \A u \in Topics : committed'[u] <= position'[u] /\ position'[u] <= Len(log'[u])
               /\ \A k \in DOMAIN raw' : raw'[k] \in DOMAIN reqs'
               /\ restarts' \in Nat
    BY <1>2, <2>0, <2>4 DEF CommitOffset
  <2>5. ASSUME NEW t \in Topics, Restart(t)
        PROVE  /\ position' \in [Topics -> Nat] /\ committed' \in [Topics -> Nat]
               /\ \A u \in Topics : committed'[u] <= position'[u] /\ position'[u] <= Len(log'[u])
               /\ \A k \in DOMAIN raw' : raw'[k] \in DOMAIN reqs'
               /\ restarts' \in Nat
    BY <1>2, <2>0, <2>5 DEF Restart
  <2>6. ASSUME NEW c \in Clients, Client(c) PROVE UNCHANGED sinkVars
    BY <2>6 DEF Client, SendEvent, Succeed, Fail
  <2>7. ASSUME NEW r \in DOMAIN reqs, Serve(r) PROVE UNCHANGED sinkVars
    BY <2>7 DEF Serve, Refuse, Admit, Publish, PublishFails, Accept
  <2>8. ASSUME NEW x \in buffer, BufferedSend(x) PROVE UNCHANGED sinkVars
    BY <2>8 DEF BufferedSend
  <2>9. ASSUME UNCHANGED vars PROVE UNCHANGED sinkVars
    BY <2>9 DEF vars
  <2> QED  BY <2>2, <2>3, <2>4, <2>5, <2>6, <2>7, <2>8, <2>9 DEF Next, Sink
<1> QED  BY <1>3, <1>5, <1>6, <1>7, <1>8 DEF TypeOK, InTopic

\* The pipeline's type invariant: a client waits for a request that exists, no
\* more records are counted or lie in a topic than the event has, and no sink is
\* ahead of its topic or behind what it has committed.
THEOREM PipelineTypeCorrect == Spec => []TypeOK
<1>1. Init => TypeOK
  <2> SUFFICES ASSUME Init PROVE TypeOK
    OBVIOUS
  <2>1. reqs = <<>> /\ reqs \in Seq(RequestType) /\ DOMAIN reqs = {}
    BY DEF Init
  <2>2. log \in [Topics -> Seq(Nat \X Nat)] /\ \A t \in Topics : log[t] = <<>>
    BY DEF Init
  <2>3. \A t \in Topics : InTopic(t) = {} /\ Len(log[t]) = 0
    BY <2>2 DEF InTopic
  <2> QED  BY <2>1, <2>2, <2>3 DEF Init, TypeOK
<1> QED  BY <1>1, TypeStep, PTL DEF Spec

\* A step keeps the publisher's counts true.
LEMMA PublishStep == TypeOK /\ PublishInv /\ [Next]_vars => PublishInv'
<1> SUFFICES ASSUME TypeOK, PublishInv, [Next]_vars PROVE PublishInv'
  OBVIOUS
<1>1. Grows /\ Counts /\ TypeOK'
  BY GrowsLemma, CountsLemma, TypeStep
<1>2. /\ Len(reqs) \in Nat /\ Len(reqs') \in Nat
      /\ DOMAIN reqs = 1..Len(reqs) /\ DOMAIN reqs' = 1..Len(reqs')
      /\ \A t \in Topics :
            /\ InTopic(t) \subseteq InTopic(t)'
            /\ \A x \in InTopic(t)' : x \in InTopic(t) \/ (OnItsWay(x) /\ t = Topic(x))
  BY <1>1, TopicsGrow
<1>3. \A r \in 1..Len(reqs) :
         /\ reqs[r].sent \in Nat /\ reqs[r].event \in Events
         /\ PartCount(reqs[r].event) \in Nat \ {0}
  BY RequestFacts
<1>4. \A r \in 1..Len(reqs) :
         /\ reqs'[r].event = reqs[r].event /\ reqs[r].sent <= reqs'[r].sent
         /\ reqs'[r].sent <= PartCount(reqs[r].event) /\ reqs'[r].sent \in Nat
  <2>1. \A r \in DOMAIN reqs' : reqs'[r] \in RequestType
    BY <1>1, <1>2 DEF Grows
  <2>2. \A r \in DOMAIN reqs' : reqs'[r].sent \in Nat
    BY <2>1 DEF RequestType
  <2>3. \A r \in 1..Len(reqs) : r \in DOMAIN reqs'
    BY <1>1, <1>2 DEF Grows
  <2> QED  BY <1>1, <2>2, <2>3 DEF Grows
<1>5. ASSUME NEW r \in 1..Len(reqs), NEW i \in 1..reqs'[r].sent
      PROVE  \E t \in Topics : t = TopicOf(reqs'[r].event, i) /\ <<r, i>> \in InTopic(t)'
  <2>1. TopicOf(reqs[r].event, i) \in Topics
    BY DEF TopicOf, Topics
  <2>2. CASE i \in 1..reqs[r].sent
    <3>1. <<r, i>> \in InTopic(TopicOf(reqs[r].event, i))
      BY <1>2, <2>2 DEF PublishInv
    <3> QED  BY <1>2, <1>4, <2>1, <3>1
  <2>3. CASE i \notin 1..reqs[r].sent
    <3>1. i = reqs[r].sent + 1 /\ reqs'[r].sent # reqs[r].sent
      <4>1. reqs'[r].sent = reqs[r].sent \/ reqs'[r].sent = reqs[r].sent + 1
        BY <1>1 DEF Counts
      <4>2. reqs[r].sent \in Nat /\ reqs'[r].sent \in Nat
        BY <1>3, <1>4
      <4> QED  BY <2>3, <4>1, <4>2
    <3>2. \E t \in Topics : /\ t = TopicOf(reqs[r].event, reqs[r].sent + 1)
                            /\ <<r, reqs[r].sent + 1>> \in InTopic(t)'
      BY <1>1, <3>1 DEF Counts
    <3> QED  BY <1>4, <3>1, <3>2
  <2> QED  BY <2>2, <2>3
<1>6. ASSUME NEW r \in DOMAIN reqs', NEW i \in 1..reqs'[r].sent
      PROVE  \E t \in Topics : t = TopicOf(reqs'[r].event, i) /\ <<r, i>> \in InTopic(t)'
  <2>1. CASE r \in 1..Len(reqs)
    BY <1>5, <2>1
  <2>2. CASE r \in Len(reqs)+1..Len(reqs')
    <3>1. reqs'[r].sent = 0
      BY <1>1, <2>2 DEF Counts
    <3> QED  BY <3>1
  <2> QED  BY <1>2, <2>1, <2>2
<1>7. \A r \in DOMAIN reqs' : reqs'[r].pc = "accepted" => reqs'[r].sent = PartCount(reqs'[r].event)
  <2> SUFFICES ASSUME NEW r \in DOMAIN reqs', reqs'[r].pc = "accepted"
               PROVE  reqs'[r].sent = PartCount(reqs'[r].event)
    OBVIOUS
  <2>1. CASE r \in 1..Len(reqs)
    <3>1. reqs[r].sent = PartCount(reqs[r].event)
      BY <1>1, <1>2, <2>1 DEF Counts, PublishInv
    <3>2. reqs'[r].sent = reqs[r].sent
      BY <1>1, <2>1 DEF Counts
    <3> QED  BY <1>4, <2>1, <3>1, <3>2
  <2>2. CASE r \in Len(reqs)+1..Len(reqs')
    BY <1>1, <2>2 DEF Counts
  <2> QED  BY <1>2, <2>1, <2>2
<1>8. ASSUME NEW x, x[1] \in 1..Len(reqs), x[2] \in Nat, x[2] <= reqs[x[1]].sent + 1
      PROVE  x[2] <= reqs'[x[1]].sent + 1
  BY <1>3, <1>4, <1>8
<1>9. ASSUME NEW x, OnItsWay(x)
      PROVE  x[2] <= reqs'[x[1]].sent + 1
  <2>1. x[1] \in 1..Len(reqs) /\ x[2] \in Nat
    BY <1>2, <1>9 DEF OnItsWay
  <2>2. x[2] <= reqs[x[1]].sent + 1
    BY <1>3, <1>9, <2>1 DEF OnItsWay, PublishInv
  <2> QED  BY <1>8, <2>1, <2>2
<1>10. \A x \in buffer' : x[2] <= reqs'[x[1]].sent + 1
  BY <1>1, <1>9 DEF Grows
<1>11. ASSUME NEW t \in Topics, NEW x \in InTopic(t)'
       PROVE  x[2] <= reqs'[x[1]].sent + 1 /\ t = TopicOf(reqs'[x[1]].event, x[2])
  <2>1. CASE x \in InTopic(t)
    <3>1. x[1] \in 1..Len(reqs) /\ x[2] \in 1..PartCount(reqs[x[1]].event)
      BY <1>2, <2>1 DEF TypeOK
    <3>2. x[2] <= reqs[x[1]].sent + 1 /\ t = TopicOf(reqs[x[1]].event, x[2])
      BY <2>1 DEF PublishInv, Topic
    <3>3. x[2] \in Nat
      BY <1>3, <3>1
    <3> QED  BY <1>4, <1>8, <3>1, <3>2, <3>3
  <2>2. CASE OnItsWay(x) /\ t = Topic(x)
    <3>1. x[1] \in 1..Len(reqs)
      BY <1>2, <2>2 DEF OnItsWay
    <3> QED  BY <1>4, <1>9, <2>2, <3>1 DEF Topic
  <2> QED  BY <1>2, <2>1, <2>2
<1> QED  BY <1>6, <1>7, <1>10, <1>11, Zenon DEF PublishInv, Topic

\* The publisher's counts are always true.
THEOREM PublishInvariant == Spec => []PublishInv
<1>1. Init => PublishInv
  <2> SUFFICES ASSUME Init PROVE PublishInv
    OBVIOUS
  <2>1. DOMAIN reqs = {} /\ buffer = {}
    BY DEF Init
  <2>2. \A t \in Topics : InTopic(t) = {}
    BY DEF Init, InTopic
  <2> QED  BY <2>1, <2>2 DEF PublishInv
<1> QED  BY <1>1, PublishStep, PipelineTypeCorrect, PTL DEF Spec

\* What was answered with 202 has all its records in the topics, for any number
\* of clients, events and metrics and any pattern of failing sends.
THEOREM PublishTheorem == Spec => []AcceptedIsPublished
<1>1. PublishInv => AcceptedIsPublished
  BY DEF PublishInv, AcceptedIsPublished
<1> QED  BY <1>1, PublishInvariant, PTL

\* A request keeps its key and its time stamp.
LEMMA KeyStable ==
    ASSUME TypeOK, Grows, NEW r \in DOMAIN reqs
    PROVE  Key(r)' = Key(r) /\ EventTime(r)' = EventTime(r)
<1>1. r \in 1..Len(reqs)
  BY RequestFacts
<1>2. /\ reqs'[r].client = reqs[r].client /\ reqs'[r].event = reqs[r].event
      /\ reqs'[r].sequence = reqs[r].sequence
  BY <1>1 DEF Grows
<1> QED  BY <1>2 DEF Key, EventTime

\* A step leaves the points alone, or a sink writes one.
LEMMA PointsChange ==
    ASSUME [Next]_vars
    PROVE  \/ points' = points
           \/ \E t \in Topics \ {"raw"} :
                 Deliver(t) /\ points' \subseteq points \cup {Row(log[t][position[t] + 1])}
<1> USE DEF clientVars, sinkVars
<1>1. ASSUME NEW c \in Clients, Client(c) PROVE points' = points
  BY <1>1 DEF Client, SendEvent, Succeed, Fail
<1>2. ASSUME NEW r \in DOMAIN reqs, Serve(r) PROVE points' = points
  BY <1>2 DEF Serve, Refuse, Admit, Publish, PublishFails, Accept
<1>3. ASSUME NEW x \in buffer, BufferedSend(x) PROVE points' = points
  BY <1>3 DEF BufferedSend
<1>4. ASSUME NEW t \in Topics, CommitOffset(t) \/ Restart(t) PROVE points' = points
  BY <1>4 DEF CommitOffset, Restart
<1>5. ASSUME NEW t \in Topics, Deliver(t)
      PROVE  \/ points' = points
             \/ t # "raw" /\ points' \subseteq points \cup {Row(log[t][position[t] + 1])}
  BY <1>5 DEF Deliver, UpsertPoint, UpsertFrame
<1> QED  BY <1>1, <1>2, <1>3, <1>4, <1>5 DEF Next, Sink, vars

\* A step keeps the points what their records say.
LEMMA PointStep == TypeOK /\ PointInv /\ [Next]_vars => PointInv'
<1> SUFFICES ASSUME TypeOK, PointInv, [Next]_vars PROVE PointInv'
  OBVIOUS
<1>1. Grows
  BY GrowsLemma
<1>2. \A t \in Topics : InTopic(t) \subseteq InTopic(t)' /\ DOMAIN log[t] = 1..Len(log[t])
                        /\ Len(log[t]) \in Nat
  BY <1>1, TopicsGrow
<1> SUFFICES ASSUME NEW p \in points'
             PROVE  /\ \E t \in Topics \ {"raw"} : p.record \in InTopic(t)'
                    /\ p = [time |-> EventTime(p.record[1])', record |-> p.record,
                            key |-> Key(p.record[1])']
  BY DEF PointInv, Row
<1>3. ASSUME NEW t \in Topics \ {"raw"}, p.record \in InTopic(t),
             p = [time |-> EventTime(p.record[1]), record |-> p.record, key |-> Key(p.record[1])]
      PROVE  /\ \E u \in Topics \ {"raw"} : p.record \in InTopic(u)'
             /\ p = [time |-> EventTime(p.record[1])', record |-> p.record,
                     key |-> Key(p.record[1])']
  <2>1. p.record[1] \in DOMAIN reqs
    BY <1>3 DEF TypeOK
  <2>2. Key(p.record[1])' = Key(p.record[1]) /\ EventTime(p.record[1])' = EventTime(p.record[1])
    BY <1>1, <2>1, KeyStable
  <2>3. p.record \in InTopic(t)'
    BY <1>2, <1>3
  <2> QED  BY <1>3, <2>2, <2>3
<1>4. CASE p \in points
  BY <1>3, <1>4 DEF PointInv, Row
<1>5. CASE p \notin points
  <2>1. PICK t \in Topics \ {"raw"} :
           Deliver(t) /\ points' \subseteq points \cup {Row(log[t][position[t] + 1])}
    BY <1>5, PointsChange
  <2> DEFINE x == log[t][position[t] + 1]
  <2>2. position[t] \in Nat /\ position[t] < Len(log[t])
    BY <2>1 DEF TypeOK, Deliver
  <2>3. x \in InTopic(t)
    BY <1>2, <2>2 DEF InTopic
  <2>4. p = [time |-> EventTime(x[1]), record |-> x, key |-> Key(x[1])]
    BY <1>5, <2>1 DEF Row
  <2> HIDE DEF x
  <2>5. p.record = x
    BY <2>4
  <2> QED  BY <1>3, <2>3, <2>4, <2>5
<1> QED  BY <1>4, <1>5

\* The points are always what their records say.
THEOREM PointInvariant == Spec => []PointInv
<1>1. Init => PointInv
  BY DEF Init, PointInv
<1> QED  BY <1>1, PointStep, PipelineTypeCorrect, PTL DEF Spec

\* A redelivery changes nothing, for any number of restarts of the sinks.
THEOREM RedeliveryTheorem == Spec => []RedeliveryIsIdempotent
<1>1. PointInv => RedeliveryIsIdempotent
  BY DEF PointInv, RedeliveryIsIdempotent
<1> QED  BY <1>1, PointInvariant, PTL

\* The key of the n-th record of the raw topic.
KeyAt(n) == Key(log["raw"][n][1])

\* A step leaves the raw table alone and its sink where it is or further back,
\* or the sink writes its next record.
LEMMA RawChange ==
    ASSUME TypeOK, [Next]_vars
    PROVE  \/ raw' = raw /\ position'["raw"] <= position["raw"] /\ position'["raw"] \in Nat
           \/ /\ position["raw"] < Len(log["raw"]) /\ position'["raw"] = position["raw"] + 1
              /\ UpsertRaw(log["raw"][position["raw"] + 1]) /\ UNCHANGED <<log, reqs>>
<1> USE DEF clientVars, sinkVars
<1>0. /\ position \in [Topics -> Nat] /\ committed \in [Topics -> Nat] /\ "raw" \in Topics
      /\ committed["raw"] <= position["raw"]
  BY DEF TypeOK, Topics
<1>1. CASE raw' = raw /\ position' = position
  BY <1>0, <1>1
<1>2. ASSUME NEW c \in Clients, Client(c) PROVE raw' = raw /\ position' = position
  BY <1>2 DEF Client, SendEvent, Succeed, Fail
<1>3. ASSUME NEW r \in DOMAIN reqs, Serve(r) PROVE raw' = raw /\ position' = position
  BY <1>3 DEF Serve, Refuse, Admit, Publish, PublishFails, Accept
<1>4. ASSUME NEW x \in buffer, BufferedSend(x) PROVE raw' = raw /\ position' = position
  BY <1>4 DEF BufferedSend
<1>5. ASSUME NEW t \in Topics, CommitOffset(t) PROVE raw' = raw /\ position' = position
  BY <1>5 DEF CommitOffset
<1>6. ASSUME NEW t \in Topics, Restart(t)
      PROVE  raw' = raw /\ position'["raw"] <= position["raw"] /\ position'["raw"] \in Nat
  BY <1>0, <1>6 DEF Restart
<1>7. ASSUME NEW t \in Topics, Deliver(t), t # "raw"
      PROVE  raw' = raw /\ position'["raw"] <= position["raw"] /\ position'["raw"] \in Nat
  BY <1>0, <1>7 DEF Deliver
<1>8. ASSUME Deliver("raw")
      PROVE  /\ position["raw"] < Len(log["raw"]) /\ position'["raw"] = position["raw"] + 1
             /\ UpsertRaw(log["raw"][position["raw"] + 1]) /\ UNCHANGED <<log, reqs>>
  BY <1>0, <1>8 DEF Deliver
<1>9. CASE UNCHANGED vars
  BY <1>1, <1>9 DEF vars
<1> QED  BY <1>1, <1>2, <1>3, <1>4, <1>5, <1>6, <1>7, <1>8, <1>9 DEF Next, Sink

\* A step keeps the rows of the raw table last written.
LEMMA RawStep == TypeOK /\ RawInv /\ [Next]_vars => RawInv'
<1> SUFFICES ASSUME TypeOK, RawInv, [Next]_vars PROVE RawInv'
  OBVIOUS
<1>1. Grows /\ "raw" \in Topics
  BY GrowsLemma DEF Topics
<1>2. /\ Len(log["raw"]) \in Nat /\ DOMAIN log["raw"] = 1..Len(log["raw"])
      /\ DOMAIN log["raw"] \subseteq DOMAIN log'["raw"]
      /\ position["raw"] \in Nat /\ position["raw"] <= Len(log["raw"])
  BY <1>1, TopicsGrow DEF TypeOK
<1>3. \A n \in 1..Len(log["raw"]) :
         /\ log'["raw"][n] = log["raw"][n] /\ log["raw"][n][1] \in DOMAIN reqs
         /\ KeyAt(n)' = KeyAt(n)
  <2> SUFFICES ASSUME NEW n \in 1..Len(log["raw"])
               PROVE  /\ log'["raw"][n] = log["raw"][n] /\ log["raw"][n][1] \in DOMAIN reqs
                      /\ KeyAt(n)' = KeyAt(n)
    OBVIOUS
  <2>1. log'["raw"][n] = log["raw"][n]
    BY <1>1 DEF Grows
  <2>2. PICK r : r = log["raw"][n][1]
    OBVIOUS
  <2>3. r \in DOMAIN reqs
    BY <1>1, <1>2, <2>2 DEF TypeOK, InTopic
  <2>4. Key(r)' = Key(r)
    BY <1>1, <2>3, KeyStable
  <2> QED  BY <2>1, <2>2, <2>3, <2>4 DEF KeyAt, Key
<1>4. \A k \in DOMAIN raw : raw[k] \in DOMAIN reqs /\ Key(raw[k]) = k
  BY DEF TypeOK, RawInv
<1>5. /\ \A n \in 1..position["raw"] : KeyAt(n) \in DOMAIN raw
      /\ \A k \in DOMAIN raw : \E m \in DOMAIN log["raw"] :
            /\ log["raw"][m][1] = raw[k]
            /\ \A n \in m+1..position["raw"] : KeyAt(n) # k
  BY DEF RawInv, KeyAt
<1> SUFFICES /\ \A n \in 1..position'["raw"] : KeyAt(n)' \in DOMAIN raw'
             /\ \A k \in DOMAIN raw' : \E m \in DOMAIN log'["raw"] :
                   /\ log'["raw"][m][1] = raw'[k] /\ Key(raw[k])' = k
                   /\ \A n \in m+1..position'["raw"] : KeyAt(n)' # k
  BY DEF RawInv, KeyAt
<1>6. CASE raw' = raw /\ position'["raw"] <= position["raw"] /\ position'["raw"] \in Nat
  <2>1. \A n \in 1..position'["raw"] : KeyAt(n)' \in DOMAIN raw'
    BY <1>2, <1>3, <1>5, <1>6
  <2>2. ASSUME NEW k \in DOMAIN raw
        PROVE  \E m \in DOMAIN log'["raw"] :
                  /\ log'["raw"][m][1] = raw[k]
                  /\ \A n \in m+1..position'["raw"] : KeyAt(n)' # k
    <3>1. PICK m \in DOMAIN log["raw"] :
             /\ log["raw"][m][1] = raw[k]
             /\ \A n \in m+1..position["raw"] : KeyAt(n) # k
      BY <1>5
    <3>2. \A n \in m+1..position'["raw"] : n \in m+1..position["raw"] /\ n \in 1..Len(log["raw"])
      BY <1>2, <1>6
    <3> QED  BY <1>2, <1>3, <3>1, <3>2
  <2>3. ASSUME NEW k \in DOMAIN raw PROVE Key(raw[k])' = k
    <3>1. PICK r : r = raw[k]
      OBVIOUS
    <3>2. Key(r)' = Key(r)
      BY <1>1, <1>4, <3>1, KeyStable
    <3> QED  BY <1>4, <1>6, <3>1, <3>2 DEF Key
  <2> QED  BY <1>6, <2>1, <2>2, <2>3
<1>7. CASE /\ position["raw"] < Len(log["raw"]) /\ position'["raw"] = position["raw"] + 1
           /\ UpsertRaw(log["raw"][position["raw"] + 1]) /\ UNCHANGED <<log, reqs>>
  <2> DEFINE h == position["raw"] + 1
  <2>1. h \in DOMAIN log["raw"] /\ h \in Nat /\ position'["raw"] = h
    BY <1>2, <1>7
  <2>2. raw' = [k \in DOMAIN raw \cup {KeyAt(h)} |->
                  IF k = KeyAt(h) THEN log["raw"][h][1] ELSE raw[k]]
    BY <1>7 DEF UpsertRaw, KeyAt
  <2>3. /\ \A n \in 1..h : n \in 1..position["raw"] \/ n = h
        /\ \A m \in Nat : \A n \in m+1..h : n \in m+1..position["raw"] \/ n = h
        /\ \A n \in h+1..h : FALSE
    BY <1>2
  <2> HIDE DEF h
  <2>4. \A n \in 1..h : KeyAt(n) \in DOMAIN raw'
    BY <1>5, <2>2, <2>3
  <2>5. ASSUME NEW k \in DOMAIN raw'
        PROVE  \E m \in DOMAIN log["raw"] :
                  /\ log["raw"][m][1] = raw'[k] /\ Key(raw'[k]) = k
                  /\ \A n \in m+1..h : KeyAt(n) # k
    <3>1. CASE k = KeyAt(h)
      <4>1. raw'[k] = log["raw"][h][1]
        BY <2>2, <3>1
      <4>2. Key(raw'[k]) = k
        BY <3>1, <4>1 DEF KeyAt
      <4> QED  BY <2>1, <2>3, <4>1, <4>2
    <3>2. CASE k # KeyAt(h)
      <4>1. k \in DOMAIN raw /\ raw'[k] = raw[k]
        BY <2>2, <3>2
      <4>2. PICK m \in DOMAIN log["raw"] :
               /\ log["raw"][m][1] = raw[k]
               /\ \A n \in m+1..position["raw"] : KeyAt(n) # k
        BY <1>5, <4>1
      <4>3. m \in Nat
        BY <1>2
      <4>4. \A n \in m+1..h : KeyAt(n) # k
        BY <2>3, <3>2, <4>2, <4>3
      <4> QED  BY <1>4, <4>1, <4>2, <4>4
    <3> QED  BY <3>1, <3>2
  <2>6. log' = log /\ reqs' = reqs
    BY <1>7
  <2> QED  BY <2>1, <2>4, <2>5, <2>6 DEF KeyAt, Key
<1> QED  BY <1>6, <1>7, RawChange

\* The rows of the raw table are always records that no record written since
\* replaces.
THEOREM RawInvariant == Spec => []RawInv
<1>1. Init => RawInv
  <2> SUFFICES ASSUME Init PROVE RawInv
    OBVIOUS
  <2>1. position["raw"] = 0 /\ DOMAIN raw = {}
    BY DEF Init, Topics
  <2> QED  BY <2>1 DEF RawInv
<1> QED  BY <1>1, RawStep, PipelineTypeCorrect, PTL DEF Spec

\* A raw sink that has caught up shows the last record published under each key,
\* for any number of requests, retries, late records and restarts.
THEOREM RawTheorem == Spec => []RawIsLastPublished
<1>1. TypeOK /\ RawInv => RawIsLastPublished
  <2> SUFFICES ASSUME TypeOK, RawInv, position["raw"] = Len(log["raw"]),
                      NEW n \in DOMAIN log["raw"]
               PROVE  /\ KeyAt(n) \in DOMAIN raw
                      /\ (\A m \in n+1..Len(log["raw"]) : KeyAt(m) # KeyAt(n)) =>
                            raw[KeyAt(n)] = log["raw"][n][1]
    BY DEF RawIsLastPublished, KeyAt
  <2>1. Len(log["raw"]) \in Nat /\ DOMAIN log["raw"] = 1..Len(log["raw"])
    <3>1. log["raw"] \in Seq(Nat \X Nat)
      BY DEF TypeOK, Topics
    <3> QED  BY <3>1
  <2>2. KeyAt(n) \in DOMAIN raw
    BY <2>1 DEF RawInv, KeyAt
  <2>3. ASSUME \A m \in n+1..Len(log["raw"]) : KeyAt(m) # KeyAt(n)
        PROVE  raw[KeyAt(n)] = log["raw"][n][1]
    <3>1. PICK m \in DOMAIN log["raw"] :
             /\ log["raw"][m][1] = raw[KeyAt(n)] /\ Key(raw[KeyAt(n)]) = KeyAt(n)
             /\ \A i \in m+1..position["raw"] : KeyAt(i) # KeyAt(n)
      BY <2>2 DEF RawInv, KeyAt
    <3>2. KeyAt(m) = KeyAt(n)
      BY <3>1 DEF KeyAt
    <3>3. m \notin n+1..Len(log["raw"]) /\ n \notin m+1..Len(log["raw"])
      BY <2>3, <3>1, <3>2
    <3>4. m = n
      BY <2>1, <3>3
    <3> QED  BY <3>1, <3>4
  <2> QED  BY <2>2, <2>3
<1> QED  BY <1>1, RawInvariant, PipelineTypeCorrect, PTL

\* No point and no frame is without its raw event, whatever fails half-way or
\* arrives late.
THEOREM PointsTheorem == Spec => []PointsHaveRaw
<1>1. TypeOK /\ PublishInv /\ PointInv /\ RawInv => PointsHaveRaw
  <2> SUFFICES ASSUME TypeOK, PublishInv, PointInv, RawInv, NEW p \in points
               PROVE  \E n \in DOMAIN log["raw"] :
                         /\ log["raw"][n][1] = p.record[1]
                         /\ n <= position["raw"] => p.key \in DOMAIN raw
    BY DEF PointsHaveRaw
  <2>1. PICK t \in Topics \ {"raw"} : p.record \in InTopic(t)
    BY DEF PointInv
  <2> DEFINE r == p.record[1]
             i == p.record[2]
  <2>2. r \in DOMAIN reqs /\ i \in 1..PartCount(reqs[r].event)
    BY <2>1 DEF TypeOK
  <2>3. i <= reqs[r].sent + 1 /\ t = TopicOf(reqs[r].event, i)
    BY <2>1 DEF PublishInv, Topic
  <2>4. reqs[r].sent \in Nat /\ PartCount(reqs[r].event) \in Nat
    BY <2>2, RequestFacts
  <2>5. i # 1
    BY <2>3 DEF TopicOf
  <2>6. 1 \in 1..reqs[r].sent
    BY <2>2, <2>3, <2>4, <2>5
  <2>7. <<r, 1>> \in InTopic("raw")
    BY <2>2, <2>6 DEF PublishInv, TopicOf
  <2>8. PICK n \in DOMAIN log["raw"] : log["raw"][n] = <<r, 1>>
    BY <2>7 DEF InTopic
  <2>9. log["raw"][n][1] = r /\ p.key = Key(r)
    BY <2>8 DEF PointInv, Row
  <2> HIDE DEF r
  <2>10. n <= position["raw"] => n \in 1..position["raw"]
    <3>1. log["raw"] \in Seq(Nat \X Nat) /\ position["raw"] \in Nat
      BY DEF TypeOK, Topics
    <3> QED  BY <3>1
  <2>11. n \in 1..position["raw"] => Key(r) \in DOMAIN raw
    BY <2>9 DEF RawInv
  <2> QED  BY <2>9, <2>10, <2>11 DEF r
<1> QED  BY <1>1, PublishInvariant, PointInvariant, RawInvariant, PipelineTypeCorrect, PTL
===============================================================================
