-------------------------- MODULE ControlStoreProofs --------------------------
(***************************************************************************)
(* Proofs about ControlStore: the type invariant, and that a hardware id   *)
(* keeps its device id and is answered with what is stored, for any number *)
(* of requests, processes, hardware ids and seeds, on both back ends.      *)
(***************************************************************************)
EXTENDS ControlStore, FiniteSetTheorems, TLAPS

-----------------------------------------------------------------------------
(* _next_device_id() *)

\* A set of numbers has a greatest one.
HasMax(S) == \E m \in S : \A y \in S : m >= y

\* A finite set of numbers, if not empty, has a maximum: a smallest one without
\* would still have none after a number is taken out of it.
LEMMA FiniteHasMax ==
    ASSUME NEW S \in SUBSET Int, IsFiniteSet(S), S # {}
    PROVE  HasMax(S)
<1> DEFINE Bad == {U \in FiniteSubsetsOf(S) : U # {} /\ ~HasMax(U)}
<1>1. SUFFICES ASSUME ~HasMax(S) PROVE FALSE
      OBVIOUS
<1>2. S \in Bad
      BY <1>1 DEF FiniteSubsetsOf
<1>3. IsWellFoundedOn(StrictSubsetOrdering(S), FiniteSubsetsOf(S))
      BY FS_StrictSubsetOrderingWellFounded
<1>4. PICK U \in Bad : \A V \in Bad : ~(<<V, U>> \in StrictSubsetOrdering(S))
  <2> HIDE DEF Bad
  <2>1. Bad \subseteq FiniteSubsetsOf(S)  BY DEF Bad
  <2>. QED  BY <1>2, <1>3, <2>1, WFMin
<1>5. U \in SUBSET Int /\ U # {} /\ ~HasMax(U) /\ IsFiniteSet(U) /\ U \subseteq S
      BY DEF FiniteSubsetsOf
<1>6. PICK x \in U : TRUE
      BY <1>5
<1>7. CASE U \ {x} = {}
  <2>1. U = {x} /\ x \in Int  BY <1>5, <1>6, <1>7
  <2>2. HasMax(U)  BY <2>1 DEF HasMax
  <2>. QED  BY <2>2, <1>5
<1>8. CASE U \ {x} # {}
  <2>1. IsFiniteSet(U \ {x})  BY <1>5, FS_RemoveElement
  <2>2. U \ {x} \in FiniteSubsetsOf(S)  BY <1>5, <2>1 DEF FiniteSubsetsOf
  <2>3. <<U \ {x}, U>> \in StrictSubsetOrdering(S)
        BY <1>5, <1>6 DEF StrictSubsetOrdering
  <2>4. HasMax(U \ {x})  BY <1>4, <1>8, <2>2, <2>3
  <2>5. PICK m \in U \ {x} : \A y \in U \ {x} : m >= y  BY <2>4 DEF HasMax
  <2>6. m \in Int /\ x \in Int /\ \A y \in U : y \in Int  BY <1>5, <1>6
  <2>7. CASE m >= x
    <3>1. \A y \in U : m >= y  BY <2>5, <2>7
    <3>. QED  BY <3>1, <1>5 DEF HasMax
  <2>8. CASE ~(m >= x)
    <3>1. \A y \in U : x >= y  BY <2>5, <2>6, <2>8
    <3>. QED  BY <3>1, <1>5, <1>6 DEF HasMax
  <2>. QED  BY <2>7, <2>8
<1>. QED  BY <1>7, <1>8

\* The numbers of the device ids that begin with a prefix.
Numbers(h) == {id[3] : id \in {i \in Ids : i[1] = Prefix[h]}}

\* _next_device_id() returns a device id that the table does not hold: a rival or a
\* seed can still take it before the INSERT, which is why the INSERT is retried.
LEMMA NextIdIsNew ==
    ASSUME TypeOK, NEW h \in Hardware
    PROVE  NextId(h) \in DeviceIds /\ NextId(h) \notin Ids
<1> DEFINE D == {i \in Ids : i[1] = Prefix[h]}
           f == [i \in D |-> i[3]]
           N == Numbers(h) \cup {0}
<1>1. Ids \subseteq DeviceIds
      BY DEF TypeOK, Ids, Rows
<1>2. N \in SUBSET Int /\ N # {}
      BY <1>1 DEF Numbers, DeviceIds
<1>3. IsFiniteSet(N)
  <2>1. IsFiniteSet(D)  BY FS_Subset DEF TypeOK
  <2>2. f \in Surjection(D, Numbers(h))  BY DEF Surjection, Numbers
  <2> HIDE DEF D, f
  <2>3. IsFiniteSet(Numbers(h))  BY <2>1, <2>2, FS_Surjection
  <2>. QED  BY <2>3, FS_AddElement
<1>4. \E m \in N : \A y \in N : m >= y
      BY <1>2, <1>3, FiniteHasMax DEF HasMax
<1>5. Max(N) \in N /\ \A y \in N : Max(N) >= y
  <2> HIDE DEF N
  <2>. QED  BY <1>4 DEF Max
<1>6. NextId(h) = <<Prefix[h], "-", Max(N) + 1>>
      BY DEF NextId, Numbers
<1>7. Max(N) \in Int
      BY <1>2, <1>5
<1>8. PICK m \in Int : m = Max(N)
      BY <1>7
<1>9. NextId(h) = <<Prefix[h], "-", m + 1>> /\ m + 1 \in Int
  <2> HIDE DEF N
  <2>. QED  BY <1>6, <1>8
<1>10. NextId(h) \in DeviceIds
  <2> HIDE DEF N
  <2>1. Prefix[h] \in STRING  BY ControlStoreAssumption
  <2>. QED  BY <1>9, <2>1 DEF DeviceIds
<1>11. ASSUME NextId(h) \in Ids PROVE FALSE
  <2>1. NextId(h)[1] = Prefix[h] /\ NextId(h)[3] = m + 1
    <3> HIDE DEF N
    <3>. QED  BY <1>9
  <2>2. m + 1 \in Numbers(h)  BY <1>11, <2>1 DEF Numbers
  <2>3. m >= m + 1  BY <2>2, <1>5, <1>8
  <2>. QED  BY <2>3
<1>. QED  BY <1>10, <1>11

-----------------------------------------------------------------------------
(* The inductive invariant. *)

\* The answer of a request names the device id in the table, and a token that was
\* committed no earlier than the request's own.
Answered(r) ==
    LET h == HardwareOf[r]
    IN  req[r].pc = "done" =>
          /\ devices[h] # NoRow /\ devices[h].device_id = req[r].saved.device_id
          /\ \E i \in IndexOf(h, r), j \in IndexOf(h, req[r].saved.token) : i <= j

\* No two hardware ids share a device id.
OneOwner ==
    \A g, h \in Hardware :
        devices[g] # NoRow /\ devices[h] # NoRow
        /\ devices[g].device_id = devices[h].device_id => g = h

\* A hardware id that a request has provisioned is on the allowlist.
Allowed ==
    \A h \in Hardware :
        (\E i \in 1..Len(log[h]) : log[h][i] \in Requests) => h \in allowlist

StoreInv == (\A r \in Requests : Answered(r)) /\ OneOwner /\ Allowed

Inv == TypeOK /\ LockInv /\ SeedInv /\ RequestInv /\ LogInv /\ StoreInv

\* No start has written the row of a hardware id.
Unseeded(h) == devices[h] # NoRow => \A p \in Pods : devices[h].device_id \notin seeded[p]

\* No start has inserted a row with this hardware id or this device id.
NewToSeeds(h, id) == \A p \in Pods : \A d \in seeded[p] \ Ids : SeedHardware[d] # h /\ d # id

\* What both properties say follows from the invariant.
LEMMA InvImplies == Inv => IdentityIsStable /\ ToldIsStored
<1> SUFFICES ASSUME Inv PROVE IdentityIsStable /\ ToldIsStored
    OBVIOUS
<1>1. IdentityIsStable
      BY DEF Inv, StoreInv, Answered, OneOwner, Allowed, IdentityIsStable
<1>2. \A r \in Requests : req[r].pc = "done" =>
         \E i \in IndexOf(HardwareOf[r], r),
            j \in IndexOf(HardwareOf[r], req[r].saved.token) : i <= j
      BY DEF Inv, StoreInv, Answered
<1>3. ASSUME NEW h \in Hardware, devices[h] # NoRow, devices[h].token \notin Seeds
      PROVE  \E r \in Requests :
                /\ HardwareOf[r] = h /\ devices[h].token = r
                /\ \/ req[r].pc = "done" /\ req[r].saved.token = r
                   \/ req[r].pc = "saved" /\ backend = "sqlite"
                   \/ req[r].pc \in {"lost", "unsure"}
  <2>1. PICK r \in Requests : devices[h].token = r
        BY <1>3 DEF Inv, TypeOK, Rows
  <2>2. Remembers(h, r)
        BY DEF Inv, LogInv
  <2>. QED  BY <1>3, <2>1, <2>2 DEF Remembers
<1>. QED  BY <1>1, <1>2, <1>3 DEF ToldIsStored

\* The initial states satisfy the invariant.
LEMMA InitInv == Init => Inv
<1> SUFFICES ASSUME Init PROVE Inv
    OBVIOUS
<1>1. Ids = {}
      BY DEF Init, Ids
<1>2. TypeOK
  <2>1. IsFiniteSet(Ids)  BY <1>1, FS_EmptySet
  <2>2. Idle \in Calls  BY DEF Idle, Calls, Ended
  <2>. QED  BY <2>1, <2>2, ControlStoreAssumption DEF Init, TypeOK
<1>3. \A r \in Requests : req[r].pc = "idle" /\ devices[HardwareOf[r]] = NoRow
      BY ControlStoreAssumption DEF Init, Idle
<1>4. LockInv
      BY <1>3 DEF LockInv, HasWritten, IsWriter, Inserted
<1>5. RequestInv
      BY <1>3 DEF RequestInv, Knows
<1>6. LogInv
      BY DEF Init, LogInv, Remembers
<1>7. StoreInv
      BY <1>3 DEF Init, StoreInv, Answered, OneOwner, Allowed
<1>8. SeedInv
      BY DEF Init, SeedInv
<1>. QED  BY <1>2, <1>4, <1>5, <1>6, <1>7, <1>8 DEF Inv

-----------------------------------------------------------------------------
(* The statements of one request. *)

\* A step of one request that leaves the store alone keeps the invariant if the
\* locks it takes were free and it knows, at its next statement, what it must.
LEMMA RequestStep ==
    ASSUME Inv, NEW r \in Requests, NEW x \in Calls,
           req' = [req EXCEPT ![r] = x], StoreUnchanged,
           IsWriter(r)' => IsWriter(r) \/ WriterFree(Pods),
           HasWritten(r)' => \/ HasWritten(r)
                             \/ /\ Unseeded(HardwareOf[r])
                                /\ \A s \in Requests \ {r} :
                                     HasWritten(s) => HardwareOf[s] # HardwareOf[r],
           Inserted(r)' => \/ Inserted(r) /\ x.row = req[r].row
                           \/ /\ x.row.device_id \notin Ids
                              /\ NewToSeeds(HardwareOf[r], x.row.device_id)
                              /\ \A s \in Requests \ {r} :
                                   Inserted(s) => req[s].row.device_id # x.row.device_id,
           Knows(r)', Answered(r)', \A h \in Hardware : Remembers(h, r)'
    PROVE  Inv'
<1> USE DEF StoreUnchanged, startVars
<1>1. req'[r] = x /\ \A s \in Requests \ {r} : req'[s] = req[s]
      BY DEF Inv, TypeOK
<1>2. Ids' = Ids
      BY DEF Ids
<1>3. TypeOK'
      BY <1>2 DEF Inv, TypeOK
<1>4. \A s \in Requests \ {r} :
         /\ IsWriter(s)' = IsWriter(s) /\ HasWritten(s)' = HasWritten(s)
         /\ Inserted(s)' = Inserted(s)
      BY <1>1 DEF IsWriter, HasWritten, Inserted
<1>5. LockInv'
  <2>1. ASSUME NEW s \in Requests, NEW t \in Requests, s # t, backend' = "sqlite",
               IsWriter(s)', IsWriter(t)'
        PROVE  FALSE
    <3>1. \A q \in Requests \ {r} : ~(IsWriter(r)' /\ IsWriter(q)')
          BY <1>4, <2>1 DEF WriterFree, Inv, LockInv
    <3>. QED  BY <1>4, <2>1, <3>1 DEF Inv, LockInv
  <2>2. ASSUME NEW s \in Requests, NEW t \in Requests, s # t, HasWritten(s)', HasWritten(t)'
        PROVE  HardwareOf[s] # HardwareOf[t]
    <3>1. \A q \in Requests \ {r} : HasWritten(r)' /\ HasWritten(q)' => HardwareOf[r] # HardwareOf[q]
          BY <1>4 DEF Inv, LockInv
    <3>. QED  BY <1>4, <2>2, <3>1 DEF Inv, LockInv
  <2>3. ASSUME NEW s \in Requests, NEW t \in Requests, s # t, Inserted(s)', Inserted(t)'
        PROVE  req'[s].row.device_id # req'[t].row.device_id
    <3>1. \A q \in Requests \ {r} :
             Inserted(r)' /\ Inserted(q)' => req'[r].row.device_id # req'[q].row.device_id
          BY <1>1, <1>4 DEF Inv, LockInv
    <3>. QED  BY <1>1, <1>4, <2>3, <3>1 DEF Inv, LockInv
  <2>4. ASSUME NEW s \in Requests, Inserted(s)'
        PROVE  req'[s].row.device_id \notin Ids'
        BY <1>1, <1>2, <1>4, <2>4 DEF Inv, LockInv
  <2>. QED  BY <2>1, <2>2, <2>3, <2>4 DEF LockInv
<1>6. RequestInv'
  <2>1. \A s \in Requests \ {r} : Knows(s) => Knows(s)'
        BY <1>1 DEF Knows, IndexOf
  <2>. QED  BY <2>1 DEF Inv, RequestInv
<1>7. LogInv'
  <2>1. \A h \in Hardware, s \in Requests \ {r} : Remembers(h, s) => Remembers(h, s)'
        BY <1>1 DEF Remembers
  <2>. QED  BY <2>1 DEF Inv, LogInv
<1>8. StoreInv'
  <2>1. \A s \in Requests \ {r} : Answered(s) => Answered(s)'
        BY <1>1 DEF Answered, IndexOf
  <2>2. OneOwner' /\ Allowed'
        BY DEF Inv, StoreInv, OneOwner, Allowed
  <2>. QED  BY <2>1, <2>2 DEF Inv, StoreInv
<1>9. SeedInv'
  <2>1. ASSUME NEW p \in Pods, NEW d \in Seeds, d \in seeded[p]
        PROVE  pod'[p] = "seed_devices" /\ ~SeedWaits(p, d)' /\ ~SeedConflict(d)'
    <3>1. pod[p] = "seed_devices" /\ ~SeedWaits(p, d) /\ ~SeedConflict(d)
          BY <2>1 DEF Inv, SeedInv
    <3>2. ~SeedConflict(d)'
          BY <1>2, <3>1 DEF SeedConflict
    <3>3. ASSUME NEW s \in Requests, devices[HardwareOf[s]] # NoRow,
                 devices[HardwareOf[s]].device_id = d, HasWritten(s)'
          PROVE  FALSE
          BY <1>4, <2>1, <3>1, <3>3 DEF SeedWaits, Unseeded
    <3>4. ASSUME NEW s \in Requests, d \notin Ids, Inserted(s)',
                 HardwareOf[s] = SeedHardware[d] \/ req'[s].row.device_id = d
          PROVE  FALSE
      <4>1. CASE s = r
        <5>1. ~(Inserted(r) /\ x.row = req[r].row)
              BY <1>1, <3>1, <3>4, <4>1 DEF SeedWaits
        <5>2. NewToSeeds(HardwareOf[r], x.row.device_id)
              BY <3>4, <4>1, <5>1
        <5>. QED  BY <1>1, <2>1, <3>4, <4>1, <5>2 DEF NewToSeeds
      <4>2. CASE s # r
            BY <1>1, <1>4, <3>1, <3>4, <4>2 DEF SeedWaits
      <4>. QED  BY <4>1, <4>2
    <3>5. ~SeedWaits(p, d)'
          BY <1>2, <3>1, <3>3, <3>4 DEF SeedWaits
    <3>. QED  BY <3>1, <3>2, <3>5
  <2>. QED  BY <2>1 DEF SeedInv
<1>. QED  BY <1>3, <1>5, <1>6, <1>7, <1>8, <1>9 DEF Inv

\* The same for a request that has not committed and is not answered: its token is
\* not in the table.
LEMMA StatementStep ==
    ASSUME Inv, NEW r \in Requests, NEW x \in Calls,
           req' = [req EXCEPT ![r] = x], StoreUnchanged,
           req[r].pc \notin {"lost", "done", "unsure"}, ~(req[r].pc = "saved" /\ backend = "sqlite"),
           x.pc # "done",
           IsWriter(r)' => IsWriter(r) \/ WriterFree(Pods),
           HasWritten(r)' => \/ HasWritten(r)
                             \/ /\ Unseeded(HardwareOf[r])
                                /\ \A s \in Requests \ {r} :
                                     HasWritten(s) => HardwareOf[s] # HardwareOf[r],
           Inserted(r)' => \/ Inserted(r) /\ x.row = req[r].row
                           \/ /\ x.row.device_id \notin Ids
                              /\ NewToSeeds(HardwareOf[r], x.row.device_id)
                              /\ \A s \in Requests \ {r} :
                                   Inserted(s) => req[s].row.device_id # x.row.device_id,
           Knows(r)'
    PROVE  Inv'
<1>1. req'[r] = x
      BY DEF Inv, TypeOK
<1>2. Answered(r)'
      BY <1>1 DEF Answered
<1>3. \A h \in Hardware : Remembers(h, r)'
      BY DEF StoreUnchanged, Inv, LogInv, Remembers
<1>. QED  BY <1>2, <1>3, RequestStep

\* A request that arrives, or ends without a row.
LEMMA EnterStep ==
    ASSUME Inv, NEW r \in Requests, Arrive(r) \/ CheckAllowed(r) \/ BeginBusy(r)
    PROVE  Inv'
<1> USE DEF Inv, TypeOK
<1>1. PICK x \in Calls :
         /\ req' = [req EXCEPT ![r] = x]
         /\ x.pc \in {"check", "begin", "refused", "error"} \/ (x.pc = "lookup" /\ backend = "postgres")
  <2>1. CASE Arrive(r)
    <3>1. PICK p \in Pods, pc \in {"check", First} :
             req' = [req EXCEPT ![r] = [@ EXCEPT !.pc = pc, !.pod = p]]
          BY <2>1 DEF Arrive
    <3>2. [req[r] EXCEPT !.pc = pc, !.pod = p] \in Calls
          BY DEF Calls, First
    <3>. QED  BY <3>1, <3>2 DEF First, Calls
  <2>2. CASE CheckAllowed(r)
    <3>1. [req[r] EXCEPT !.pc = First] \in Calls /\ Over(r, "refused", NoRow) \in Calls
          BY DEF Calls, First, Over, Idle, Ended
    <3>. QED  BY <2>2, <3>1 DEF CheckAllowed, Goto, End, First, Calls, Over, Idle
  <2>3. CASE BeginBusy(r)
    <3>1. Over(r, "error", NoRow) \in Calls
          BY DEF Calls, Over, Idle, Ended
    <3>. QED  BY <2>3, <3>1 DEF BeginBusy, End, Over, Idle
  <2>. QED  BY <2>1, <2>2, <2>3
<1>2. req[r].pc \in {"idle", "check", "begin"} /\ StoreUnchanged
      BY DEF Arrive, CheckAllowed, BeginBusy
<1>3. req'[r] = x
      BY <1>1
<1>4. ~HasWritten(r)' /\ ~Inserted(r)' /\ Knows(r)'
      BY <1>1, <1>2, <1>3 DEF HasWritten, Inserted, Knows, StoreUnchanged
<1>5. IsWriter(r)' => WriterFree(Pods)
      BY <1>1, <1>3 DEF IsWriter, WriterFree
<1>. QED
  <2> HIDE DEF Inv, TypeOK
  <2>. QED  BY <1>1, <1>2, <1>4, <1>5, StatementStep

\* BEGIN IMMEDIATE, the SELECT and the number: nothing is written.
LEMMA LookupStep ==
    ASSUME Inv, NEW r \in Requests, Begin(r) \/ Lookup(r) \/ NextDeviceId(r)
    PROVE  Inv'
<1>0. HardwareOf[r] \in Hardware
      BY ControlStoreAssumption
<1>1. CASE Begin(r)
  <2> DEFINE x == [req[r] EXCEPT !.pc = "lookup"]
  <2>1. x \in Calls /\ req' = [req EXCEPT ![r] = x] /\ req'[r] = x
        BY <1>1 DEF Inv, TypeOK, Calls, Begin, Goto
  <2>2. ~HasWritten(r)' /\ ~Inserted(r)' /\ Knows(r)' /\ StoreUnchanged /\ WriterFree(Pods)
        BY <1>1, <2>1 DEF HasWritten, Inserted, Knows, Begin, StoreUnchanged
  <2>3. req[r].pc = "begin" /\ x.pc # "done"
        BY <1>1, <2>1 DEF Begin, Calls
  <2>. HIDE DEF x
  <2>. QED  BY <2>1, <2>2, <2>3, StatementStep
<1>2. CASE NextDeviceId(r)
  <2> DEFINE x == [req[r] EXCEPT !.pc = "insert", !.id = NextId(HardwareOf[r])]
  <2>1. NextId(HardwareOf[r]) \in DeviceIds
        BY <1>0, NextIdIsNew DEF Inv
  <2>2. x \in Calls /\ req' = [req EXCEPT ![r] = x] /\ req'[r] = x
        BY <1>2, <2>1 DEF Inv, TypeOK, Calls, NextDeviceId
  <2>3. /\ req[r].pc = "next_id" /\ x.pc = "insert" /\ x.id = NextId(HardwareOf[r])
        /\ StoreUnchanged
        BY <1>2, <2>2 DEF Inv, TypeOK, Calls, NextDeviceId
  <2>. HIDE DEF x
  <2>4. ~HasWritten(r)' /\ ~Inserted(r)' /\ Knows(r)' /\ IsWriter(r)
        BY <2>1, <2>2, <2>3 DEF HasWritten, Inserted, Knows, IsWriter, StoreUnchanged
  <2>. QED  BY <2>2, <2>3, <2>4, StatementStep
<1>3. CASE Lookup(r)
  <2> DEFINE row == devices[HardwareOf[r]]
             x == IF row = NoRow THEN [req[r] EXCEPT !.pc = "next_id"]
                  ELSE [req[r] EXCEPT !.pc = "update", !.id = row.device_id]
  <2>1. row \in Rows \cup {NoRow}
        BY <1>0 DEF Inv, TypeOK
  <2>2. x \in Calls /\ req' = [req EXCEPT ![r] = x] /\ req'[r] = x
        BY <1>3, <2>1 DEF Inv, TypeOK, Calls, Lookup, Rows
  <2>3. /\ req[r].pc = "lookup" /\ StoreUnchanged /\ ~RowLocked(r, HardwareOf[r])
        /\ row = NoRow => x.pc = "next_id"
        /\ row # NoRow => x.pc = "update" /\ x.id = row.device_id
        BY <1>3, <2>2 DEF Inv, TypeOK, Calls, Lookup
  <2>. HIDE DEF x
  <2>4. ~Inserted(r)' /\ Knows(r)' /\ IsWriter(r) /\ x.pc # "done"
        BY <2>2, <2>3 DEF HasWritten, Inserted, Knows, IsWriter, StoreUnchanged
  <2>5. HasWritten(r)' => /\ Unseeded(HardwareOf[r])
                          /\ \A s \in Requests \ {r} : HasWritten(s) => HardwareOf[s] # HardwareOf[r]
        BY <2>2, <2>3 DEF HasWritten, RowLocked, Unseeded, StoreUnchanged
  <2>. QED  BY <2>2, <2>3, <2>4, <2>5, StatementStep
<1>. QED  BY <1>1, <1>2, <1>3

\* The INSERT: it waits for a rival's row with the same key, is retried when there
\* is a row, and takes a new id for a hardware id that nobody else has written.
LEMMA InsertStep ==
    ASSUME Inv, NEW r \in Requests, InsertDevice(r)
    PROVE  Inv'
<1> DEFINE h == HardwareOf[r]
<1>0. h \in Hardware /\ devices[h] \in Rows \cup {NoRow} /\ req[r] \in Calls
      BY ControlStoreAssumption DEF Inv, TypeOK
<1>1. req[r].pc = "insert" /\ StoreUnchanged /\ ~Pending(r, h, req[r].id) /\ IsWriter(r)
      BY DEF InsertDevice, IsWriter
<1>2. req[r].id \in DeviceIds
      BY <1>1 DEF Inv, RequestInv, Knows
<1>3. CASE Conflict(r) /\ Retry(r)
  <2>1. PICK x \in Calls :
           req' = [req EXCEPT ![r] = x] /\ x.pc \in {"error", "begin", "lookup"}
    <3>1. Over(r, "error", NoRow) \in Calls /\ Over(r, "error", NoRow).pc = "error"
          BY DEF Calls, Over, Idle, Ended
    <3>0. PICK k \in Nat : k = req[r].attempt + 1
      <4>1. req[r].attempt \in Nat  BY <1>0 DEF Calls
      <4>. QED  BY <4>1
    <3> DEFINE y == [req[r] EXCEPT !.pc = First, !.attempt = k]
    <3>2. y \in Calls /\ y.pc \in {"begin", "lookup"}
          BY <1>0 DEF Calls, First
    <3>3. req' = [req EXCEPT ![r] = Over(r, "error", NoRow)] \/ req' = [req EXCEPT ![r] = y]
          BY <1>3, <3>0 DEF Retry, End, Inv, TypeOK
    <3>. HIDE DEF y
    <3>. QED  BY <3>1, <3>2, <3>3
  <2>2. req'[r] = x /\ x.pc # "done"
        BY <2>1 DEF Inv, TypeOK
  <2>3. ~HasWritten(r)' /\ ~Inserted(r)' /\ Knows(r)'
        BY <1>1, <2>1, <2>2 DEF HasWritten, Inserted, Knows, StoreUnchanged
  <2>. QED  BY <1>1, <2>1, <2>2, <2>3, StatementStep
<1>4. CASE ~Conflict(r) /\ req' = [req EXCEPT ![r].pc = "allow", ![r].row = Row(req[r].id, r)]
  <2> DEFINE x == [req[r] EXCEPT !.pc = "allow", !.row = Row(req[r].id, r)]
  <2>1. Row(req[r].id, r) \in Rows
        BY <1>2 DEF Row, Rows
  <2>2. x \in Calls /\ req' = [req EXCEPT ![r] = x] /\ req'[r] = x
        BY <1>0, <1>4, <2>1 DEF Inv, TypeOK, Calls
  <2>3. x.pc = "allow" /\ x.row = Row(req[r].id, r) /\ x.row # NoRow
        BY <1>0, <2>1, ControlStoreAssumption DEF Calls
  <2>. HIDE DEF x
  <2>4. devices[h] = NoRow /\ req[r].id \notin Ids
        BY <1>4 DEF Conflict
  <2>5. x.row.device_id = req[r].id /\ x.row.token = r
        BY <2>3 DEF Row
  <2>6. \A s \in Requests \ {r} : HasWritten(s) => HardwareOf[s] # h
    <3>1. SUFFICES ASSUME NEW s \in Requests \ {r}, HasWritten(s), HardwareOf[s] = h PROVE FALSE
          OBVIOUS
    <3>2. Knows(s)  BY DEF Inv, RequestInv
    <3>3. req[s].row # NoRow
          BY <2>4, <3>1, <3>2 DEF HasWritten, Knows, Inv, TypeOK
    <3>. QED  BY <1>1, <2>4, <3>1, <3>3 DEF Pending, Inserted
  <2>7. \A s \in Requests \ {r} : Inserted(s) => req[s].row.device_id # req[r].id
        BY <1>1 DEF Pending, Inserted
  <2>8. Knows(r)'
        BY <1>1, <2>2, <2>3, <2>4, <2>5 DEF Knows, StoreUnchanged
  <2>9. Unseeded(h) /\ NewToSeeds(h, req[r].id)
        BY <1>1, <2>4 DEF Pending, Unseeded, NewToSeeds
  <2>. QED  BY <1>1, <2>2, <2>3, <2>4, <2>5, <2>6, <2>7, <2>8, <2>9, StatementStep
<1>. QED  BY <1>3, <1>4 DEF InsertDevice

\* The UPDATE, the allowlist entry, and in PostgreSQL the row read again: the
\* request keeps its locks.
LEMMA WriteStep ==
    ASSUME Inv, NEW r \in Requests,
           UpdateDevice(r) \/ AllowHardware(r) \/ (ReadSaved(r) /\ backend = "postgres")
    PROVE  Inv'
<1> DEFINE h == HardwareOf[r]
<1>0. h \in Hardware /\ devices[h] \in Rows \cup {NoRow} /\ req[r] \in Calls /\ Knows(r)
      BY ControlStoreAssumption DEF Inv, TypeOK, RequestInv
<1>1. CASE UpdateDevice(r)
  <2> DEFINE x == [req[r] EXCEPT !.pc = "allow", !.row = Row(req[r].id, r)]
  <2>1. req[r].pc = "update" /\ StoreUnchanged /\ HasWritten(r) /\ IsWriter(r)
        BY <1>1 DEF UpdateDevice, HasWritten, IsWriter
  <2>2. devices[h] # NoRow /\ req[r].id = devices[h].device_id
        BY <1>0, <2>1 DEF Knows
  <2>3. Row(req[r].id, r) \in Rows
        BY <1>0, <2>2 DEF Row, Rows
  <2>4. x \in Calls /\ req' = [req EXCEPT ![r] = x] /\ req'[r] = x
        BY <1>0, <1>1, <2>3 DEF UpdateDevice, Inv, TypeOK, Calls
  <2>5. x.pc = "allow" /\ x.row = Row(req[r].id, r) /\ x.row # NoRow
        BY <1>0, <2>3, ControlStoreAssumption DEF Calls
  <2>. HIDE DEF x
  <2>6. x.row.device_id = req[r].id /\ x.row.token = r
        BY <2>5 DEF Row
  <2>7. ~Inserted(r)' /\ Knows(r)'
        BY <2>1, <2>2, <2>4, <2>5, <2>6 DEF Knows, Inserted, StoreUnchanged
  <2>. QED  BY <2>1, <2>4, <2>5, <2>7, StatementStep
<1>2. CASE AllowHardware(r)
  <2> DEFINE pc == IF backend = "sqlite" THEN "commit" ELSE "saved"
             x == [req[r] EXCEPT !.pc = pc]
  <2>1. req[r].pc = "allow" /\ StoreUnchanged /\ HasWritten(r) /\ IsWriter(r)
        BY <1>2 DEF AllowHardware, HasWritten, IsWriter
  <2>2. x \in Calls /\ req' = [req EXCEPT ![r] = x] /\ req'[r] = x
        BY <1>0, <1>2 DEF AllowHardware, Goto, Inv, TypeOK, Calls
  <2>3. x.pc = pc /\ x.row = req[r].row
        BY <1>0 DEF Calls
  <2>. HIDE DEF x
  <2>4. Knows(r)'
        BY <1>0, <2>1, <2>2, <2>3 DEF Knows, StoreUnchanged
  <2>5. Inserted(r)' => Inserted(r)
        BY <2>1, <2>2, <2>3 DEF Inserted, StoreUnchanged
  <2>. QED  BY <2>1, <2>2, <2>3, <2>4, <2>5, StatementStep
<1>3. CASE ReadSaved(r) /\ backend = "postgres"
  <2> DEFINE x == [req[r] EXCEPT !.pc = "commit", !.saved = req[r].row]
  <2>1. req[r].pc = "saved" /\ StoreUnchanged /\ HasWritten(r)
        BY <1>3 DEF ReadSaved, HasWritten
  <2>2. x \in Calls /\ req' = [req EXCEPT ![r] = x] /\ req'[r] = x
        BY <1>0, <1>3 DEF ReadSaved, Inv, TypeOK, Calls
  <2>3. x.pc = "commit" /\ x.row = req[r].row /\ x.saved = req[r].row
        BY <1>0 DEF Calls
  <2>. HIDE DEF x
  <2>4. Knows(r)'
        BY <1>0, <1>3, <2>1, <2>2, <2>3 DEF Knows, StoreUnchanged
  <2>5. (Inserted(r)' => Inserted(r)) /\ WriterFree(Pods)
        BY <1>3, <2>1, <2>2, <2>3 DEF Inserted, StoreUnchanged, WriterFree
  <2>. QED  BY <1>3, <2>1, <2>2, <2>3, <2>4, <2>5, StatementStep
<1>. QED  BY <1>1, <1>2, <1>3

\* In SQLite the row is read after the COMMIT, when a rival may have replaced the
\* token: the answer holds a token committed after the request's own.
LEMMA ReadSavedStep ==
    ASSUME Inv, NEW r \in Requests, ReadSaved(r), backend = "sqlite"
    PROVE  Inv'
<1> DEFINE h == HardwareOf[r]
           row == devices[h]
           x == Over(r, "done", row)
<1>0. h \in Hardware /\ row \in Rows \cup {NoRow} /\ req[r] \in Calls /\ Knows(r)
      BY ControlStoreAssumption DEF Inv, TypeOK, RequestInv
<1>1. req[r].pc = "saved" /\ StoreUnchanged
      BY DEF ReadSaved
<1>2. row # NoRow /\ IndexOf(h, r) # {}
      BY <1>0, <1>1 DEF Knows
<1>3. x \in Calls /\ x.pc = "done" /\ x.saved = row
      BY <1>0 DEF Over, Idle, Calls, Ended
<1>4. req' = [req EXCEPT ![r] = x] /\ req'[r] = x
      BY <1>3 DEF ReadSaved, End, Inv, TypeOK
<1>. HIDE DEF x
<1>5. Knows(r)' /\ ~IsWriter(r)' /\ ~HasWritten(r)' /\ ~Inserted(r)'
      BY <1>1, <1>2, <1>3, <1>4 DEF Knows, IsWriter, HasWritten, Inserted
<1>6. Answered(r)'
  <2>1. Len(log[h]) \in Nat /\ Len(log[h]) > 0 /\ row.token = log[h][Len(log[h])]
        BY <1>0, <1>2 DEF Inv, LogInv, TypeOK
  <2>2. PICK i \in IndexOf(h, r) : i \in 1..Len(log[h])
        BY <1>2 DEF IndexOf
  <2>3. Len(log[h]) \in IndexOf(h, row.token) /\ i <= Len(log[h])
        BY <2>1, <2>2 DEF IndexOf
  <2>4. \E k \in IndexOf(h, r), j \in IndexOf(h, row.token) : k <= j
        BY <2>2, <2>3
  <2>5. \A q, t : IndexOf(q, t)' = IndexOf(q, t)
        BY <1>1 DEF IndexOf, StoreUnchanged
  <2>. QED  BY <1>0, <1>1, <1>2, <1>3, <1>4, <2>4, <2>5 DEF Answered, StoreUnchanged
<1>7. \A g \in Hardware : Remembers(g, r)'
      BY <1>1, <1>3, <1>4 DEF Inv, LogInv, Remembers, StoreUnchanged
<1>. QED  BY <1>1, <1>3, <1>4, <1>5, <1>6, <1>7, RequestStep

\* A statement fails: nothing is stored, or, in SQLite after the COMMIT, the caller
\* is not told the token.
LEMMA FailStep ==
    ASSUME Inv, NEW r \in Requests, StatementFails(r)
    PROVE  Inv'
<1> DEFINE late == req[r].pc = "saved" /\ backend = "sqlite"
           x == Over(r, IF late THEN "unsure" ELSE "error", NoRow)
<1>1. InFlight(r) /\ StoreUnchanged /\ req' = [req EXCEPT ![r] = x]
      BY DEF StatementFails, End
<1>2. x \in Calls /\ x.pc = IF late THEN "unsure" ELSE "error"
      BY DEF Over, Idle, Calls, Ended
<1>3. req'[r] = x
      BY <1>1 DEF Inv, TypeOK
<1>. HIDE DEF x
<1>4. Knows(r)' /\ ~IsWriter(r)' /\ ~HasWritten(r)' /\ ~Inserted(r)' /\ Answered(r)'
      BY <1>2, <1>3 DEF Knows, IsWriter, HasWritten, Inserted, Answered
<1>5. \A h \in Hardware : Remembers(h, r)'
      BY <1>1, <1>2, <1>3 DEF Inv, LogInv, Remembers, InFlight, Ended, StoreUnchanged
<1>. QED  BY <1>1, <1>2, <1>4, <1>5, RequestStep

-----------------------------------------------------------------------------
(* The steps that change the tables. *)

\* The tokens of a hardware id are only appended to.
LogGrows ==
    \A h \in Hardware :
        Len(log'[h]) >= Len(log[h]) /\ \A i \in 1..Len(log[h]) : log'[h][i] = log[h][i]

\* A row stays, and keeps its device id.
RowsStay ==
    \A h \in Hardware : devices[h] # NoRow =>
        devices'[h] # NoRow /\ devices'[h].device_id = devices[h].device_id

\* A token appended to a log is its last, and the others stay.
LEMMA AppendFacts ==
    ASSUME NEW T, NEW l \in Seq(T), NEW t \in T
    PROVE  /\ Append(l, t) \in Seq(T) /\ Len(l) \in Nat /\ Len(Append(l, t)) = Len(l) + 1
           /\ Append(l, t)[Len(l) + 1] = t
           /\ \A i \in 1..Len(l) : Append(l, t)[i] = l[i]
OBVIOUS

\* What was appended to a log stays where it was.
LEMMA IndexStays ==
    ASSUME TypeOK, TypeOK', LogGrows, NEW h \in Hardware, NEW t
    PROVE  IndexOf(h, t) \subseteq IndexOf(h, t)'
<1>1. Len(log[h]) \in Nat /\ Len(log'[h]) \in Nat
      BY DEF TypeOK
<1>. QED  BY <1>1 DEF LogGrows, IndexOf

\* An answer stays true while rows stay and logs grow.
LEMMA AnswerStays ==
    ASSUME TypeOK, TypeOK', LogGrows, RowsStay, NEW r \in Requests, Answered(r), req'[r] = req[r]
    PROVE  Answered(r)'
<1> DEFINE h == HardwareOf[r]
<1>1. h \in Hardware
      BY ControlStoreAssumption
<1>2. IndexOf(h, r) \subseteq IndexOf(h, r)'
      BY <1>1, IndexStays
<1>3. IndexOf(h, req[r].saved.token) \subseteq IndexOf(h, req[r].saved.token)'
      BY <1>1, IndexStays
<1>4. SUFFICES ASSUME req[r].pc = "done" PROVE
         /\ devices'[h] # NoRow /\ devices'[h].device_id = req[r].saved.device_id
         /\ \E i \in IndexOf(h, r)', j \in IndexOf(h, req[r].saved.token)' : i <= j
      BY DEF Answered
<1>5. /\ devices[h] # NoRow /\ devices[h].device_id = req[r].saved.device_id
      /\ \E i \in IndexOf(h, r), j \in IndexOf(h, req[r].saved.token) : i <= j
      BY <1>4 DEF Answered
<1>. QED  BY <1>1, <1>2, <1>3, <1>5 DEF RowsStay

\* COMMIT, answered or not: the row of r becomes visible with its allowlist entry.
LEMMA CommitStep ==
    ASSUME Inv, NEW r \in Requests, Commit(r) \/ CommitUnanswered(r)
    PROVE  Inv'
<1> DEFINE h == HardwareOf[r]
           row == req[r].row
<1>0. /\ h \in Hardware /\ devices[h] \in Rows \cup {NoRow} /\ req[r] \in Calls /\ Knows(r)
      /\ \A g \in Hardware : devices[g] \in Rows \cup {NoRow}
      BY ControlStoreAssumption DEF Inv, TypeOK, RequestInv
<1>1. /\ req[r].pc = "commit" /\ HasWritten(r)
      /\ UNCHANGED <<backend, pod, env, listed, seeded, starts>>
      /\ devices' = [devices EXCEPT ![h] = row] /\ allowlist' = allowlist \cup {h}
      /\ log' = [log EXCEPT ![h] = Append(@, r)]
      BY DEF Commit, CommitUnanswered, Stored, HasWritten, startVars
<1>2. /\ row \in Rows /\ row.token = r
      /\ devices[h] # NoRow => row.device_id = devices[h].device_id
      BY <1>0, <1>1 DEF Knows, Calls
<1>3. row # NoRow /\ row.device_id \in DeviceIds
      BY <1>2, ControlStoreAssumption DEF Rows
<1>4. PICK x \in Calls :
         /\ req' = [req EXCEPT ![r] = x]
         /\ \/ backend = "sqlite" /\ x.pc = "saved"
            \/ backend = "postgres" /\ x.pc = "done" /\ x.saved = row
            \/ backend = "postgres" /\ x.pc = "unsure"
  <2>3. CASE CommitUnanswered(r)
    <3> DEFINE y == Over(r, "unsure", NoRow)
    <3>1. y \in Calls /\ y.pc = "unsure"  BY DEF Over, Idle, Calls, Ended
    <3>2. req' = [req EXCEPT ![r] = y] /\ backend = "postgres"
          BY <2>3 DEF CommitUnanswered, End
    <3>. HIDE DEF y
    <3>. QED  BY <3>1, <3>2
  <2>1. CASE Commit(r) /\ backend = "sqlite"
    <3> DEFINE y == [req[r] EXCEPT !.pc = "saved"]
    <3>1. y \in Calls /\ y.pc = "saved"  BY <1>0 DEF Calls
    <3>2. req' = [req EXCEPT ![r] = y]
          BY <2>1 DEF Commit, AfterCommit, Goto, Inv, TypeOK
    <3>. HIDE DEF y
    <3>. QED  BY <2>1, <3>1, <3>2
  <2>2. CASE Commit(r) /\ backend = "postgres"
    <3>1. req[r].saved = row  BY <1>0, <1>1, <2>2 DEF Knows
    <3> DEFINE y == Over(r, "done", row)
    <3>2. y \in Calls /\ y.pc = "done" /\ y.saved = row
          BY <1>2 DEF Over, Idle, Calls, Ended
    <3>3. req' = [req EXCEPT ![r] = y]
          BY <2>2, <3>1 DEF Commit, AfterCommit, End
    <3>. HIDE DEF y
    <3>. QED  BY <2>2, <3>2, <3>3
  <2>. QED  BY <2>1, <2>2, <2>3 DEF Inv, TypeOK
<1>5. req'[r] = x /\ \A s \in Requests \ {r} : req'[s] = req[s]
      BY <1>4 DEF Inv, TypeOK
<1>6. devices'[h] = row /\ \A g \in Hardware \ {h} : devices'[g] = devices[g]
      BY <1>0, <1>1 DEF Inv, TypeOK
<1>7. Ids' = Ids \cup {row.device_id}
  <2>1. ASSUME NEW d \in Ids' PROVE d \in Ids \cup {row.device_id}
    <3>1. PICK g \in Hardware : devices'[g] # NoRow /\ d = devices'[g].device_id
          BY <2>1 DEF Ids
    <3>. QED  BY <1>6, <3>1 DEF Ids
  <2>2. row.device_id \in Ids'
        BY <1>0, <1>3, <1>6 DEF Ids
  <2>3. ASSUME NEW d \in Ids PROVE d \in Ids'
    <3>1. PICK g \in Hardware : devices[g] # NoRow /\ d = devices[g].device_id
          BY <2>3 DEF Ids
    <3>2. devices'[g] # NoRow /\ d = devices'[g].device_id
          BY <1>2, <1>3, <1>6, <3>1
    <3>. QED  BY <3>2 DEF Ids
  <2>. QED  BY <2>1, <2>2, <2>3
<1>8. TypeOK'
  <2>1. IsFiniteSet(Ids')
        BY <1>7, FS_AddElement DEF Inv, TypeOK
  <2>2. log' \in [Hardware -> Seq(Requests \cup Seeds)]
    <3>1. log \in [Hardware -> Seq(Requests \cup Seeds)] /\ r \in Requests \cup Seeds
          BY DEF Inv, TypeOK
    <3>2. Append(log[h], r) \in Seq(Requests \cup Seeds)
          BY <1>0, <3>1
    <3>. QED  BY <1>1, <3>1, <3>2
  <2>3. devices' \in [Hardware -> Rows \cup {NoRow}]
        BY <1>1, <1>2 DEF Inv, TypeOK
  <2>. QED  BY <1>0, <1>1, <1>4, <2>1, <2>2, <2>3 DEF Inv, TypeOK
<1>9. LogGrows /\ log'[h] = Append(log[h], r) /\ \A g \in Hardware \ {h} : log'[g] = log[g]
  <2>1. log'[h] = Append(log[h], r) /\ \A g \in Hardware \ {h} : log'[g] = log[g]
        BY <1>0, <1>1 DEF Inv, TypeOK
  <2>2. \A g \in Hardware : log[g] \in Seq(Requests \cup Seeds)
        BY DEF Inv, TypeOK
  <2>. QED  BY <2>1, <2>2 DEF LogGrows
<1>10. RowsStay
       BY <1>2, <1>3, <1>6 DEF RowsStay
<1>11. \A s \in Requests \ {r} : HasWritten(s) => HardwareOf[s] # h
       BY <1>1 DEF Inv, LockInv
<1>12. ~HasWritten(r)' /\ ~IsWriter(r)' /\ ~Inserted(r)'
       BY <1>1, <1>4, <1>5 DEF HasWritten, IsWriter, Inserted
<1>13. \A s \in Requests \ {r} :
          /\ IsWriter(s)' = IsWriter(s) /\ HasWritten(s)' = HasWritten(s)
          /\ Inserted(s)' => Inserted(s)
       BY <1>1, <1>5, <1>6, <1>11, ControlStoreAssumption DEF IsWriter, HasWritten, Inserted
<1>14. \A s \in Requests \ {r} : Inserted(s) => req[s].row.device_id # row.device_id
  <2>1. CASE devices[h] = NoRow
    <3>1. Inserted(r)  BY <1>1, <1>3, <2>1 DEF Inserted
    <3>. QED  BY <3>1 DEF Inv, LockInv
  <2>2. CASE devices[h] # NoRow
    <3>1. row.device_id \in Ids  BY <1>0, <1>2, <2>2 DEF Ids
    <3>. QED  BY <3>1 DEF Inv, LockInv
  <2>. QED  BY <2>1, <2>2
<1>15. LockInv'
  <2>1. \A s, t \in Requests : s # t =>
           /\ backend' = "sqlite" => ~(IsWriter(s)' /\ IsWriter(t)')
           /\ HasWritten(s)' /\ HasWritten(t)' => HardwareOf[s] # HardwareOf[t]
        BY <1>1, <1>12, <1>13 DEF Inv, LockInv
  <2>2. \A s, t \in Requests : s # t /\ Inserted(s)' /\ Inserted(t)' =>
           req'[s].row.device_id # req'[t].row.device_id
        BY <1>5, <1>12, <1>13 DEF Inv, LockInv
  <2>3. \A s \in Requests : Inserted(s)' => req'[s].row.device_id \notin Ids'
        BY <1>5, <1>7, <1>12, <1>13, <1>14 DEF Inv, LockInv
  <2>. QED  BY <2>1, <2>2, <2>3 DEF LockInv
<1>16. IndexOf(h, r)' # {} /\ Len(log'[h]) \in IndexOf(h, r)' /\ log'[h][Len(log'[h])] = r
       /\ Len(log'[h]) > 0
  <2>1. log[h] \in Seq(Requests \cup Seeds)  BY <1>0 DEF Inv, TypeOK
  <2>2. Len(log'[h]) = Len(log[h]) + 1 /\ Len(log[h]) \in Nat  BY <1>9, <2>1
  <2>3. log'[h][Len(log'[h])] = r  BY <1>9, <2>1, <2>2
  <2>. QED  BY <2>2, <2>3 DEF IndexOf
<1>17. RequestInv'
  <2>1. Knows(r)'
        BY <1>1, <1>3, <1>4, <1>5, <1>6, <1>16 DEF Knows
  <2>2. ASSUME NEW s \in Requests \ {r} PROVE Knows(s)'
    <3> DEFINE g == HardwareOf[s]
    <3>0. g \in Hardware /\ Knows(s)
          BY ControlStoreAssumption DEF Inv, RequestInv
    <3>1. CASE g = h
      <4>1. ~HasWritten(s)  BY <1>11, <3>1
      <4>2. IndexOf(g, s) \subseteq IndexOf(g, s)'
            BY <1>8, <1>9, <3>0, IndexStays DEF Inv
      <4>. QED
           BY <1>1, <1>3, <1>5, <1>6, <3>0, <3>1, <4>1, <4>2 DEF Knows, HasWritten, Inv, TypeOK
    <3>2. CASE g # h
      <4>1. devices'[g] = devices[g] /\ IndexOf(g, s)' = IndexOf(g, s)
            BY <1>6, <1>9, <3>0, <3>2 DEF IndexOf
      <4>. QED  BY <1>1, <1>5, <3>0, <4>1 DEF Knows
    <3>. QED  BY <3>1, <3>2
  <2>. QED  BY <2>1, <2>2 DEF RequestInv
<1>18. LogInv'
  <2>1. ASSUME NEW g \in Hardware, devices'[g] # NoRow
        PROVE  Len(log'[g]) > 0 /\ devices'[g].token = log'[g][Len(log'[g])]
        BY <1>2, <1>6, <1>9, <1>16, <2>1 DEF Inv, LogInv
  <2>2. ASSUME NEW g \in Hardware, NEW s \in Requests PROVE Remembers(g, s)'
    <3>1. Remembers(g, s)  BY DEF Inv, LogInv
    <3>2. CASE g = h
          BY <1>1, <1>2, <1>4, <1>5, <1>6, <3>2 DEF Remembers
    <3>3. CASE g # h /\ s = r
          BY <1>6, <3>1, <3>3 DEF Remembers
    <3>4. CASE g # h /\ s # r
          BY <1>1, <1>5, <1>6, <3>1, <3>4 DEF Remembers
    <3>. QED  BY <3>2, <3>3, <3>4
  <2>. QED  BY <2>1, <2>2 DEF LogInv
<1>19. StoreInv'
  <2>1. ASSUME NEW s \in Requests \ {r} PROVE Answered(s)'
        BY <1>5, <1>8, <1>9, <1>10, AnswerStays DEF Inv, StoreInv
  <2>2. Answered(r)'
    <3>1. CASE x.pc \in {"saved", "unsure"}
          BY <1>5, <3>1 DEF Answered
    <3>2. CASE x.pc = "done"
      <4>1. x.saved = row /\ row.token = r  BY <1>2, <1>4, <3>2
      <4>2. Len(log'[h]) <= Len(log'[h])
            BY <1>0, <1>8 DEF TypeOK
      <4>. QED  BY <1>3, <1>5, <1>6, <1>16, <4>1, <4>2 DEF Answered
    <3>. QED  BY <1>4, <3>1, <3>2
  <2>3. OneOwner'
    <3>1. ASSUME NEW g \in Hardware \ {h}, devices[g] # NoRow, devices[g].device_id = row.device_id
          PROVE  FALSE
      <4>1. CASE devices[h] = NoRow
        <5>1. Inserted(r)  BY <1>1, <1>3, <4>1 DEF Inserted
        <5>2. row.device_id \in Ids  BY <3>1 DEF Ids
        <5>. QED  BY <5>1, <5>2 DEF Inv, LockInv
      <4>2. CASE devices[h] # NoRow
            BY <1>0, <1>2, <3>1, <4>2 DEF Inv, StoreInv, OneOwner
      <4>. QED  BY <4>1, <4>2
    <3>. QED  BY <1>6, <3>1 DEF Inv, StoreInv, OneOwner
  <2>4. Allowed'
        BY <1>1, <1>9 DEF Inv, StoreInv, Allowed
  <2>. QED  BY <2>1, <2>2, <2>3, <2>4 DEF StoreInv
<1>20. SeedInv'
  <2>1. ASSUME NEW p \in Pods, NEW d \in Seeds, d \in seeded[p]
        PROVE  pod'[p] = "seed_devices" /\ ~SeedWaits(p, d)' /\ ~SeedConflict(d)'
    <3>1. pod[p] = "seed_devices" /\ ~SeedWaits(p, d) /\ ~SeedConflict(d)
          BY <2>1 DEF Inv, SeedInv
    <3>2. SeedHardware[d] \in Hardware
          BY ControlStoreAssumption
    <3>3. d \notin Ids => row.device_id # d /\ (devices[h] = NoRow => SeedHardware[d] # h)
      <4>1. CASE devices[h] = NoRow
        <5>1. Inserted(r)  BY <1>1, <1>3, <4>1 DEF Inserted
        <5>. QED  BY <3>1, <5>1 DEF SeedWaits
      <4>2. CASE devices[h] # NoRow
        <5>1. row.device_id \in Ids  BY <1>0, <1>2, <4>2 DEF Ids
        <5>. QED  BY <4>2, <5>1
      <4>. QED  BY <4>1, <4>2
    <3>4. d \in Ids' <=> d \in Ids
          BY <1>7, <3>3
    <3>5. ~SeedConflict(d)'
          BY <1>6, <3>1, <3>2, <3>3, <3>4 DEF SeedConflict
    <3>6. ASSUME NEW s \in Requests, devices'[HardwareOf[s]] # NoRow,
                 devices'[HardwareOf[s]].device_id = d, HasWritten(s)'
          PROVE  FALSE
      <4>1. s # r /\ HasWritten(s) /\ HardwareOf[s] \in Hardware \ {h}
            BY <1>11, <1>12, <1>13, <3>6, ControlStoreAssumption
      <4>. QED  BY <1>6, <3>1, <3>6, <4>1 DEF SeedWaits
    <3>7. ASSUME NEW s \in Requests, d \notin Ids, Inserted(s)',
                 HardwareOf[s] = SeedHardware[d] \/ req'[s].row.device_id = d
          PROVE  FALSE
          BY <1>5, <1>12, <1>13, <3>1, <3>7 DEF SeedWaits
    <3>8. ~SeedWaits(p, d)'
          BY <1>1, <3>1, <3>4, <3>6, <3>7 DEF SeedWaits
    <3>. QED  BY <1>1, <3>1, <3>5, <3>8
  <2>. QED  BY <1>1, <2>1 DEF SeedInv
<1>. QED  BY <1>8, <1>15, <1>17, <1>18, <1>19, <1>20 DEF Inv

\* The seeds of a start: rows keep their device ids, and new ones are made only for
\* hardware ids without a row, under device ids that no row and no transaction has.
LEMMA SeedStep ==
    ASSUME Inv, NEW p \in Pods, SeedDevices(p)
    PROVE  Inv'
<1> DEFINE e == seeded[p]
           New(h) == Seeded(h, e)
<1>0. /\ e \subseteq Seeds /\ Seeds \subseteq DeviceIds /\ Requests \cap Seeds = {}
      /\ NoRow \notin Rows /\ \A h \in Hardware : devices[h] \in Rows \cup {NoRow}
      /\ \A r \in Requests : HardwareOf[r] \in Hardware
      BY ControlStoreAssumption DEF Inv, TypeOK
<1>1. /\ UNCHANGED <<backend, allowlist, env, listed, req, starts>>
      /\ pod' = [pod EXCEPT ![p] = "up"] /\ seeded' = [seeded EXCEPT ![p] = {}]
      BY DEF SeedDevices
<1>2. \A h \in Hardware : devices'[h] = New(h)
      BY DEF SeedDevices
<1>3. ASSUME NEW h \in Hardware, devices[h] # NoRow
      PROVE  /\ New(h) \in Rows /\ New(h).device_id = devices[h].device_id
             /\ New(h).device_id \in e => New(h).token \in Seeds
             /\ New(h).device_id \notin e => New(h) = devices[h]
      BY <1>0, <1>3 DEF Seeded, Row, Rows
<1>4. ASSUME NEW h \in Hardware, devices[h] = NoRow, New(h) # NoRow
      PROVE  /\ New(h) \in Rows /\ New(h).device_id \in e \ Ids
             /\ SeedHardware[New(h).device_id] = h /\ New(h).token \in Seeds
  <2>1. PICK d \in e \ Ids : SeedHardware[d] = h /\ New(h) = Row(d, d)
        BY <1>4 DEF Seeded
  <2>. QED  BY <1>0, <2>1 DEF Row, Rows
<1>5. \A h \in Hardware :
         log'[h] = IF New(h) # NoRow /\ New(h).device_id \in e
                   THEN Append(log[h], New(h).token) ELSE log[h]
      BY DEF SeedDevices
<1>6. RowsStay
      BY <1>0, <1>2, <1>3 DEF RowsStay
<1>. HIDE DEF New, e
<1>7. \A d \in Ids' \ Ids : \E h \in Hardware :
         devices[h] = NoRow /\ New(h) # NoRow /\ New(h).device_id = d
  <2>1. SUFFICES ASSUME NEW d \in Ids' \ Ids PROVE \E h \in Hardware :
           devices[h] = NoRow /\ New(h) # NoRow /\ New(h).device_id = d
        OBVIOUS
  <2>2. PICK h \in Hardware : devices'[h] # NoRow /\ d = devices'[h].device_id
        BY <2>1 DEF Ids
  <2>3. devices[h] = NoRow
        BY <1>2, <1>3, <2>1, <2>2 DEF Ids
  <2>. QED  BY <1>2, <2>2, <2>3
<1>8. TypeOK'
  <2>1. Ids' \subseteq Ids \cup Seeds
        BY <1>0, <1>4, <1>7
  <2>2. IsFiniteSet(Ids \cup Seeds)
        BY FS_Union, ControlStoreAssumption DEF Inv, TypeOK
  <2>3. IsFiniteSet(Ids')
        BY <2>1, <2>2, FS_Subset
  <2>4. \A h \in Hardware : devices'[h] \in Rows \cup {NoRow}
        BY <1>2, <1>3, <1>4
  <2>5. devices' \in [Hardware -> Rows \cup {NoRow}]
        BY <2>4 DEF SeedDevices
  <2>6. \A h \in Hardware : log'[h] \in Seq(Requests \cup Seeds)
    <3>1. SUFFICES ASSUME NEW h \in Hardware PROVE log'[h] \in Seq(Requests \cup Seeds)
          OBVIOUS
    <3>2. log[h] \in Seq(Requests \cup Seeds)  BY DEF Inv, TypeOK
    <3>3. New(h) # NoRow => New(h).token \in Requests \cup Seeds
          BY <1>3, <1>4 DEF Rows
    <3>4. CASE New(h) # NoRow /\ New(h).device_id \in e
      <4>1. log'[h] = Append(log[h], New(h).token)  BY <1>5, <3>4
      <4>. QED  BY <3>2, <3>3, <3>4, <4>1, AppendFacts
    <3>5. CASE ~(New(h) # NoRow /\ New(h).device_id \in e)
      <4>1. log'[h] = log[h]  BY <1>5, <3>5
      <4>. QED  BY <3>2, <4>1
    <3>. QED  BY <3>4, <3>5
  <2>7. log' \in [Hardware -> Seq(Requests \cup Seeds)]
        BY <2>6 DEF SeedDevices
  <2>8. /\ pod' \in [Pods -> {"down", "seed_allowlist", "seed_devices", "up"}]
        /\ seeded' \in [Pods -> SUBSET Seeds]
        BY <1>1 DEF Inv, TypeOK
  <2>. QED  BY <1>1, <2>3, <2>5, <2>7, <2>8 DEF Inv, TypeOK
<1>8a. ASSUME NEW h \in Hardware, New(h) # NoRow, New(h).device_id \in e
       PROVE  /\ Len(log[h]) \in Nat /\ Len(log'[h]) = Len(log[h]) + 1
              /\ log'[h][Len(log[h]) + 1] = New(h).token
              /\ \A i \in 1..Len(log[h]) : log'[h][i] = log[h][i]
  <2>1. log'[h] = Append(log[h], New(h).token)  BY <1>5, <1>8a
  <2>2. New(h).token \in Requests \cup Seeds
        BY <1>3, <1>4, <1>8a DEF Rows
  <2>3. log[h] \in Seq(Requests \cup Seeds)
        BY DEF Inv, TypeOK
  <2>. QED  BY <2>1, <2>2, <2>3, AppendFacts
<1>9. LogGrows
  <2>1. SUFFICES ASSUME NEW h \in Hardware PROVE
           Len(log'[h]) >= Len(log[h]) /\ \A i \in 1..Len(log[h]) : log'[h][i] = log[h][i]
        BY DEF LogGrows
  <2>2. CASE New(h) # NoRow /\ New(h).device_id \in e
    <3>1. Len(log[h]) \in Nat /\ Len(log'[h]) = Len(log[h]) + 1
          BY <1>8a, <2>2
    <3>. QED  BY <1>8a, <2>2, <3>1
  <2>3. CASE ~(New(h) # NoRow /\ New(h).device_id \in e)
    <3>1. log'[h] = log[h]  BY <1>5, <2>3
    <3>2. Len(log[h]) \in Nat  BY DEF Inv, TypeOK
    <3>. QED  BY <3>1, <3>2
  <2>. QED  BY <2>2, <2>3
<1>10. \A r \in Requests :
          /\ IsWriter(r)' = IsWriter(r) /\ HasWritten(r)' = HasWritten(r)
          /\ Inserted(r)' => Inserted(r)
       BY <1>0, <1>1, <1>6 DEF IsWriter, HasWritten, Inserted, RowsStay
<1>11. ASSUME NEW r \in Requests, Inserted(r), NEW h \in Hardware, devices[h] = NoRow, New(h) # NoRow
       PROVE  HardwareOf[r] # h /\ req[r].row.device_id # New(h).device_id
  <2> DEFINE d == New(h).device_id
  <2>1. d \in seeded[p] \ Ids /\ d \in Seeds /\ SeedHardware[d] = h  BY <1>0, <1>4, <1>11 DEF e
  <2>2. ~SeedWaits(p, d)  BY <2>1 DEF Inv, SeedInv
  <2>. QED  BY <1>11, <2>1, <2>2 DEF SeedWaits
<1>12. LockInv'
  <2>1. \A s, t \in Requests : s # t =>
           /\ backend' = "sqlite" => ~(IsWriter(s)' /\ IsWriter(t)')
           /\ HasWritten(s)' /\ HasWritten(t)' => HardwareOf[s] # HardwareOf[t]
           /\ Inserted(s)' /\ Inserted(t)' => req'[s].row.device_id # req'[t].row.device_id
        BY <1>1, <1>10 DEF Inv, LockInv
  <2>2. ASSUME NEW s \in Requests, Inserted(s)' PROVE req'[s].row.device_id \notin Ids'
    <3>1. Inserted(s) /\ req'[s] = req[s]  BY <1>1, <1>10, <2>2
    <3>2. req[s].row.device_id \notin Ids  BY <3>1 DEF Inv, LockInv
    <3>. QED  BY <1>7, <1>11, <3>1, <3>2
  <2>. QED  BY <2>1, <2>2 DEF LockInv
<1>13. RequestInv'
  <2>1. SUFFICES ASSUME NEW r \in Requests PROVE Knows(r)'
        BY DEF RequestInv
  <2> DEFINE h == HardwareOf[r]
  <2>2. h \in Hardware /\ Knows(r)
        BY <1>0 DEF Inv, RequestInv
  <2>3. IndexOf(h, r) \subseteq IndexOf(h, r)'
        BY <1>8, <1>9, <2>2, IndexStays DEF Inv
  <2>4. devices[h] # NoRow => devices'[h] # NoRow /\ devices'[h].device_id = devices[h].device_id
        BY <1>6, <2>2 DEF RowsStay
  <2>5. HasWritten(r) /\ req[r].row # NoRow /\ devices[h] = NoRow => devices'[h] = NoRow
        BY <1>2, <1>11, <2>2 DEF Inserted
  <2>6. req[r].pc \in {"allow", "commit"} \/ (req[r].pc = "saved" /\ backend = "postgres")
          => HasWritten(r)
        BY DEF HasWritten
  <2>. QED  BY <1>1, <2>2, <2>3, <2>4, <2>5, <2>6 DEF Knows
<1>14. LogInv'
  <2>1. ASSUME NEW h \in Hardware, devices'[h] # NoRow
        PROVE  Len(log'[h]) > 0 /\ devices'[h].token = log'[h][Len(log'[h])]
    <3>1. log[h] \in Seq(Requests \cup Seeds)  BY DEF Inv, TypeOK
    <3>2. CASE New(h).device_id \in e
      <4>1. /\ Len(log[h]) \in Nat /\ Len(log'[h]) = Len(log[h]) + 1
            /\ log'[h][Len(log[h]) + 1] = New(h).token
            BY <1>2, <1>8a, <2>1, <3>2
      <4>. QED  BY <1>2, <4>1
    <3>3. CASE New(h).device_id \notin e
      <4>1. devices[h] # NoRow  BY <1>2, <1>4, <2>1, <3>3
      <4>2. devices'[h] = devices[h] /\ log'[h] = log[h]  BY <1>2, <1>3, <1>5, <3>3, <4>1
      <4>. QED  BY <4>1, <4>2 DEF Inv, LogInv
    <3>. QED  BY <3>2, <3>3
  <2>2. ASSUME NEW h \in Hardware, NEW r \in Requests PROVE Remembers(h, r)'
    <3>1. SUFFICES ASSUME devices'[h] # NoRow, devices'[h].token = r PROVE Remembers(h, r)'
          BY DEF Remembers
    <3>2. New(h).token \notin Seeds  BY <1>0, <1>2, <3>1
    <3>3. devices[h] # NoRow  BY <1>2, <1>4, <3>1, <3>2
    <3>4. devices'[h] = devices[h]  BY <1>2, <1>3, <3>2, <3>3
    <3>5. Remembers(h, r)  BY DEF Inv, LogInv
    <3>. QED  BY <1>1, <3>4, <3>5 DEF Remembers
  <2>. QED  BY <2>1, <2>2 DEF LogInv
<1>15. StoreInv'
  <2>1. ASSUME NEW r \in Requests PROVE Answered(r)'
        BY <1>1, <1>6, <1>8, <1>9, AnswerStays DEF Inv, StoreInv
  <2>2. OneOwner'
    <3>1. SUFFICES ASSUME NEW g \in Hardware, NEW h \in Hardware, New(g) # NoRow, New(h) # NoRow,
                          New(g).device_id = New(h).device_id
                   PROVE  g = h
          BY <1>2 DEF OneOwner
    <3>2. CASE devices[g] # NoRow /\ devices[h] # NoRow
          BY <1>3, <3>1, <3>2 DEF Inv, StoreInv, OneOwner
    <3>3. CASE devices[g] = NoRow /\ devices[h] = NoRow
          BY <1>4, <3>1, <3>3
    <3>4. CASE devices[g] = NoRow /\ devices[h] # NoRow
      <4>1. New(g).device_id \notin Ids  BY <1>4, <3>1, <3>4
      <4>2. New(h).device_id \in Ids  BY <1>3, <3>4 DEF Ids
      <4>. QED  BY <3>1, <4>1, <4>2
    <3>5. CASE devices[g] # NoRow /\ devices[h] = NoRow
      <4>1. New(h).device_id \notin Ids  BY <1>4, <3>1, <3>5
      <4>2. New(g).device_id \in Ids  BY <1>3, <3>5 DEF Ids
      <4>. QED  BY <3>1, <4>1, <4>2
    <3>. QED  BY <3>2, <3>3, <3>4, <3>5
  <2>3. Allowed'
    <3>1. SUFFICES ASSUME NEW h \in Hardware, NEW i \in 1..Len(log'[h]), log'[h][i] \in Requests
                   PROVE  h \in allowlist
          BY <1>1 DEF Allowed
    <3>2. log[h] \in Seq(Requests \cup Seeds)  BY DEF Inv, TypeOK
    <3>3. New(h) # NoRow /\ New(h).device_id \in e => New(h).token \notin Requests
          BY <1>0, <1>3, <1>4
    <3>4. \E j \in 1..Len(log[h]) : log[h][j] \in Requests
      <4>1. CASE New(h) # NoRow /\ New(h).device_id \in e
        <5>1. /\ Len(log[h]) \in Nat /\ Len(log'[h]) = Len(log[h]) + 1
              /\ log'[h][Len(log[h]) + 1] \notin Requests
              /\ \A k \in 1..Len(log[h]) : log'[h][k] = log[h][k]
              BY <1>8a, <3>3, <4>1
        <5>2. i \in 1..Len(log[h])  BY <3>1, <5>1
        <5>. QED  BY <3>1, <5>1, <5>2
      <4>2. CASE ~(New(h) # NoRow /\ New(h).device_id \in e)
        <5>1. log'[h] = log[h]  BY <1>5, <4>2
        <5>. QED  BY <3>1, <5>1
      <4>. QED  BY <4>1, <4>2
    <3>. QED  BY <3>4 DEF Inv, StoreInv, Allowed
  <2>. QED  BY <2>1, <2>2, <2>3 DEF StoreInv
<1>16. SeedInv'
  <2>1. ASSUME NEW q \in Pods, NEW d \in Seeds, d \in seeded'[q]
        PROVE  pod'[q] = "seed_devices" /\ ~SeedWaits(q, d)' /\ ~SeedConflict(d)'
    <3>0. q # p /\ d \in seeded[q] /\ d \notin e
      <4>1. q # p /\ d \in seeded[q]
            BY <1>1, <2>1 DEF Inv, TypeOK
      <4>2. ~SeedWaits(q, d)
            BY <4>1 DEF Inv, SeedInv
      <4>. QED  BY <4>1, <4>2 DEF SeedWaits, e
    <3>1. pod[q] = "seed_devices" /\ ~SeedWaits(q, d) /\ ~SeedConflict(d)
          BY <3>0 DEF Inv, SeedInv
    <3>2. SeedHardware[d] \in Hardware /\ pod'[q] = pod[q]
          BY <1>1, <3>0, ControlStoreAssumption DEF Inv, TypeOK
    <3>3. d \in Ids' => d \in Ids
          BY <1>4, <1>7, <3>0
    <3>4. d \in Ids => d \in Ids'
      <4>1. SUFFICES ASSUME d \in Ids PROVE d \in Ids'
            OBVIOUS
      <4>2. PICK h \in Hardware : devices[h] # NoRow /\ devices[h].device_id = d
            BY <4>1 DEF Ids
      <4>3. devices'[h] # NoRow /\ devices'[h].device_id = d
            BY <1>6, <4>2 DEF RowsStay
      <4>. QED  BY <4>3 DEF Ids
    <3>5. ASSUME d \notin Ids PROVE devices'[SeedHardware[d]] = NoRow
      <4> DEFINE h == SeedHardware[d]
      <4>1. devices[h] = NoRow
            BY <3>1, <3>5 DEF SeedConflict
      <4>2. SUFFICES ASSUME New(h) # NoRow PROVE FALSE
            BY <1>2, <3>2
      <4>3. New(h).device_id \in e /\ SeedHardware[New(h).device_id] = h
            BY <1>4, <3>2, <4>1, <4>2
      <4>4. New(h).device_id = d
            BY <1>0, <4>3, ControlStoreAssumption
      <4>. QED  BY <3>0, <4>3, <4>4
    <3>6. ASSUME NEW s \in Requests, devices'[HardwareOf[s]] # NoRow,
                 devices'[HardwareOf[s]].device_id = d, HasWritten(s)'
          PROVE  FALSE
      <4> DEFINE h == HardwareOf[s]
      <4>1. h \in Hardware /\ HasWritten(s)
            BY <1>0, <1>10, <3>6
      <4>2. CASE devices[h] # NoRow
            BY <1>2, <1>3, <3>1, <3>6, <4>1, <4>2 DEF SeedWaits
      <4>3. CASE devices[h] = NoRow
            BY <1>2, <1>4, <3>0, <3>6, <4>1, <4>3
      <4>. QED  BY <4>2, <4>3
    <3>7. ASSUME NEW s \in Requests, d \notin Ids, Inserted(s)',
                 HardwareOf[s] = SeedHardware[d] \/ req'[s].row.device_id = d
          PROVE  FALSE
          BY <1>1, <1>10, <3>1, <3>7 DEF SeedWaits
    <3>8. \A q1 \in Pods \ {q} : d \notin seeded'[q1]
          BY <1>1, <3>1 DEF SeedWaits, Inv, TypeOK
    <3>9. ~SeedWaits(q, d)'
          BY <3>4, <3>6, <3>7, <3>8 DEF SeedWaits
    <3>. QED  BY <3>1, <3>2, <3>3, <3>4, <3>5, <3>9 DEF SeedConflict
  <2>. QED  BY <2>1 DEF SeedInv
<1>. QED  BY <1>8, <1>12, <1>13, <1>14, <1>15, <1>16 DEF Inv

\* A process stops, or its start fails: its transactions lose their locks, and its
\* requests are never answered.
LEMMA CrashStep ==
    ASSUME Inv, NEW p \in Pods, Crash(p) \/ SeedDeviceFails(p) \/ SeedDeadlock(p)
    PROVE  Inv'
<1>1. /\ UNCHANGED <<backend, devices, allowlist, env, starts, log>>
      /\ pod' = [pod EXCEPT ![p] = "down"]
      /\ listed' = [listed EXCEPT ![p] = {}] /\ seeded' = [seeded EXCEPT ![p] = {}]
      BY DEF Crash, SeedDeviceFails, SeedDeadlock, Down
<1>2. \A r \in Requests : Over(r, "lost", NoRow) \in Calls /\ Over(r, "lost", NoRow).pc = "lost"
      BY DEF Over, Idle, Calls, Ended
<1>3. \A r \in Requests : \/ req'[r] = req[r]
                          \/ InFlight(r) /\ req'[r] \in Calls /\ req'[r].pc = "lost"
      BY <1>2 DEF Crash, SeedDeviceFails, SeedDeadlock
<1>4. Ids' = Ids
      BY <1>1 DEF Ids
<1>5. TypeOK'
  <2>1. req' \in [Requests -> Calls]
        BY <1>2 DEF Crash, SeedDeviceFails, SeedDeadlock, Inv, TypeOK
  <2>. QED  BY <1>1, <1>4, <2>1 DEF Inv, TypeOK
<1>6. \A r \in Requests :
         /\ IsWriter(r)' => IsWriter(r) /\ req'[r] = req[r]
         /\ HasWritten(r)' => HasWritten(r) /\ req'[r] = req[r]
         /\ Inserted(r)' => Inserted(r) /\ req'[r] = req[r]
      BY <1>1, <1>3 DEF IsWriter, HasWritten, Inserted
<1>7. LockInv'
      BY <1>1, <1>4, <1>6 DEF Inv, LockInv
<1>8. \A r \in Requests : Knows(r) => Knows(r)'
      BY <1>1, <1>3 DEF Knows, IndexOf
<1>9. \A h \in Hardware, r \in Requests : Remembers(h, r) => Remembers(h, r)'
      BY <1>1, <1>3 DEF Remembers, InFlight, Ended
<1>10. \A r \in Requests : Answered(r) => Answered(r)'
       BY <1>1, <1>3 DEF Answered, IndexOf
<1>11. OneOwner' /\ Allowed'
       BY <1>1 DEF Inv, StoreInv, OneOwner, Allowed
<1>12. RequestInv' /\ LogInv' /\ StoreInv'
       BY <1>1, <1>8, <1>9, <1>10, <1>11 DEF Inv, RequestInv, LogInv, StoreInv
<1>13. \A q \in Pods : seeded'[q] \subseteq seeded[q] /\ (q = p => seeded'[q] = {})
       BY <1>1 DEF Inv, TypeOK
<1>14. SeedInv'
  <2>1. ASSUME NEW q \in Pods, NEW d \in Seeds, d \in seeded'[q]
        PROVE  pod'[q] = "seed_devices" /\ ~SeedWaits(q, d)' /\ ~SeedConflict(d)'
    <3>1. q # p /\ d \in seeded[q]
          BY <1>13, <2>1
    <3>2. pod[q] = "seed_devices" /\ ~SeedWaits(q, d) /\ ~SeedConflict(d)
          BY <3>1 DEF Inv, SeedInv
    <3>3. ~SeedConflict(d)'
          BY <1>1, <1>4, <3>2 DEF SeedConflict
    <3>4. ~SeedWaits(q, d)'
          BY <1>1, <1>4, <1>6, <1>13, <3>2 DEF SeedWaits
    <3>5. pod'[q] = pod[q]
          BY <1>1, <3>1 DEF Inv, TypeOK
    <3>. QED  BY <3>2, <3>3, <3>4, <3>5
  <2>. QED  BY <2>1 DEF SeedInv
<1>. QED  BY <1>5, <1>7, <1>12, <1>14 DEF Inv

\* The steps of a start that leave the devices alone: a seed waits for the locks it
\* takes.
LEMMA StartStep ==
    ASSUME Inv, NEW p \in Pods,
           Start(p) \/ ListHardware(p) \/ SeedHardwareAllowlist(p) \/ SeedDevice(p)
    PROVE  Inv'
<1>1. UNCHANGED <<backend, devices, req, log>> /\ allowlist \subseteq allowlist'
      BY DEF Start, ListHardware, SeedHardwareAllowlist, SeedDevice
<1>2. Ids' = Ids
      BY <1>1 DEF Ids
<1>3. TypeOK'
  <2> USE DEF Inv, TypeOK
  <2>1. env[p].allow # <<>> => Head(env[p].allow) \in Hardware /\ Tail(env[p].allow) \in Seq(Hardware)
        OBVIOUS
  <2>2. env[p].tokens # <<>> => Head(env[p].tokens) \in Seeds /\ Tail(env[p].tokens) \in Seq(Seeds)
        OBVIOUS
  <2>3. allowlist' \subseteq Hardware
        BY DEF Start, ListHardware, SeedHardwareAllowlist, SeedDevice
  <2>4. pod' \in [Pods -> {"down", "seed_allowlist", "seed_devices", "up"}]
        BY DEF Start, ListHardware, SeedHardwareAllowlist, SeedDevice
  <2>5. env' \in [Pods -> [allow : Seq(Hardware), tokens : Seq(Seeds)]]
    <3>1. CASE Start(p)
          BY <3>1, ControlStoreAssumption DEF Start
    <3>2. CASE ListHardware(p)
          BY <2>1, <3>2 DEF ListHardware
    <3>3. CASE SeedDevice(p)
          BY <2>2, <3>3 DEF SeedDevice
    <3>4. CASE SeedHardwareAllowlist(p)
          BY <3>4 DEF SeedHardwareAllowlist
    <3>. QED  BY <3>1, <3>2, <3>3, <3>4
  <2>6. listed' \in [Pods -> SUBSET Hardware] /\ seeded' \in [Pods -> SUBSET Seeds]
    <3>1. CASE Start(p) \/ SeedHardwareAllowlist(p)
          BY <3>1 DEF Start, SeedHardwareAllowlist
    <3>2. CASE ListHardware(p)
          BY <2>1, <3>2 DEF ListHardware
    <3>3. CASE SeedDevice(p)
          BY <2>2, <3>3 DEF SeedDevice
    <3>. QED  BY <3>1, <3>2, <3>3
  <2>7. starts' \in Nat
        BY DEF Start, ListHardware, SeedHardwareAllowlist, SeedDevice
  <2>. QED  BY <1>1, <1>2, <2>3, <2>4, <2>5, <2>6, <2>7
<1>4. LockInv'
      BY <1>1, <1>2 DEF Inv, LockInv, IsWriter, HasWritten, Inserted
<1>5. RequestInv'
      BY <1>1 DEF Inv, RequestInv, Knows, IndexOf
<1>6. LogInv'
      BY <1>1 DEF Inv, LogInv, Remembers
<1>7. StoreInv'
      BY <1>1 DEF Inv, StoreInv, Answered, OneOwner, Allowed, IndexOf
<1>8. SeedInv'
  <2>1. ASSUME NEW q \in Pods, NEW d \in Seeds, d \in seeded'[q]
        PROVE  pod'[q] = "seed_devices" /\ ~SeedWaits(q, d)' /\ ~SeedConflict(d)'
    <3>1. \A r \in Requests : HasWritten(r)' = HasWritten(r) /\ Inserted(r)' = Inserted(r)
          BY <1>1 DEF HasWritten, Inserted
    <3>2. CASE ~SeedDevice(p)
      <4>1. UNCHANGED seeded /\ d \in seeded[q]
            BY <2>1, <3>2 DEF Start, ListHardware, SeedHardwareAllowlist
      <4>2. pod[q] = "seed_devices" /\ ~SeedWaits(q, d) /\ ~SeedConflict(d)
            BY <4>1 DEF Inv, SeedInv
      <4>3. pod'[q] = pod[q]
            BY <3>2, <4>2 DEF Start, ListHardware, SeedHardwareAllowlist, Inv, TypeOK
      <4>. QED  BY <1>1, <1>2, <3>1, <4>1, <4>2, <4>3 DEF SeedWaits, SeedConflict
    <3>3. CASE SeedDevice(p)
      <4> DEFINE c == Head(env[p].tokens)
      <4>1. /\ pod[p] = "seed_devices" /\ UNCHANGED pod /\ ~SeedWaits(p, c) /\ ~SeedConflict(c)
            /\ seeded'[p] = seeded[p] \cup {c} /\ \A q1 \in Pods \ {p} : seeded'[q1] = seeded[q1]
            BY <3>3 DEF SeedDevice, Inv, TypeOK
      <4>. HIDE DEF c
      <4>2. pod[q] = "seed_devices" /\ ~SeedWaits(q, d) /\ ~SeedConflict(d)
            BY <2>1, <4>1 DEF Inv, SeedInv
      <4>3. \A q1 \in Pods \ {q} : d \notin seeded'[q1]
            BY <2>1, <4>1, <4>2 DEF SeedWaits
      <4>. QED  BY <1>1, <1>2, <3>1, <4>1, <4>2, <4>3 DEF SeedWaits, SeedConflict
    <3>. QED  BY <3>2, <3>3
  <2>. QED  BY <2>1 DEF SeedInv
<1>. QED  BY <1>3, <1>4, <1>5, <1>6, <1>7, <1>8 DEF Inv

\* A step that changes nothing keeps the invariant.
LEMMA StutterStep ==
    ASSUME Inv, UNCHANGED vars
    PROVE  Inv'
BY DEF vars, Inv, TypeOK, Ids, LockInv, IsWriter, HasWritten, Inserted, RequestInv, Knows,
       IndexOf, LogInv, Remembers, StoreInv, Answered, OneOwner, Allowed, SeedInv, SeedWaits,
       SeedConflict

-----------------------------------------------------------------------------

\* Every variable keeps its type, one transaction at a time holds the locks of a
\* hardware id, and the table, the answers and the tokens committed agree.
THEOREM StoreInvariant == Spec => []Inv
<1>1. Init => Inv
      BY InitInv
<1>2. ASSUME Inv, [Next]_vars PROVE Inv'
  <2>1. ASSUME NEW r \in Requests, Arrive(r) PROVE Inv'
        BY <1>2, <2>1, EnterStep
  <2>2. ASSUME NEW r \in Requests, Handle(r) PROVE Inv'
    <3>1. CASE CheckAllowed(r) \/ BeginBusy(r)
          BY <1>2, <3>1, EnterStep
    <3>2. CASE Begin(r) \/ Lookup(r) \/ NextDeviceId(r)
          BY <1>2, <3>2, LookupStep
    <3>3. CASE InsertDevice(r)
          BY <1>2, <3>3, InsertStep
    <3>4. CASE UpdateDevice(r) \/ AllowHardware(r)
          BY <1>2, <3>4, WriteStep
    <3>5. CASE ReadSaved(r)
      <4>1. backend = "sqlite" \/ backend = "postgres"  BY <1>2 DEF Inv, TypeOK
      <4>. QED  BY <1>2, <3>5, <4>1, WriteStep, ReadSavedStep
    <3>6. CASE Commit(r)
          BY <1>2, <3>6, CommitStep
    <3>. QED  BY <2>2, <3>1, <3>2, <3>3, <3>4, <3>5, <3>6 DEF Handle
  <2>7. ASSUME NEW r \in Requests, CommitUnanswered(r) \/ StatementFails(r) PROVE Inv'
        BY <1>2, <2>7, CommitStep, FailStep
  <2>3. ASSUME NEW p \in Pods, Start(p) PROVE Inv'
        BY <1>2, <2>3, StartStep
  <2>4. ASSUME NEW p \in Pods, Seed(p) PROVE Inv'
    <3>1. CASE ListHardware(p) \/ SeedHardwareAllowlist(p) \/ SeedDevice(p)
          BY <1>2, <3>1, StartStep
    <3>2. CASE SeedDeviceFails(p) \/ SeedDeadlock(p)
          BY <1>2, <3>2, CrashStep
    <3>3. CASE SeedDevices(p)
          BY <1>2, <3>3, SeedStep
    <3>. QED  BY <2>4, <3>1, <3>2, <3>3 DEF Seed
  <2>5. ASSUME NEW p \in Pods, Crash(p) PROVE Inv'
        BY <1>2, <2>5, CrashStep
  <2>6. CASE UNCHANGED vars
        BY <1>2, <2>6, StutterStep
  <2>. QED  BY <1>2, <2>1, <2>2, <2>3, <2>4, <2>5, <2>6, <2>7 DEF Next
<1>. QED  BY <1>1, <1>2, PTL DEF Spec

\* A hardware id keeps the device id it was first answered with, shares it with no
\* other and stays on the allowlist, whatever rivals, seeds, errors and restarts.
THEOREM IdentityTheorem == Spec => []IdentityIsStable
<1>1. Inv => IdentityIsStable
      BY InvImplies
<1>. QED  BY <1>1, StoreInvariant, PTL

\* Nobody is answered with a token that was rolled back or that the request itself
\* has replaced, and the token in the table is a seed or was told to its request,
\* unless the process of that very request stopped or its COMMIT, or the SELECT
\* after it, failed.
THEOREM ToldTheorem == Spec => []ToldIsStored
<1>1. Inv => ToldIsStored
      BY InvImplies
<1>. QED  BY <1>1, StoreInvariant, PTL

\* What a step does to the tables: a row is never dropped, never changes its device
\* id, and no hardware id leaves the allowlist.
TablesOnlyGrow == RowsStay /\ allowlist \subseteq allowlist'

\* Every step keeps every row, its device id and the allowlist.
THEOREM TablesTheorem == Spec => [][TablesOnlyGrow]_vars
<1>1. ASSUME Inv, [Next]_vars PROVE [TablesOnlyGrow]_vars
  <2>1. ASSUME NEW r \in Requests, Commit(r) \/ CommitUnanswered(r) PROVE TablesOnlyGrow
    <3> DEFINE h == HardwareOf[r]
    <3>1. h \in Hardware /\ Knows(r) /\ devices \in [Hardware -> Rows \cup {NoRow}]
          BY <1>1, ControlStoreAssumption DEF Inv, TypeOK, RequestInv
    <3>2. /\ req[r].row # NoRow /\ Stored(r)
          /\ devices[h] # NoRow => req[r].row.device_id = devices[h].device_id
          BY <2>1, <3>1 DEF Commit, CommitUnanswered, Knows
    <3>. QED  BY <3>1, <3>2 DEF Stored, TablesOnlyGrow, RowsStay
  <2>2. ASSUME NEW p \in Pods, SeedDevices(p) PROVE TablesOnlyGrow
    <3>1. \A h \in Hardware : devices[h] # NoRow =>
             Seeded(h, seeded[p]) # NoRow /\ Seeded(h, seeded[p]).device_id = devices[h].device_id
      <4>1. SUFFICES ASSUME NEW h \in Hardware, devices[h] # NoRow PROVE
               Seeded(h, seeded[p]) # NoRow /\ Seeded(h, seeded[p]).device_id = devices[h].device_id
            OBVIOUS
      <4>2. devices[h] \in Rows /\ seeded[p] \subseteq Seeds
            BY <1>1, <4>1 DEF Inv, TypeOK
      <4>. QED  BY <4>1, <4>2, ControlStoreAssumption DEF Seeded, Row, Rows
    <3>. QED  BY <2>2, <3>1 DEF SeedDevices, TablesOnlyGrow, RowsStay
  <2>3. ASSUME UNCHANGED devices, allowlist \subseteq allowlist' PROVE TablesOnlyGrow
        BY <2>3 DEF TablesOnlyGrow, RowsStay
  <2>4. ASSUME NEW r \in Requests,
               Arrive(r) \/ (Handle(r) /\ ~Commit(r)) \/ StatementFails(r)
        PROVE  TablesOnlyGrow
        BY <2>3, <2>4 DEF Arrive, Handle, CheckAllowed, Begin, BeginBusy, Lookup, NextDeviceId,
           InsertDevice, UpdateDevice, AllowHardware, ReadSaved, StatementFails, StoreUnchanged
  <2>5. ASSUME NEW p \in Pods, Start(p) \/ (Seed(p) /\ ~SeedDevices(p)) \/ Crash(p)
        PROVE  TablesOnlyGrow
        BY <2>3, <2>5 DEF Start, Seed, ListHardware, SeedHardwareAllowlist, SeedDevice,
           SeedDeviceFails, SeedDeadlock, Crash, Down
  <2>. QED  BY <1>1, <2>1, <2>2, <2>4, <2>5 DEF Next
<1>. QED  BY <1>1, StoreInvariant, PTL DEF Spec

=============================================================================
