----------------------------- MODULE ControlStore -----------------------------
(***************************************************************************)
(* The control store of the ingest API (control_db.py): the tables devices *)
(* and hardware_allowlist in SQLite or PostgreSQL, issue_device_token()    *)
(* behind POST /v1/provision and the admin endpoints, the seeds written at *)
(* every start, and processes that stop anywhere.                          *)
(*                                                                         *)
(* Every statement is a step.  SQLite has one writer, from BEGIN IMMEDIATE *)
(* to COMMIT.  PostgreSQL runs at READ COMMITTED: a statement sees what is *)
(* committed; SELECT ... FOR UPDATE waits for the lock of a row, and an    *)
(* INSERT for the transaction that has inserted the same key.  Any         *)
(* statement can also fail, and a COMMIT whose answer is lost may have     *)
(* been carried out.                                                       *)
(*                                                                         *)
(* A device id is <<prefix, middle, number>>: "esp-001" is                 *)
(* <<"esp", "-", 1>> and "esp-lab-x", without a number, is                 *)
(* <<"esp", "-lab-x", -1>>.  The token of a request is the request, the    *)
(* token of a seed its device id.                                          *)
(***************************************************************************)
EXTENDS Integers, Sequences, FiniteSets, FiniteSetsExt

CONSTANTS
    Backends,       \* what AETUS_CONTROL_DB_BACKEND may name: "sqlite", "postgres"
    Pods,           \* processes of the ingest API
    Requests,       \* calls of issue_device_token()
    Hardware,       \* hardware ids
    HardwareOf,     \* the hardware id of each request
    Prefix,         \* the normalised prefix of each hardware id
    EnvAllowlists,  \* what AETUS_ALLOWED_HARDWARE_IDS may list, sorted
    Seeds,          \* device ids that AETUS_DEVICE_TOKENS may name
    EnvTokens,      \* what it may list, in its order
    SeedHardware,   \* "seed-<device id>" for each of them
    MaxAttempts,    \* range(3)
    MaxStarts,      \* bound: starts of a process
    NoRow

\* Prefix, what stands before the number ("-" in an id that the store draws), number.
DeviceIds == STRING \X ({"-"} \cup STRING) \X Int

\* The rows of devices.
Rows == [device_id : DeviceIds, token : Requests \cup Seeds]

\* The environment lists finitely many seeds, and a token drawn at random is not
\* one of theirs.
ASSUME ControlStoreAssumption ==
    /\ Backends \subseteq {"sqlite", "postgres"}
    /\ HardwareOf \in [Requests -> Hardware] /\ Prefix \in [Hardware -> STRING]
    /\ Seeds \subseteq DeviceIds /\ IsFiniteSet(Seeds) /\ Requests \cap Seeds = {}
    /\ SeedHardware \in [Seeds -> Hardware]
    /\ \A c, d \in Seeds : SeedHardware[c] = SeedHardware[d] => c = d
    /\ EnvAllowlists \subseteq Seq(Hardware) /\ EnvTokens \subseteq Seq(Seeds)
    /\ MaxAttempts \in Nat \ {0} /\ MaxStarts \in Nat
    /\ NoRow \notin Rows

VARIABLES
    backend,        \* the configured one
    devices,        \* table devices: the row of each hardware id
    allowlist,      \* table hardware_allowlist
    pod, env,       \* what each process does, and the seeds it has still to write
    listed, seeded, \* allowlist entries and seeds its open transaction has written
    req,            \* each request, with what its transaction has written
    starts,         \* starts so far
    (* history variable *)
    log             \* per hardware id, the tokens committed

startVars == <<pod, env, listed, seeded, starts>>
vars == <<backend, devices, allowlist, pod, env, listed, seeded, req, starts, log>>

Idle ==
    [pc |-> "idle", pod |-> NoRow, attempt |-> 0, id |-> NoRow, row |-> NoRow,
     saved |-> NoRow]

\* Answered with a token or 403, failed with nothing stored, failed after the
\* COMMIT or in it, and lost with its process.
Ended == {"done", "refused", "error", "unsure", "lost"}
InFlight(r) == req[r].pc \notin Ended \cup {"idle"}

Row(id, token) == [device_id |-> id, token |-> token]
Ids == {devices[h].device_id : h \in {g \in Hardware : devices[g] # NoRow}}

Init ==
    /\ backend \in Backends
    /\ devices = [h \in Hardware |-> NoRow] /\ allowlist = {}
    /\ pod = [p \in Pods |-> "down"]
    /\ env = [p \in Pods |-> [allow |-> <<>>, tokens |-> <<>>]]
    /\ listed = [p \in Pods |-> {}] /\ seeded = [p \in Pods |-> {}]
    /\ req = [r \in Requests |-> Idle] /\ starts = 0
    /\ log = [h \in Hardware |-> <<>>]

-----------------------------------------------------------------------------
(* Locks. *)

\* r has locked the row of its hardware id, or inserted it.
HasWritten(r) ==
    req[r].pc \in {"update", "allow", "commit"} \cup (IF backend = "sqlite" THEN {} ELSE {"saved"})

\* r is the writer of the SQLite file.
IsWriter(r) ==
    req[r].pc \in {"lookup", "next_id", "insert", "update", "allow", "commit"}

\* Nobody else writes the file: no request and none of the processes P that start.
WriterFree(P) ==
    backend = "sqlite" =>
        (\A r \in Requests : ~IsWriter(r)) /\ \A q \in P : listed[q] = {} /\ seeded[q] = {}

\* r has inserted a row that no other transaction sees yet.
Inserted(r) == HasWritten(r) /\ req[r].row # NoRow /\ devices[HardwareOf[r]] = NoRow

\* The key of a row that another transaction has inserted and not committed.
Pending(r, h, id) ==
    \/ \E s \in Requests \ {r} :
          Inserted(s) /\ (HardwareOf[s] = h \/ req[s].row.device_id = id)
    \/ \E p \in Pods : \E d \in seeded[p] \ Ids : SeedHardware[d] = h \/ d = id

RowLocked(r, h) ==
    /\ devices[h] # NoRow
    /\ \/ \E s \in Requests \ {r} : HardwareOf[s] = h /\ HasWritten(s)
       \/ \E p \in Pods : devices[h].device_id \in seeded[p]

\* r has inserted its allowlist entry and not committed it.
HasListed(r) == req[r].pc = "commit" \/ (req[r].pc = "saved" /\ backend = "postgres")

-----------------------------------------------------------------------------
(* issue_device_token() *)

Goto(r, pc) == req' = [req EXCEPT ![r].pc = pc]

\* The request ends, with the row it answers; its transaction is over.
Over(r, pc, row) == [Idle EXCEPT !.pc = pc, !.saved = row]
End(r, pc, row) == req' = [req EXCEPT ![r] = Over(r, pc, row)]
StoreUnchanged == UNCHANGED <<backend, devices, allowlist, startVars, log>>

First == IF backend = "sqlite" THEN "begin" ELSE "lookup"

\* A request arrives: POST /v1/provision asks the allowlist first, the admin
\* endpoints do not.
Arrive(r) ==
    /\ req[r].pc = "idle"
    /\ \E p \in Pods, pc \in {"check", First} :
         /\ pod[p] = "up"
         /\ req' = [req EXCEPT ![r] = [@ EXCEPT !.pc = pc, !.pod = p]]
    /\ StoreUnchanged

\* is_hardware_allowed_readonly()
CheckAllowed(r) ==
    /\ req[r].pc = "check"
    /\ \/ HardwareOf[r] \in allowlist /\ Goto(r, First)
       \/ HardwareOf[r] \notin allowlist /\ End(r, "refused", NoRow)
    /\ StoreUnchanged

Begin(r) == req[r].pc = "begin" /\ WriterFree(Pods) /\ Goto(r, "lookup") /\ StoreUnchanged

\* The busy timeout of 3 s runs out; OperationalError is not retried.
BeginBusy(r) ==
    req[r].pc = "begin" /\ ~WriterFree(Pods) /\ End(r, "error", NoRow) /\ StoreUnchanged

Lookup(r) ==
    LET row == devices[HardwareOf[r]]
    IN  /\ req[r].pc = "lookup" /\ ~RowLocked(r, HardwareOf[r])
        /\ req' = IF row = NoRow THEN [req EXCEPT ![r].pc = "next_id"]
                  ELSE [req EXCEPT ![r].pc = "update", ![r].id = row.device_id]
        /\ StoreUnchanged

\* One above the highest number of the ids that begin with the prefix.
NextId(h) ==
    LET numbers == {id[3] : id \in {i \in Ids : i[1] = Prefix[h]}}
    IN  <<Prefix[h], "-", Max(numbers \cup {0}) + 1>>

NextDeviceId(r) ==
    /\ req[r].pc = "next_id"
    /\ req' = [req EXCEPT ![r].pc = "insert", ![r].id = NextId(HardwareOf[r])]
    /\ StoreUnchanged

\* The transaction is rolled back and tried again; the last error is raised.
Retry(r) ==
    IF req[r].attempt + 1 = MaxAttempts THEN End(r, "error", NoRow)
    ELSE req' = [req EXCEPT ![r].pc = First, ![r].attempt = @ + 1]

Conflict(r) == devices[HardwareOf[r]] # NoRow \/ req[r].id \in Ids

InsertDevice(r) ==
    /\ req[r].pc = "insert" /\ ~Pending(r, HardwareOf[r], req[r].id)
    /\ \/ /\ Conflict(r) /\ Retry(r)
       \/ /\ ~Conflict(r)
          /\ req' = [req EXCEPT ![r].pc = "allow", ![r].row = Row(req[r].id, r)]
    /\ StoreUnchanged

UpdateDevice(r) ==
    /\ req[r].pc = "update"
    /\ req' = [req EXCEPT ![r].pc = "allow", ![r].row = Row(req[r].id, r)]
    /\ StoreUnchanged

\* INSERT INTO hardware_allowlist ... DO NOTHING waits for a process that has
\* seeded the same entry and not committed it; the entry becomes visible, with
\* the device, in Commit.
AllowHardware(r) ==
    /\ req[r].pc = "allow"
    /\ HardwareOf[r] \in allowlist \/ \A p \in Pods : HardwareOf[r] \notin listed[p]
    /\ Goto(r, IF backend = "sqlite" THEN "commit" ELSE "saved")
    /\ StoreUnchanged

\* The row is read again: after the COMMIT in SQLite, before it in PostgreSQL.
ReadSaved(r) ==
    /\ req[r].pc = "saved"
    /\ \/ backend = "sqlite" /\ End(r, "done", devices[HardwareOf[r]])
       \/ /\ backend = "postgres"
          /\ req' = [req EXCEPT ![r].pc = "commit", ![r].saved = req[r].row]
    /\ StoreUnchanged

AfterCommit(r) ==
    \/ backend = "sqlite" /\ Goto(r, "saved")
    \/ backend = "postgres" /\ End(r, "done", req[r].saved)

\* Mutant of Stored: the device is committed before its allowlist entry.
StoredDeviceOnly(r) ==
    LET h == HardwareOf[r]
    IN  /\ devices' = [devices EXCEPT ![h] = req[r].row]
        /\ log' = [log EXCEPT ![h] = Append(@, r)]
        /\ UNCHANGED <<backend, allowlist, startVars>>

\* The transaction of r is carried out.
Stored(r) ==
    LET h == HardwareOf[r]
    IN  /\ devices' = [devices EXCEPT ![h] = req[r].row]
        /\ allowlist' = allowlist \cup {h}
        /\ log' = [log EXCEPT ![h] = Append(@, r)]
        /\ UNCHANGED <<backend, startVars>>

\* Mutant of Commit: the connection is closed without COMMIT.
CommitForgotten(r) ==
    req[r].pc = "commit" /\ AfterCommit(r) /\ StoreUnchanged

Commit(r) == req[r].pc = "commit" /\ Stored(r) /\ AfterCommit(r)

\* The connection to PostgreSQL breaks before the COMMIT is answered: it was
\* carried out, and the caller is answered with an error.
CommitUnanswered(r) ==
    req[r].pc = "commit" /\ backend = "postgres" /\ Stored(r) /\ End(r, "unsure", NoRow)

\* A statement fails otherwise, or the COMMIT with nothing stored: only
\* constraint errors are retried.  In SQLite the SELECT comes after the COMMIT.
StatementFails(r) ==
    /\ InFlight(r)
    /\ End(r, IF req[r].pc = "saved" /\ backend = "sqlite" THEN "unsure" ELSE "error", NoRow)
    /\ StoreUnchanged

Handle(r) ==
    \/ CheckAllowed(r) \/ Begin(r) \/ BeginBusy(r) \/ Lookup(r) \/ NextDeviceId(r)
    \/ InsertDevice(r) \/ UpdateDevice(r) \/ AllowHardware(r) \/ ReadSaved(r) \/ Commit(r)

-----------------------------------------------------------------------------
(* Starting and stopping. *)

\* create_app(): the tables are there or made, and the seeds are written.  Only
\* one process has the SQLite file.
Start(p) ==
    /\ backend = "sqlite" => p = CHOOSE q \in Pods : TRUE
    /\ pod[p] = "down" /\ starts < MaxStarts /\ starts' = starts + 1
    /\ pod' = [pod EXCEPT ![p] = "seed_allowlist"]
    /\ \E a \in EnvAllowlists, t \in EnvTokens :
          env' = [env EXCEPT ![p] = [allow |-> a, tokens |-> t]]
    /\ UNCHANGED <<backend, devices, allowlist, listed, seeded, req, log>>

\* seed_hardware_allowlist(), row by row; a row waits for whoever has inserted the
\* same entry.
ListHardware(p) ==
    LET h == Head(env[p].allow)
    IN  /\ pod[p] = "seed_allowlist" /\ env[p].allow # <<>> /\ WriterFree(Pods \ {p})
        /\ \/ h \in allowlist
           \/ /\ \A q \in Pods \ {p} : h \notin listed[q]
              /\ \A r \in Requests : ~(HardwareOf[r] = h /\ HasListed(r))
        /\ listed' = [listed EXCEPT ![p] = @ \cup {h}]
        /\ env' = [env EXCEPT ![p].allow = Tail(@)]
        /\ UNCHANGED <<backend, devices, allowlist, pod, seeded, req, starts, log>>

\* Mutant of SeedHardwareAllowlist: the transaction is left open.
SeedHardwareAllowlistOpen(p) ==
    /\ pod[p] = "seed_allowlist" /\ env[p].allow = <<>>
    /\ pod' = [pod EXCEPT ![p] = "seed_devices"]
    /\ UNCHANGED <<backend, devices, allowlist, listed, env, seeded, req, starts, log>>

\* Its commit.
SeedHardwareAllowlist(p) ==
    /\ pod[p] = "seed_allowlist" /\ env[p].allow = <<>>
    /\ allowlist' = allowlist \cup listed[p]
    /\ listed' = [listed EXCEPT ![p] = {}]
    /\ pod' = [pod EXCEPT ![p] = "seed_devices"]
    /\ UNCHANGED <<backend, devices, env, seeded, req, starts, log>>

\* A seed waits for the transactions that have locked its row, and a new one for
\* those that have inserted its device id or its hardware id.
SeedWaits(p, d) ==
    \/ \E r \in Requests : LET row == devices[HardwareOf[r]]
                          IN  row # NoRow /\ row.device_id = d /\ HasWritten(r)
    \/ /\ d \notin Ids
       /\ \E r \in Requests :
             Inserted(r) /\ (HardwareOf[r] = SeedHardware[d] \/ req[r].row.device_id = d)
    \/ \E q \in Pods \ {p} : d \in seeded[q]

\* The hardware id of a new seed belongs to another device.
SeedConflict(d) == d \notin Ids /\ devices[SeedHardware[d]] # NoRow

\* seed_devices(), row by row ...
SeedDevice(p) ==
    LET d == Head(env[p].tokens)
    IN  /\ pod[p] = "seed_devices" /\ env[p].tokens # <<>> /\ WriterFree(Pods \ {p})
        /\ ~SeedWaits(p, d) /\ ~SeedConflict(d)
        /\ seeded' = [seeded EXCEPT ![p] = @ \cup {d}]
        /\ env' = [env EXCEPT ![p].tokens = Tail(@)]
        /\ UNCHANGED <<backend, devices, allowlist, pod, listed, req, starts, log>>

\* The process is down and what it had not committed is rolled back.
Down(p) ==
    /\ pod' = [pod EXCEPT ![p] = "down"]
    /\ listed' = [listed EXCEPT ![p] = {}] /\ seeded' = [seeded EXCEPT ![p] = {}]
    /\ UNCHANGED <<backend, devices, allowlist, env, starts, log>>

\* ... the constraint error ends the start ...
SeedDeviceFails(p) ==
    LET d == Head(env[p].tokens)
    IN  /\ pod[p] = "seed_devices" /\ env[p].tokens # <<>> /\ WriterFree(Pods \ {p})
        /\ ~SeedWaits(p, d) /\ SeedConflict(d)
        /\ Down(p) /\ req' = req

\* p waits for a seed that q has written and not committed.
WaitsFor(p, q) ==
    /\ p # q /\ pod[p] = "seed_devices" /\ env[p].tokens # <<>>
    /\ Head(env[p].tokens) \in seeded[q]

\* ... and so does PostgreSQL, for one of a circle of starts that wait for each
\* other because their environments list the same seeds in different orders.
SeedDeadlock(p) ==
    /\ \E S \in SUBSET Pods :
          /\ p \in S
          /\ \A x \in S : (\E y \in S : WaitsFor(x, y)) /\ (\E y \in S : WaitsFor(y, x))
    /\ Down(p) /\ req' = req

\* The row that ON CONFLICT(device_id) DO UPDATE leaves for a hardware id.
Seeded(h, s) ==
    IF devices[h] # NoRow
    THEN IF devices[h].device_id \in s
         THEN Row(devices[h].device_id, devices[h].device_id) ELSE devices[h]
    ELSE IF \E d \in s \ Ids : SeedHardware[d] = h
         THEN LET d == CHOOSE d \in s \ Ids : SeedHardware[d] = h IN Row(d, d)
         ELSE NoRow

\* The commit of seed_devices().
SeedDevices(p) ==
    /\ pod[p] = "seed_devices" /\ env[p].tokens = <<>>
    /\ devices' = [h \in Hardware |-> Seeded(h, seeded[p])]
    /\ log' = [h \in Hardware |->
                 IF Seeded(h, seeded[p]) # NoRow /\ Seeded(h, seeded[p]).device_id \in seeded[p]
                 THEN Append(log[h], Seeded(h, seeded[p]).token) ELSE log[h]]
    /\ seeded' = [seeded EXCEPT ![p] = {}]
    /\ pod' = [pod EXCEPT ![p] = "up"]
    /\ UNCHANGED <<backend, allowlist, env, listed, req, starts>>

\* A process stops, or its start fails; its transactions are rolled back and
\* nobody is answered.
Crash(p) ==
    /\ pod[p] # "down" /\ Down(p)
    /\ req' = [r \in Requests |->
                 IF InFlight(r) /\ req[r].pod = p THEN Over(r, "lost", NoRow) ELSE req[r]]

Seed(p) ==
    \/ ListHardware(p) \/ SeedHardwareAllowlist(p) \/ SeedDevice(p) \/ SeedDeviceFails(p)
    \/ SeedDeadlock(p) \/ SeedDevices(p)

Next ==
    \/ \E r \in Requests : Arrive(r) \/ Handle(r) \/ CommitUnanswered(r) \/ StatementFails(r)
    \/ \E p \in Pods : Start(p) \/ Seed(p) \/ Crash(p)

Spec == Init /\ [][Next]_vars

\* A request that arrived is carried on with until its process stops, and so is a
\* start, by PostgreSQL's deadlock detection if need be.
Fairness ==
    /\ \A r \in Requests : WF_vars(Handle(r))
    /\ \A p \in Pods : WF_vars(Seed(p))

FairSpec == Spec /\ Fairness

-----------------------------------------------------------------------------

\* The local variables of a call of issue_device_token().
Calls ==
    [pc : Ended \cup {"idle", "check", "begin", "lookup", "next_id", "insert", "update", "allow",
                     "saved", "commit"},
     pod : Pods \cup {NoRow}, attempt : Nat, id : DeviceIds \cup {NoRow},
     row : Rows \cup {NoRow}, saved : Rows \cup {NoRow}]

\* Every variable has a value of the type the code gives it.
TypeOK ==
    /\ backend \in {"sqlite", "postgres"}
    /\ devices \in [Hardware -> Rows \cup {NoRow}] /\ IsFiniteSet(Ids)
    /\ allowlist \subseteq Hardware
    /\ pod \in [Pods -> {"down", "seed_allowlist", "seed_devices", "up"}]
    /\ env \in [Pods -> [allow : Seq(Hardware), tokens : Seq(Seeds)]]
    /\ listed \in [Pods -> SUBSET Hardware] /\ seeded \in [Pods -> SUBSET Seeds]
    /\ req \in [Requests -> Calls]
    /\ starts \in Nat
    /\ log \in [Hardware -> Seq(Requests \cup Seeds)]

IndexOf(h, token) == {i \in 1..Len(log[h]) : log[h][i] = token}

\* What is told and what is stored agree.  The token in an answer of
\* issue_device_token() was committed for that hardware id, not before the
\* request's own: nobody is answered with a token that was rolled back, or that
\* the request itself has replaced.  And a token in the table is a seed, or that
\* of a request whose caller was answered with this very token or is about to be.
\* Two ends leave a token that nobody was told: a process that stops after the
\* COMMIT, and an error raised in it (PostgreSQL) or in the SELECT after it
\* (SQLite).  Requests that were refused or failed before it leave none.
ToldIsStored ==
    /\ \A r \in Requests : req[r].pc = "done" =>
         \E i \in IndexOf(HardwareOf[r], r),
            j \in IndexOf(HardwareOf[r], req[r].saved.token) : i <= j
    /\ \A h \in Hardware : devices[h] # NoRow /\ devices[h].token \notin Seeds =>
         \E r \in Requests :
            /\ HardwareOf[r] = h /\ devices[h].token = r
            /\ \/ req[r].pc = "done" /\ req[r].saved.token = r
               \/ req[r].pc = "saved" /\ backend = "sqlite"
               \/ req[r].pc \in {"lost", "unsure"}

\* A hardware id keeps the device id that it was first answered with, shares it
\* with no other, and stays on the allowlist, so that it can provision itself
\* again, whatever rivals, seeds, errors and restarts there are.
IdentityIsStable ==
    /\ \A r \in Requests : req[r].pc = "done" =>
         devices[HardwareOf[r]] # NoRow
         /\ devices[HardwareOf[r]].device_id = req[r].saved.device_id
    /\ \A g, h \in Hardware :
         devices[g] # NoRow /\ devices[h] # NoRow
         /\ devices[g].device_id = devices[h].device_id => g = h
    /\ \A h \in Hardware :
         (\E i \in 1..Len(log[h]) : log[h][i] \in Requests) => h \in allowlist

\* The locks: one writer of the SQLite file, and one transaction per hardware id
\* that has locked or inserted a row; the ids of the rows inserted but not yet
\* committed are new.
LockInv ==
    /\ \A r, s \in Requests : r # s =>
         /\ backend = "sqlite" => ~(IsWriter(r) /\ IsWriter(s))
         /\ HasWritten(r) /\ HasWritten(s) => HardwareOf[r] # HardwareOf[s]
         /\ Inserted(r) /\ Inserted(s) => req[r].row.device_id # req[s].row.device_id
    /\ \A r \in Requests : Inserted(r) => req[r].row.device_id \notin Ids

\* The seeds that a start has written and not committed hold their locks: no two
\* starts have the same, no request has written the row of one, and nobody else
\* has a row for the device id or the hardware id of a new one.
SeedInv ==
    \A p \in Pods, d \in Seeds : d \in seeded[p] =>
        /\ pod[p] = "seed_devices"
        /\ ~SeedWaits(p, d)
        /\ ~SeedConflict(d)

\* What a request knows at each of its statements.
Knows(r) ==
    LET h == HardwareOf[r]
    IN  /\ req[r].pc = "insert" => req[r].id \in DeviceIds
        /\ req[r].pc = "update" =>
             devices[h] # NoRow /\ req[r].id = devices[h].device_id
        /\ req[r].pc \in {"allow", "commit"} \/ (req[r].pc = "saved" /\ backend = "postgres") =>
             /\ req[r].row # NoRow /\ req[r].row.token = r
             /\ devices[h] # NoRow => req[r].row.device_id = devices[h].device_id
        /\ req[r].pc = "commit" /\ backend = "postgres" => req[r].saved = req[r].row
        /\ req[r].pc = "saved" /\ backend = "sqlite" =>
             devices[h] # NoRow /\ IndexOf(h, r) # {}
        /\ req[r].pc = "done" => req[r].saved # NoRow

RequestInv == \A r \in Requests : Knows(r)

\* The token of r in the table is told to the caller of r, unless its process stops
\* or the COMMIT is not answered.
Remembers(h, r) ==
    devices[h] # NoRow /\ devices[h].token = r =>
        /\ HardwareOf[r] = h
        /\ \/ req[r].pc \in {"lost", "unsure"} \/ (req[r].pc = "saved" /\ backend = "sqlite")
           \/ req[r].pc = "done" /\ req[r].saved.token = r

\* The token in the table is the last one committed.
LogInv ==
    \A h \in Hardware :
        /\ devices[h] # NoRow => Len(log[h]) > 0 /\ devices[h].token = log[h][Len(log[h])]
        /\ \A r \in Requests : Remembers(h, r)

\* Every request ends: the rows that requests and starts lock, and the keys that they
\* insert, never make a request wait for ever, not behind starts that deadlock
\* either, and the number of attempts is limited.
EveryRequestEnds == \A r \in Requests : InFlight(r) ~> req[r].pc \in Ended

=============================================================================
