-------------------------- MODULE ProvisioningProofs --------------------------
(***************************************************************************)
(* Proofs about Provisioning: the type invariant and what the Wi-Fi life   *)
(* cycle and the BLE service promise, for every set of configurations,     *)
(* writes and answers, every length of the event queue and every number of *)
(* faults, updates, resets and restarts.                                   *)
(***************************************************************************)
EXTENDS Provisioning, WellFoundedInduction, TLAPS

-----------------------------------------------------------------------------
(* Configurations *)

\* Changing one number of a configuration leaves the rest of it alone.
LEMMA NumberSet ==
    ASSUME NEW c \in Config, NEW f \in NumberFields, NEW n \in Nat
    PROVE  LET d == [c EXCEPT !.number[f] = n]
           IN  /\ d \in Config /\ d.text = c.text /\ d.wifi_auth = c.wifi_auth
               /\ d.auth_mode = c.auth_mode /\ d.connected_led_enabled = c.connected_led_enabled
               /\ \A g \in NumberFields \ {f} : d.number[g] = c.number[g]
BY DEF Config

\* The defaults are numbers: what aetus_start() and aetus_update_config() check and
\* what they show on the LED is as the caller gave it.
LEMMA NormaliseFacts ==
    ASSUME NEW c \in Config, NEW depth \in Nat
    PROVE  LET d == Normalise(c, depth)
           IN  /\ d \in Config /\ d.text = c.text /\ d.wifi_auth = c.wifi_auth
               /\ d.auth_mode = c.auth_mode /\ d.connected_led_enabled = c.connected_led_enabled
               /\ d.number["connected_led_gpio"] = c.number["connected_led_gpio"]
               /\ Valid(c) => Valid(d)
               /\ LedConfigurable(d) <=> LedConfigurable(c)
<1>1. PICK i \in Nat, q \in Nat :
         /\ i = OrElse(c.number["upload_interval_ms"], DefaultInterval)
         /\ q = OrElse(c.number["queue_depth"], depth)
      BY DeviceConfigAssumption DEF OrElse, Config, NumberFields
<1> DEFINE e == [c EXCEPT !.number["upload_interval_ms"] = i]
           d == [e EXCEPT !.number["queue_depth"] = q]
<1>2. Normalise(c, depth) = d
      BY <1>1 DEF Normalise, Config, NumberFields
<1>3. /\ e \in Config /\ e.text = c.text /\ e.wifi_auth = c.wifi_auth
      /\ e.auth_mode = c.auth_mode /\ e.connected_led_enabled = c.connected_led_enabled
      /\ e.number["connected_led_gpio"] = c.number["connected_led_gpio"]
      BY NumberSet DEF NumberFields
<1>. HIDE DEF e
<1>4. /\ d \in Config /\ d.text = e.text /\ d.wifi_auth = e.wifi_auth
      /\ d.auth_mode = e.auth_mode /\ d.connected_led_enabled = e.connected_led_enabled
      /\ d.number["connected_led_gpio"] = e.number["connected_led_gpio"]
      BY <1>3, NumberSet DEF NumberFields
<1>. HIDE DEF d
<1>. QED  BY <1>2, <1>3, <1>4 DEF Valid, LedConfigurable

\* A zeroed configuration.
LEMMA EmptyConfigFacts == EmptyConfig \in Config /\ EmptyConfig.text \in [TextFields -> Text \ {"long"}]
BY DEF EmptyConfig, Config, Text

\* The running texts, with those of a BLE apply in the buffers.
LEMMA RunningFacts ==
    ASSUME config \in Config, buffers \in [TextFields -> Text \ {"long"}]
    PROVE  /\ Running \in Config /\ Running.wifi_auth = config.wifi_auth
           /\ Running.text = IF owner = "prov" THEN buffers ELSE config.text
BY DEF Running, Config

\* The pins after one was set.
LEMMA SetLedFacts ==
    ASSUME NEW c, NEW level \in BOOLEAN, led \in [Gpios -> BOOLEAN]
    PROVE  /\ SetLed(c, level) \in [Gpios -> BOOLEAN]
           /\ c.connected_led_enabled /\ LedConfigurable(c)
                => SetLed(c, level)[c.number["connected_led_gpio"]] = level
           /\ \A g \in Gpios : ~level /\ ~led[g] => ~SetLed(c, level)[g]
BY DEF SetLed, SetPin, LedConfigurable

\* A unit of a bound is used.
LEMMA SpendFacts ==
    ASSUME NEW what \in {"fault", "update", "sync", "write", "reset"}, Spend(what),
           spent \in [DOMAIN Limit -> Nat]
    PROVE  /\ spent' \in [DOMAIN Limit -> Nat] /\ spent'["update"] >= spent["update"]
           /\ what = "update" => spent'["update"] = spent["update"] + 1
<1>1. spent' = [spent EXCEPT ![what] = @ + 1]
      BY DEF Spend
<1>2. DOMAIN Limit = {"fault", "update", "sync", "write", "reset"}
      BY WifiLifecycleAssumption
<1>. QED  BY <1>1, <1>2

-----------------------------------------------------------------------------
(* The answer of the time server *)

\* The tokens of one sequence all come from another.
From(part, whole) == \A i \in 1..Len(part) : \E j \in 1..Len(whole) : part[i] = whole[j]

\* Tokens of tokens of the body are tokens of the body.
LEMMA FromTransitive ==
    ASSUME NEW a, NEW b, NEW c, From(a, b), From(b, c)
    PROVE  From(a, c)
<1>. SUFFICES ASSUME NEW i \in 1..Len(a) PROVE \E k \in 1..Len(c) : a[i] = c[k]
     BY DEF From
<1>1. PICK j \in 1..Len(b) : a[i] = b[j]
      BY DEF From
<1>2. PICK k \in 1..Len(c) : b[j] = c[k]
      BY DEF From
<1>. QED  BY <1>1, <1>2

\* A tail of the body holds tokens of the body.
LEMMA SubSeqFrom ==
    ASSUME NEW T, NEW s \in Seq(T), NEW m \in 1..(Len(s) + 1)
    PROVE  SubSeq(s, m, Len(s)) \in Seq(T) /\ From(SubSeq(s, m, Len(s)), s)
<1> DEFINE q == SubSeq(s, m, Len(s))
<1>1. Len(s) \in Nat /\ m \in Int
      OBVIOUS
<1>2. q \in Seq(T) /\ Len(q) = Len(s) - m + 1
      BY <1>1
<1>3. \A i \in 1..Len(q) : q[i] = s[m + i - 1] /\ m + i - 1 \in 1..Len(s)
      BY <1>1, <1>2
<1>. QED  BY <1>2, <1>3 DEF From

\* A set of numbers that is not empty has a smallest one.
LEMMA SmallestNat ==
    ASSUME NEW S \in SUBSET Nat, S # {}
    PROVE  \E i \in S : \A j \in S : i <= j
<1>1. PICK i \in S : \A j \in S : ~(<<j, i>> \in OpToRel(<, Nat))
      BY NatLessThanWellFounded, WFMin, Zenon
<1>2. \A j \in S : j < i => <<j, i>> \in OpToRel(<, Nat)
  <2>1. OpToRel(<, Nat) = {p \in Nat \X Nat : p[1] < p[2]}
        BY Zenon DEF OpToRel
  <2>2. \A j \in S : j < i => <<j, i>> \in {p \in Nat \X Nat : p[1] < p[2]}
        OBVIOUS
  <2>. QED  BY <2>1, <2>2, Zenon
<1>3. i \in Nat /\ \A j \in S : j \in Nat /\ ~(j < i)
      BY <1>1, <1>2
<1>. QED  BY <1>3

\* What stands behind the first token of a kind.
LEMMA AfterFrom ==
    ASSUME NEW s \in Seq(Tokens), NEW kind
    PROVE  After(s, kind) \in Seq(Tokens) /\ From(After(s, kind), s)
<1> DEFINE at == {i \in 1..Len(s) : s[i].kind = kind}
           i == CHOOSE i \in at : \A j \in at : i <= j
<1>1. CASE at = {}
  <2>1. After(s, kind) = <<>>  BY <1>1 DEF After
  <2>. QED  BY <2>1 DEF From
<1>2. CASE at # {}
  <2>1. at \in SUBSET Nat  OBVIOUS
  <2>2. i \in at
        BY <1>2, <2>1, SmallestNat
  <2>3. After(s, kind) = SubSeq(s, i + 1, Len(s))
        BY <1>2 DEF After
  <2>4. i + 1 \in 1..(Len(s) + 1)
        BY <2>2
  <2>. QED  BY <2>3, <2>4, SubSeqFrom
<1>. QED  BY <1>1, <1>2

\* What stands behind blanks.
LEMMA SkipBlanksFrom ==
    ASSUME NEW s \in Seq(Tokens)
    PROVE  SkipBlanks(s) \in Seq(Tokens) /\ From(SkipBlanks(s), s)
<1> DEFINE solid == {i \in 1..Len(s) : s[i].kind # "blank"}
           i == CHOOSE i \in solid : \A j \in solid : i <= j
<1>1. CASE solid = {}
  <2>1. SkipBlanks(s) = <<>>  BY <1>1 DEF SkipBlanks
  <2>. QED  BY <2>1 DEF From
<1>2. CASE solid # {}
  <2>1. solid \in SUBSET Nat  OBVIOUS
  <2>2. i \in solid
        BY <1>2, <2>1, SmallestNat
  <2>3. SkipBlanks(s) = SubSeq(s, i, Len(s))
        BY <1>2 DEF SkipBlanks
  <2>4. i \in 1..(Len(s) + 1)
        BY <2>2
  <2>. QED  BY <2>3, <2>4, SubSeqFrom
<1>. QED  BY <1>1, <1>2

\* What stands behind a quote.
LEMMA SkipQuoteFrom ==
    ASSUME NEW s \in Seq(Tokens)
    PROVE  SkipQuote(s) \in Seq(Tokens) /\ From(SkipQuote(s), s)
<1>1. From(s, s)
      BY DEF From
<1>2. ASSUME s # <<>> PROVE Tail(s) \in Seq(Tokens) /\ From(Tail(s), s)
  <2>1. Tail(s) \in Seq(Tokens) /\ Len(Tail(s)) = Len(s) - 1 /\ Len(s) \in Nat
        BY <1>2
  <2>2. \A i \in 1..Len(Tail(s)) : Tail(s)[i] = s[i + 1] /\ i + 1 \in 1..Len(s)
        BY <1>2, <2>1
  <2>. QED  BY <2>1, <2>2 DEF From
<1>. QED  BY <1>1, <1>2 DEF SkipQuote

\* parse_unix_time_ns() returns a number that stands in the body, or none.
LEMMA ParseFacts ==
    ASSUME NEW s \in Seq(Tokens)
    PROVE  LET t == ParseUnixTimeNs(s)
           IN  /\ t.seconds \in Nat
               /\ t.kind = "number" => \E i \in 1..Len(s) : s[i] = t
<1> DEFINE a == After(s, "key")
           b == After(a, "colon")
           c == SkipBlanks(b)
           rest == SkipQuote(c)
<1>1. a \in Seq(Tokens) /\ From(a, s)  BY AfterFrom
<1>. HIDE DEF a
<1>2. b \in Seq(Tokens) /\ From(b, a)  BY <1>1, AfterFrom
<1>. HIDE DEF b
<1>3. c \in Seq(Tokens) /\ From(c, b)  BY <1>2, SkipBlanksFrom
<1>. HIDE DEF c
<1>4. rest \in Seq(Tokens) /\ From(rest, c)  BY <1>3, SkipQuoteFrom
<1>. HIDE DEF rest
<1>5. From(rest, s)
  <2>1. From(b, s)  BY <1>1, <1>2, FromTransitive
  <2>2. From(c, s)  BY <1>3, <2>1, FromTransitive
  <2>. QED  BY <1>4, <2>2, FromTransitive
<1>6. ParseUnixTimeNs(s) = IF rest # <<>> /\ Head(rest).kind = "number" /\ ~Head(rest).overflows
                           THEN Head(rest) ELSE NoTime
      BY DEF ParseUnixTimeNs, rest, c, b, a
<1>7. CASE rest # <<>>
  <2>1. Head(rest) = rest[1] /\ 1 \in 1..Len(rest) /\ Head(rest) \in Tokens
        BY <1>4, <1>7
  <2>2. \E i \in 1..Len(s) : s[i] = Head(rest)
        BY <1>5, <2>1 DEF From
  <2>3. Head(rest).seconds \in Nat
        BY <2>1 DEF Tokens
  <2>. QED  BY <1>6, <2>2, <2>3 DEF NoTime
<1>8. CASE rest = <<>>
      BY <1>6, <1>8 DEF NoTime
<1>. QED  BY <1>7, <1>8

-----------------------------------------------------------------------------
(* Folds over the pieces of an answer *)

\* Induction up to n, with the set of the numbers that have the property in the
\* place of the property.
LEMMA UpTo ==
    ASSUME NEW n \in Nat, NEW F \in SUBSET (0..n), 0 \in F, \A k \in F : k < n => k + 1 \in F
    PROVE  n \in F
<1> DEFINE N == {n - k : k \in F}
<1>1. \A k \in F : k \in Int /\ n - k \in Nat
      OBVIOUS
<1>2. N \in SUBSET Nat /\ N # {}
      BY <1>1
<1>3. PICK k \in F : \A j \in F : n - k <= n - j
  <2>1. \E x \in N : \A y \in N : x <= y
    <3>. HIDE DEF N
    <3>. QED  BY <1>2, SmallestNat
  <2>. QED  BY <2>1
<1>4. ASSUME k < n PROVE FALSE
  <2>1. k + 1 \in F  BY <1>4
  <2>. QED  BY <1>1, <1>3, <2>1
<1>. QED  BY <1>4

\* Max, of the community modules, is the maximum.
LEMMA MaxFacts ==
    ASSUME NEW n \in Nat, NEW s \in SUBSET (1..n), s # {}
    PROVE  Max(s) \in s /\ \A y \in s : y <= Max(s)
<1> DEFINE N == {n - k : k \in s}
<1>1. \A k \in s : k \in Int /\ n - k \in Nat
      OBVIOUS
<1>2. N \in SUBSET Nat /\ N # {}
      BY <1>1
<1>3. PICK k \in s : \A j \in s : n - k <= n - j
  <2>1. \E x \in N : \A y \in N : x <= y
    <3>. HIDE DEF N
    <3>. QED  BY <1>2, SmallestNat
  <2>. QED  BY <2>1
<1>4. \A j \in s : k >= j
      BY <1>1, <1>3
<1>5. Max(s) \in s /\ \A y \in s : Max(s) >= y
      BY <1>4, Zenon DEF Max
<1>. QED  BY <1>1, <1>5

\* f folds step over every subset of 1..n, the greatest member last.
Folds(f, n, b, step) ==
    f = [s \in SUBSET (1..n) |-> IF s = {} THEN b ELSE step[<<f[s \ {Max(s)}], Max(s)>>]]

\* Such a function exists: the recursion of FoldLeft is well founded.
LEMMA FoldExists ==
    ASSUME NEW n \in Nat, NEW A, NEW b \in A, NEW step \in [A \X (1..n) -> A]
    PROVE  \E f \in [SUBSET (1..n) -> A] : Folds(f, n, b, step)
<1> DEFINE Good(f, k) ==
             /\ f \in [SUBSET (1..k) -> A]
             /\ \A s \in SUBSET (1..k) :
                  f[s] = IF s = {} THEN b ELSE step[<<f[s \ {Max(s)}], Max(s)>>]
           F == {k \in 0..n : \E f : Good(f, k)}
<1>1. 0 \in F
  <2>1. SUBSET (1..0) = {{}}  OBVIOUS
  <2> DEFINE f == [s \in SUBSET (1..0) |-> b]
  <2>2. f \in [SUBSET (1..0) -> A]  OBVIOUS
  <2>3. \A s \in SUBSET (1..0) : s = {} /\ f[s] = b  BY <2>1
  <2>4. Good(f, 0)
    <3>. HIDE DEF f
    <3>. QED  BY <2>2, <2>3, Zenon
  <2>5. 0 \in 0..n  OBVIOUS
  <2>. HIDE DEF Good, f
  <2>. QED  BY <2>4, <2>5
<1>2. ASSUME NEW k \in F, k < n PROVE k + 1 \in F
  <2>1. PICK f : Good(f, k)  OBVIOUS
  <2> DEFINE m == k + 1
             h == [s \in SUBSET (1..m) |-> IF m \in s THEN step[<<f[s \ {m}], m>>] ELSE f[s]]
  <2>2. ASSUME NEW s \in SUBSET (1..m)
        PROVE  /\ s \ {m} \in SUBSET (1..k) /\ (m \notin s => s \in SUBSET (1..k))
               /\ h[s] = IF m \in s THEN step[<<f[s \ {m}], m>>] ELSE f[s]
               /\ h[s] \in A
    <3>1. s \ {m} \in SUBSET (1..k) /\ (m \notin s => s \in SUBSET (1..k)) /\ m \in 1..n
          BY <1>2
    <3>2. f[s \ {m}] \in A /\ (m \notin s => f[s] \in A)
          BY <2>1, <3>1
    <3>3. step[<<f[s \ {m}], m>>] \in A
          BY <3>1, <3>2
    <3>. QED  BY <3>1, <3>2, <3>3
  <2>3. h \in [SUBSET (1..m) -> A]
        BY <2>2
  <2>4. ASSUME NEW s \in SUBSET (1..m)
        PROVE  h[s] = IF s = {} THEN b ELSE step[<<h[s \ {Max(s)}], Max(s)>>]
    <3>. HIDE DEF h
    <3>1. CASE s = {}
      <4>1. {} \in SUBSET (1..k) /\ m \notin s  BY <3>1
      <4>2. f[{}] = b  BY <2>1, <4>1
      <4>. QED  BY <2>2, <3>1, <4>1, <4>2
    <3>2. CASE s # {}
      <4>1. Max(s) \in s /\ \A y \in s : y <= Max(s)
        <5>1. m \in Nat  OBVIOUS
        <5>. HIDE DEF m
        <5>. QED  BY <3>2, <5>1, MaxFacts
      <4>2. CASE m \in s
        <5>1. Max(s) = m
          <6>1. Max(s) \in 1..m /\ m <= Max(s)  BY <4>1, <4>2
          <6>. QED  BY <6>1
        <5>2. s \ {m} \in SUBSET (1..m) /\ m \notin s \ {m}  OBVIOUS
        <5>3. h[s \ {m}] = f[s \ {m}]
          <6>. DEFINE t == s \ {m}
          <6>. HIDE DEF t
          <6>1. t \in SUBSET (1..m) /\ m \notin t  BY <5>2 DEF t
          <6>. QED  BY <2>2, <6>1 DEF t
        <5>. QED  BY <2>2, <3>2, <4>2, <5>1, <5>3
      <4>3. CASE m \notin s
        <5> DEFINE t == s \ {Max(s)}
        <5>1. s \in SUBSET (1..k)  BY <2>2, <4>3
        <5>2. t \in SUBSET (1..m) /\ m \notin t  BY <4>3
        <5>3. f[s] = step[<<f[t], Max(s)>>]  BY <2>1, <3>2, <5>1
        <5>. HIDE DEF t
        <5>4. h[t] = f[t] /\ h[s] = f[s]  BY <2>2, <4>3, <5>2
        <5>5. h[s] = step[<<h[t], Max(s)>>]  BY <5>3, <5>4
        <5>. QED  BY <3>2, <5>5 DEF t
      <4>. QED  BY <4>2, <4>3
    <3>. QED  BY <3>1, <3>2
  <2>5. Good(h, m)
    <3>. HIDE DEF h
    <3>. QED  BY <2>3, <2>4, Zenon
  <2>6. m \in 0..n  BY <1>2
  <2>. HIDE DEF Good, h
  <2>. QED  BY <2>5, <2>6
<1>3. n \in F
  <2>. HIDE DEF F
  <2>1. F \in SUBSET (0..n)  BY DEF F
  <2>. QED  BY <1>1, <1>2, <2>1, UpTo
<1>4. PICK f : Good(f, n)  BY <1>3
<1>5. f = [s \in SUBSET (1..n) |-> f[s]]  BY <1>4
<1>6. f = [s \in SUBSET (1..n) |-> IF s = {} THEN b ELSE step[<<f[s \ {Max(s)}], Max(s)>>]]
      BY <1>4, <1>5
<1>. QED  BY <1>4, <1>6 DEF Folds
\* The sum of the pieces.
Arrived(chunks) == FoldLeft(LAMBDA sum, n : sum + n, 0, chunks)

\* The recursive equations of the two folds over the pieces: the sum of their
\* lengths, and the buffer that collect_http_body() fills.
Sums(f, chunks) ==
    f = [s \in SUBSET DOMAIN chunks |->
           IF s = {} THEN 0 ELSE f[s \ {Max(s)}] + chunks[Max(s)]]

Collects(f, chunks) ==
    f = [s \in SUBSET DOMAIN chunks |->
           IF s = {} THEN [length |-> 0, overflow |-> FALSE]
           ELSE CollectHttpBody(f[s \ {Max(s)}], chunks[Max(s)])]

LEMMA UnfoldFolds ==
    ASSUME NEW chunks
    PROVE  /\ Arrived(chunks) = (CHOOSE f : Sums(f, chunks))[DOMAIN chunks]
           /\ Body(chunks) = (CHOOSE f : Collects(f, chunks))[DOMAIN chunks]
<1>1. Arrived(chunks) = (CHOOSE f : Sums(f, chunks))[DOMAIN chunks]
      BY Zenon DEF Arrived, FoldLeft, MapThenFoldSet, Sums
<1>2. Body(chunks) = (CHOOSE f : Collects(f, chunks))[DOMAIN chunks]
      BY Zenon DEF Body, FoldLeft, MapThenFoldSet, Collects
<1>. QED  BY <1>1, <1>2, Zenon

\* Both equations have a solution.
LEMMA FoldsSolved ==
    ASSUME NEW chunks \in Seq(Nat)
    PROVE  (\E f : Sums(f, chunks)) /\ (\E f : Collects(f, chunks))
<1> DEFINE n == Len(chunks)
           Bodies == [length : Nat, overflow : BOOLEAN]
           empty == [length |-> 0, overflow |-> FALSE]
           add == [x \in Nat \X (1..n) |-> x[1] + chunks[x[2]]]
           collect == [x \in Bodies \X (1..n) |-> CollectHttpBody(x[1], chunks[x[2]])]
<1>1. n \in Nat /\ DOMAIN chunks = 1..n /\ \A i \in 1..n : chunks[i] \in Nat
      OBVIOUS
<1>2. add \in [Nat \X (1..n) -> Nat]
      BY <1>1
<1>3. collect \in [Bodies \X (1..n) -> Bodies] /\ empty \in Bodies
  <2>1. ASSUME NEW x \in Bodies, NEW k \in Nat PROVE CollectHttpBody(x, k) \in Bodies
        BY <2>1, TimeSyncAssumption DEF CollectHttpBody
  <2>2. \A x \in Bodies \X (1..n) : x[1] \in Bodies /\ chunks[x[2]] \in Nat
        BY <1>1
  <2>3. \A x \in Bodies \X (1..n) : CollectHttpBody(x[1], chunks[x[2]]) \in Bodies
        BY <2>1, <2>2
  <2>4. empty \in Bodies
        OBVIOUS
  <2>. QED  BY <2>3, <2>4
<1>. HIDE DEF n
<1>4. PICK f \in [SUBSET (1..n) -> Nat] : Folds(f, n, 0, add)
  <2>. HIDE DEF add
  <2>1. 0 \in Nat  OBVIOUS
  <2>. QED  BY <1>1, <1>2, <2>1, FoldExists
<1>5. PICK g \in [SUBSET (1..n) -> Bodies] : Folds(g, n, empty, collect)
  <2>. HIDE DEF collect, Bodies, empty
  <2>. QED  BY <1>1, <1>3, FoldExists

<1>6. ASSUME NEW s \in SUBSET (1..n), s # {}
      PROVE  /\ s \ {Max(s)} \in SUBSET (1..n) /\ Max(s) \in 1..n
             /\ f[s] = f[s \ {Max(s)}] + chunks[Max(s)]
             /\ g[s] = CollectHttpBody(g[s \ {Max(s)}], chunks[Max(s)])
  <2> DEFINE m == Max(s)
             t == s \ {m}
  <2>1. t \in SUBSET (1..n) /\ m \in 1..n
        BY <1>1, <1>6, MaxFacts
  <2>2. f[s] = add[<<f[t], m>>]
        BY <1>4, <1>6, Zenon DEF Folds
  <2>3. g[s] = collect[<<g[t], m>>]
        BY <1>5, <1>6, Zenon DEF Folds
  <2>. HIDE DEF m, t
  <2>4. <<f[t], m>> \in Nat \X (1..n) /\ <<g[t], m>> \in Bodies \X (1..n)
    <3>. HIDE DEF Bodies
    <3>. QED  BY <1>4, <1>5, <2>1
  <2>5. f[s] = f[t] + chunks[m]
        BY <2>2, <2>4
  <2>6. g[s] = CollectHttpBody(g[t], chunks[m])
    <3>. HIDE DEF Bodies
    <3>. QED  BY <2>3, <2>4
  <2>. QED  BY <2>1, <2>5, <2>6 DEF m, t
<1>7. f[{}] = 0 /\ g[{}] = empty
      BY <1>4, <1>5, Zenon DEF Folds
<1>. HIDE DEF add, collect, empty, Bodies
<1>8. Sums(f, chunks)
  <2>1. f = [s \in SUBSET (1..n) |-> f[s]]
        BY <1>4
  <2>2. \A s \in SUBSET (1..n) : f[s] = IF s = {} THEN 0 ELSE f[s \ {Max(s)}] + chunks[Max(s)]
        BY <1>6, <1>7
  <2>3. f = [s \in SUBSET (1..n) |-> IF s = {} THEN 0 ELSE f[s \ {Max(s)}] + chunks[Max(s)]]
        BY <2>1, <2>2
  <2>. QED  BY <1>1, <2>3, Zenon DEF Sums
<1>9. Collects(g, chunks)
  <2>1. g = [s \in SUBSET (1..n) |-> g[s]]
        BY <1>5
  <2>2. \A s \in SUBSET (1..n) :
          g[s] = IF s = {} THEN empty ELSE CollectHttpBody(g[s \ {Max(s)}], chunks[Max(s)])
        BY <1>6, <1>7
  <2>3. g = [s \in SUBSET (1..n) |->
               IF s = {} THEN empty ELSE CollectHttpBody(g[s \ {Max(s)}], chunks[Max(s)])]
        BY <2>1, <2>2
  <2>. QED  BY <1>1, <2>3, Zenon DEF Collects, empty
<1>. QED  BY <1>8, <1>9

\* An answer whose buffer did not overflow arrived whole: its pieces add up to what
\* is in the buffer, with room for the terminator.
LEMMA WholeFits ==
    ASSUME NEW chunks \in Seq(Nat), ~Body(chunks).overflow
    PROVE  Arrived(chunks) < BodyCapacity
<1> DEFINE n == Len(chunks)
           f == CHOOSE x : Sums(x, chunks)
           g == CHOOSE x : Collects(x, chunks)
           F == {k \in 0..n : /\ f[1..k] \in Nat
                              /\ g[1..k].overflow \in BOOLEAN
                              /\ ~g[1..k].overflow =>
                                    g[1..k].length = f[1..k] /\ f[1..k] < BodyCapacity}
<1>1. n \in Nat /\ DOMAIN chunks = 1..n /\ \A i \in 1..n : chunks[i] \in Nat
      OBVIOUS
<1>2. Sums(f, chunks) /\ Collects(g, chunks)
      BY FoldsSolved, Zenon
<1>3. Arrived(chunks) = f[1..n] /\ Body(chunks) = g[1..n]
      BY <1>1, UnfoldFolds
<1>. HIDE DEF n, f, g
<1>4. 0 \in F
  <2>1. 1..0 = {} /\ {} \in SUBSET DOMAIN chunks  OBVIOUS
  <2>2. f[{}] = 0 /\ g[{}] = [length |-> 0, overflow |-> FALSE]
        BY <1>2, <2>1, Zenon DEF Sums, Collects
  <2>3. f[1..0] = 0 /\ g[1..0] = [length |-> 0, overflow |-> FALSE]
        BY <2>1, <2>2
  <2>4. /\ f[1..0] = 0 /\ g[1..0].length = 0 /\ g[1..0].overflow = FALSE
        /\ 0 < BodyCapacity /\ 0 \in 0..n
        BY <1>1, <2>3, TimeSyncAssumption
  <2>5. /\ f[1..0] \in Nat /\ g[1..0].length = f[1..0] /\ f[1..0] < BodyCapacity
        BY <2>4
  <2>6. g[1..0].overflow \in BOOLEAN
        BY <2>4
  <2>. QED  BY <2>4, <2>5, <2>6, Zenon
<1>5. ASSUME NEW k \in F, k < n PROVE k + 1 \in F
  <2> DEFINE m == k + 1
             c == chunks[m]
  <2>1. m \in 1..n /\ m \in 0..n /\ c \in Nat /\ k \in 0..n
        BY <1>1, <1>5
  <2>2. 1..m \in SUBSET DOMAIN chunks /\ 1..m # {} /\ 1..m \in SUBSET (1..n)
    <3>. HIDE DEF m
    <3>1. m \in 1..m /\ 1..m \subseteq 1..n  BY <1>1, <2>1
    <3>. QED  BY <1>1, <3>1
  <2>3. Max(1..m) = m
    <3>1. m \in 1..m  BY <2>1
    <3>2. Max(1..m) \in 1..m /\ m <= Max(1..m)  BY <1>1, <2>2, <3>1, MaxFacts
    <3>. QED  BY <2>1, <3>2
  <2>4. (1..m) \ {m} = 1..k
        BY <2>1
  <2>5. f[1..m] = f[1..k] + c
    <3>1. f[1..m] = f[(1..m) \ {Max(1..m)}] + chunks[Max(1..m)]
          BY <1>2, <2>2, Zenon DEF Sums
    <3>. QED  BY <2>3, <2>4, <3>1
  <2>6. g[1..m] = CollectHttpBody(g[1..k], c)
    <3>1. g[1..m] = CollectHttpBody(g[(1..m) \ {Max(1..m)}], chunks[Max(1..m)])
          BY <1>2, <2>2, Zenon DEF Collects
    <3>. QED  BY <2>3, <2>4, <3>1
  <2> DEFINE fits == g[1..k].length + c < BodyCapacity
  <2>7. /\ g[1..m].overflow = (g[1..k].overflow \/ ~fits)
        /\ g[1..m].length = IF fits THEN g[1..k].length + c ELSE BodyCapacity - 1
        BY <2>6 DEF CollectHttpBody
  <2>8. /\ f[1..k] \in Nat /\ g[1..k].overflow \in BOOLEAN
        /\ ~g[1..k].overflow => g[1..k].length = f[1..k] /\ f[1..k] < BodyCapacity
        OBVIOUS
  <2>. HIDE DEF m, c
  <2>9. f[1..m] \in Nat  BY <2>1, <2>5, <2>8
  <2>10. ASSUME ~g[1..m].overflow
         PROVE  g[1..m].length = f[1..m] /\ f[1..m] < BodyCapacity
    <3>1. ~g[1..k].overflow /\ fits  BY <2>7, <2>10
    <3>2. g[1..k].length = f[1..k]  BY <2>8, <3>1
    <3>. QED  BY <2>5, <2>7, <3>1, <3>2
  <2>11. g[1..m].overflow \in BOOLEAN  BY <2>7
  <2>. QED  BY <2>1, <2>9, <2>10, <2>11 DEF m
<1>6. n \in F
  <2>. HIDE DEF F
  <2>1. F \in SUBSET (0..n)  BY DEF F
  <2>. QED  BY <1>1, <1>4, <1>5, <2>1, UpTo
<1>. QED  BY <1>3, <1>6

-----------------------------------------------------------------------------
(* The clock *)

\* The clock is set, if at all, to a plausible time that stands in an answer with a
\* 2xx status that the transport delivered and the buffer held.
LEMMA SyncRtcFacts ==
    ASSUME SyncRtc
    PROVE  rtc' = rtc \/ \E a \in Answers :
              /\ ~a.err /\ a.status \in 200..299 /\ ~Body(a.chunks).overflow
              /\ \E i \in 1..Len(a.body) : a.body[i].kind = "number" /\ a.body[i].seconds = rtc'
              /\ rtc' >= RtcValidAfter /\ rtc' \in Nat
<1>1. PICK a \in Answers :
         LET time == IF ResolvesTimeUrl(Running.text) THEN FetchServerTimeNs(a) ELSE NoTime
         IN  rtc' = IF SetsRtc(time) THEN time.seconds ELSE rtc
      BY DEF SyncRtc
<1> DEFINE time == IF ResolvesTimeUrl(Running.text) THEN FetchServerTimeNs(a) ELSE NoTime
<1>2. CASE ~SetsRtc(time)
      BY <1>1, <1>2
<1>3. CASE SetsRtc(time)
  <2>1. time = FetchServerTimeNs(a) /\ time = ParseUnixTimeNs(a.body)
        /\ ~a.err /\ a.status \in 200..299 /\ ~Body(a.chunks).overflow
        BY <1>3 DEF SetsRtc, NoTime, FetchServerTimeNs
  <2>2. a.body \in Seq(Tokens)
        BY WifiLifecycleAssumption DEF HttpAnswers
  <2>3. time.kind = "number" /\ time.seconds >= RtcValidAfter /\ rtc' = time.seconds
        BY <1>1, <1>3 DEF SetsRtc
  <2>. HIDE DEF time
  <2>4. time.seconds \in Nat /\ \E i \in 1..Len(a.body) : a.body[i] = time
        BY <2>1, <2>2, <2>3, ParseFacts
  <2>. QED  BY <2>1, <2>3, <2>4
<1>. QED  BY <1>2, <1>3

-----------------------------------------------------------------------------
(* The events and the bounds *)

\* The events of the driver.
Events == {"START", "DISCONNECTED", "GOT_IP"}

\* Where a call of aetus_update_config() may be.
UpdatePcs == {"none", "led", "lit", "dark", "timer", "disconnect", "unlight", "flag", "drop",
              "apply", "applied", "failed", "connect"}

\* How many calls of aetus_update_config() are about to disconnect.
AboutToDisconnect == Disconnecting("app") + Disconnecting("ble")

\* Every step keeps within the bounds of its model.
LEMMA SpentStep ==
    ASSUME TypeOK, Next
    PROVE  spent' \in [DOMAIN Limit -> Nat] /\ spent'["update"] >= spent["update"]
<1> DEFINE Goal == spent' \in [DOMAIN Limit -> Nat] /\ spent'["update"] >= spent["update"]
<1>0. spent \in [DOMAIN Limit -> Nat]
      BY DEF TypeOK
<1>1. ASSUME UNCHANGED spent PROVE Goal
  <2>1. DOMAIN Limit = {"fault", "update", "sync", "write", "reset"}
        BY WifiLifecycleAssumption
  <2>2. spent["update"] \in Nat  BY <1>0, <2>1
  <2>. QED  BY <1>0, <1>1, <2>2
<1>2. ASSUME NEW k \in {"fault", "update", "sync", "write", "reset"}, Spend(k) PROVE Goal
      BY <1>0, <1>2, SpendFacts
<1>. HIDE DEF Goal
<1>3. ASSUME WifiStep PROVE Goal
  <2>1. ASSUME NEW c \in BootConfigs, AetusStart(c) PROVE Goal
        BY <1>1, <1>2, <2>1 DEF AetusStart
  <2>2. ASSUME NEW c \in AppConfigs, UpdateConfig("app", c, "app") PROVE Goal
        BY <1>2, <2>2 DEF UpdateConfig
  <2>3. CASE LinkUp \/ LinkDown \/ HandleEvent \/ HandlerLed \/ HandlerCheck \/ SyncRtc
        BY <1>1, <2>3 DEF LinkUp, LinkDown, HandleEvent, HandlerLed, HandlerCheck, SyncRtc
  <2>4. CASE HandlerConnect
        BY <1>1, <1>2, <2>4 DEF HandlerConnect, EspWifiConnect
  <2>5. ASSUME NEW t \in Waiters, WifiBegin(t) \/ WifiStarted(t) \/ WifiWaited(t) PROVE Goal
        BY <1>1, <1>2, <2>5 DEF WifiBegin, WifiStarted, WifiWaited
  <2>6. ASSUME NEW t \in Waiters, WifiStart(t) PROVE Goal
        BY <1>1, <1>2, <2>6 DEF WifiStart, ApplyFails
  <2>7. ASSUME NEW w \in Callers, UpdateStep(w) PROVE Goal
    <3>1. UNCHANGED spent \/ Spend("fault")
          BY <2>7, Zenon DEF UpdateStep, UpdateReadsBit, UpdateLed, UpdateTimer, UpdateClear,
             UpdateUnlight, UpdateFlag, UpdateDrop, UpdateApply, UpdateUnflag, UpdateConnect,
             ApplyFails, EspWifiConnect
    <3>. QED  BY <1>1, <1>2, <3>1
  <2>. QED  BY <1>3, <2>1, <2>2, <2>3, <2>4, <2>5, <2>6, <2>7 DEF WifiStep
<1>4. ASSUME StartProvisioning PROVE Goal
  <2>1. UNCHANGED spent \/ Spend("fault")
        BY <1>4, Zenon DEF StartProvisioning
  <2>. QED  BY <1>1, <1>2, <2>1
<1>5. ASSUME HostStep PROVE Goal
  <2>1. CASE OnSync \/ OnReset \/ GapConnect \/ GapRetry \/ GapDisconnect \/ DisconnectTimeout
        BY <1>1, <1>2, <2>1 DEF OnSync, OnReset, GapConnect, GapRetry, GapDisconnect,
           DisconnectTimeout, Advertise
  <2>2. ASSUME ClientWrites PROVE Goal
        BY <1>2, <2>2 DEF ClientWrites
  <2>3. CASE WriteApply
        BY <1>2, <2>3 DEF WriteApply, UpdateConfig
  <2>. QED  BY <1>5, <2>1, <2>2, <2>3 DEF HostStep, WriteText, WriteNumber, WriteAuth, WriteLedEnabled
<1>6. ASSUME Panic PROVE Goal
  <2>1. UNCHANGED spent
        BY <1>6, Zenon DEF Panic, WifiReset
  <2>. QED  BY <1>1, <2>1
<1>. QED  BY <1>3, <1>4, <1>5, <1>6 DEF Next, Goal

\* The parts of the type invariant that these bounds are about.
LEMMA EventTypes ==
    ASSUME TypeOK
    PROVE  /\ events \in Seq(Events) /\ Len(events) \in Nat
           /\ update \in [Callers -> UpdatePcs]
           /\ spent \in [DOMAIN Limit -> Nat] /\ spent["update"] \in Nat
           /\ MaxEvents \in Nat
<1>1. /\ events \in Seq(Events) /\ spent \in [DOMAIN Limit -> Nat]
      /\ update \in [Callers -> UpdatePcs]
      BY DEF TypeOK, Events, UpdatePcs
<1>2. "update" \in DOMAIN Limit /\ MaxEvents \in Nat
      BY WifiLifecycleAssumption
<1>. QED  BY <1>1, <1>2

\* How a step may change the three numbers: m events that wait, k calls about to
\* disconnect and v calls made become n, d and u.
Moves(n, d, u, m, k, v) ==
    \/ n <= m /\ d <= k /\ u >= v
    \/ n <= MaxEvents /\ d <= k /\ u >= v
    \/ n <= m /\ d <= k + 1 /\ u = v + 1
    \/ n <= m + 1 /\ d + 1 <= k /\ u >= v

\* No such step exceeds the bounds.
LEMMA Arithmetic ==
    ASSUME NEW n \in Nat, NEW d \in Nat, NEW u \in Nat, NEW m \in Nat, NEW k \in Nat,
           NEW v \in Nat, k <= v, m + k <= MaxEvents + v, Moves(n, d, u, m, k, v)
    PROVE  d <= u /\ n + d <= MaxEvents + u
<1>1. MaxEvents \in Nat
      BY WifiLifecycleAssumption
<1>. QED  BY <1>1 DEF Moves

\* The bounds on the events, from how each step changes the three numbers.
LEMMA BoundArithmetic ==
    ASSUME TypeOK, EventBound,
           Len(events') \in Nat, AboutToDisconnect' \in Nat, spent'["update"] \in Nat,
           Moves(Len(events'), AboutToDisconnect', spent'["update"],
                 Len(events), AboutToDisconnect, spent["update"])
    PROVE  EventBound'
<1>1. /\ Len(events) \in Nat /\ spent["update"] \in Nat /\ MaxEvents \in Nat
      /\ Disconnecting("app") \in Nat /\ Disconnecting("ble") \in Nat
      /\ Disconnecting("app")' \in Nat /\ Disconnecting("ble")' \in Nat
      BY EventTypes DEF Disconnecting
<1>2. AboutToDisconnect \in Nat
      BY <1>1 DEF AboutToDisconnect
<1>3. /\ AboutToDisconnect <= spent["update"]
      /\ Len(events) + AboutToDisconnect <= MaxEvents + spent["update"]
      BY <1>1 DEF EventBound, AboutToDisconnect
<1>4. /\ AboutToDisconnect' <= spent'["update"]
      /\ Len(events') + AboutToDisconnect' <= MaxEvents + spent'["update"]
      BY <1>1, <1>2, <1>3, Arithmetic
<1>. QED  BY <1>1, <1>4 DEF EventBound, AboutToDisconnect

\* The number of calls about to disconnect when one of them moves.
LEMMA CountMoves ==
    ASSUME TypeOK, NEW w \in Callers, NEW to, update' = [update EXCEPT ![w] = to]
    PROVE  /\ AboutToDisconnect \in Nat /\ AboutToDisconnect' \in Nat
           /\ AboutToDisconnect' <= AboutToDisconnect + 1
           /\ to \notin Undropped \/ update[w] \in Undropped
                => AboutToDisconnect' <= AboutToDisconnect
           /\ to \notin Undropped /\ update[w] \in Undropped
                => AboutToDisconnect' + 1 <= AboutToDisconnect
<1>1. CASE w = "app"
  <2>1. update'["ble"] = update["ble"] /\ update'["app"] = to
        BY <1>1 DEF TypeOK, Callers
  <2>. QED  BY <1>1, <2>1 DEF AboutToDisconnect, Disconnecting
<1>2. CASE w = "ble"
  <2>1. update'["app"] = update["app"] /\ update'["ble"] = to
        BY <1>2 DEF TypeOK, Callers
  <2>. QED  BY <1>2, <2>1 DEF AboutToDisconnect, Disconnecting
<1>. QED  BY <1>1, <1>2 DEF Callers

\* A step that leaves the events and the updates alone.
LEMMA BoundFrame ==
    ASSUME TypeOK, EventBound, Next, UNCHANGED <<events, update>>
    PROVE  events' \in Seq(Events) /\ EventBound'
<1>1. Len(events') \in Nat /\ Len(events') <= Len(events) /\ events' \in Seq(Events)
      BY EventTypes
<1>2. AboutToDisconnect' \in Nat /\ AboutToDisconnect' <= AboutToDisconnect
      BY DEF AboutToDisconnect, Disconnecting
<1>3. spent'["update"] \in Nat /\ spent'["update"] >= spent["update"]
      BY SpentStep, WifiLifecycleAssumption
<1>4. EventBound'
      BY <1>1, <1>2, <1>3, BoundArithmetic DEF Moves
<1>. QED  BY <1>1, <1>4

\* A step in which the driver sends an event, or the handler takes one.
LEMMA BoundEvent ==
    ASSUME TypeOK, EventBound, Next, UNCHANGED update,
           \/ \E e \in Events : Emit(e)
           \/ events # <<>> /\ events' = Tail(events)
           \/ UNCHANGED events
    PROVE  events' \in Seq(Events) /\ EventBound'
<1>0. events \in Seq(Events) /\ Len(events) \in Nat /\ MaxEvents \in Nat
      BY EventTypes
<1>1. AboutToDisconnect' \in Nat /\ AboutToDisconnect' <= AboutToDisconnect
      BY DEF AboutToDisconnect, Disconnecting
<1>2. spent'["update"] \in Nat /\ spent'["update"] >= spent["update"]
      BY SpentStep, WifiLifecycleAssumption
<1>3. CASE \E e \in Events : Emit(e)
  <2>1. PICK e \in Events : Len(events) < MaxEvents /\ events' = Append(events, e)
        BY <1>3 DEF Emit
  <2>2. events' \in Seq(Events) /\ Len(events') = Len(events) + 1
        BY <1>0, <2>1
  <2>3. Len(events') \in Nat /\ Len(events') <= MaxEvents
        BY <1>0, <2>1, <2>2
  <2>. QED  BY <1>1, <1>2, <2>2, <2>3, BoundArithmetic DEF Moves
<1>4. CASE events # <<>> /\ events' = Tail(events)
  <2>1. events' \in Seq(Events) /\ Len(events') = Len(events) - 1 /\ Len(events') \in Nat
        BY <1>0, <1>4
  <2>2. Len(events') <= Len(events)
        BY <1>0, <2>1
  <2>. QED  BY <1>1, <1>2, <2>1, <2>2, BoundArithmetic DEF Moves
<1>5. CASE UNCHANGED events
      BY <1>5, BoundFrame
<1>. QED  BY <1>3, <1>4, <1>5

\* The steps of aetus_update_config().
LEMMA BoundUpdate ==
    ASSUME TypeOK, EventBound, Next, NEW w \in Callers, NEW from, NEW to, UpdateAt(w, from, to),
           \/ UNCHANGED events /\ (to \notin Undropped \/ from \in Undropped)
           \/ UNCHANGED events /\ Spend("update")
           \/ from \in Undropped /\ to \notin Undropped
              /\ events' = Append(events, "DISCONNECTED")
    PROVE  events' \in Seq(Events) /\ EventBound'
<1>0. events \in Seq(Events) /\ Len(events) \in Nat
      BY EventTypes
<1>1. update[w] = from /\ update' = [update EXCEPT ![w] = to]
      BY DEF UpdateAt
<1>2. /\ AboutToDisconnect \in Nat /\ AboutToDisconnect' \in Nat
      /\ AboutToDisconnect' <= AboutToDisconnect + 1
      /\ to \notin Undropped \/ update[w] \in Undropped
           => AboutToDisconnect' <= AboutToDisconnect
      /\ to \notin Undropped /\ update[w] \in Undropped
           => AboutToDisconnect' + 1 <= AboutToDisconnect
      BY <1>1, CountMoves
<1>3. spent'["update"] \in Nat /\ spent'["update"] >= spent["update"]
      BY SpentStep, WifiLifecycleAssumption
<1>4. CASE UNCHANGED events /\ (to \notin Undropped \/ from \in Undropped)
  <2>1. Len(events') \in Nat /\ Len(events') <= Len(events)  BY <1>0, <1>4
  <2>. QED  BY <1>0, <1>1, <1>2, <1>3, <1>4, <2>1, BoundArithmetic DEF Moves
<1>5. CASE UNCHANGED events /\ Spend("update")
  <2>1. Len(events') \in Nat /\ Len(events') <= Len(events)  BY <1>0, <1>5
  <2>2. spent'["update"] = spent["update"] + 1  BY <1>5, SpendFacts DEF TypeOK
  <2>. QED  BY <1>0, <1>2, <1>3, <1>5, <2>1, <2>2, BoundArithmetic DEF Moves
<1>6. CASE from \in Undropped /\ to \notin Undropped /\ events' = Append(events, "DISCONNECTED")
  <2>1. /\ events' \in Seq(Events) /\ Len(events') \in Nat /\ Len(events') = Len(events) + 1
        BY <1>0, <1>6 DEF Events
  <2>2. Len(events') <= Len(events) + 1  BY <1>0, <2>1
  <2>. QED  BY <1>1, <1>2, <1>3, <1>6, <2>1, <2>2, BoundArithmetic DEF Moves
<1>. QED  BY <1>4, <1>5, <1>6

-----------------------------------------------------------------------------
(* The steps of the runtime and of the driver, and all the others. *)

\* What the runtime, the driver and the handler work on.
core == <<made, config, owner, connected, led, outdated, wifi_started, wifi_reconfiguring, netif,
          sta, eap, link, events, handler, start, update, refused>>

\* aetus_update_config(), called by the application or by the host task.
Updates(w, c, texts) == UpdateConfig(w, c, texts) /\ texts = (IF w = "app" THEN "app" ELSE "prov")

\* The steps that may change it.
CoreStep ==
    \/ \E c \in BootConfigs : AetusStart(c)
    \/ \E w \in Callers, c \in Config, texts \in {"app", "prov"} : Updates(w, c, texts)
    \/ LinkUp \/ LinkDown \/ HandleEvent \/ HandlerLed \/ HandlerCheck \/ HandlerConnect \/ SyncRtc
    \/ \E t \in Waiters : WifiBegin(t) \/ WifiStart(t) \/ WifiStarted(t) \/ WifiWaited(t)
    \/ \E w \in Callers : UpdateStep(w)
    \/ Panics /\ WifiReset

\* The configuration that `apply` passes on.
LEMMA PendingFacts ==
    ASSUME TypeOK
    PROVE  [pending EXCEPT !.text = buffers] \in Config
<1>1. pending \in Config /\ buffers \in [TextFields -> Text]
      BY DEF TypeOK
<1>. QED  BY <1>1 DEF Config

\* Starting the service, GAP events and GATT writes other than
\* `apply` touch nothing of it.
LEMMA QuietSteps ==
    ASSUME StartProvisioning \/ (HostStep /\ ~WriteApply)
    PROVE  UNCHANGED core
<1>1. CASE StartProvisioning
      BY <1>1 DEF StartProvisioning, core, shown, flags, radio, history
<1>2. CASE HostStep /\ ~WriteApply
  <2>1. CASE OnSync \/ OnReset \/ GapConnect \/ GapRetry \/ GapDisconnect \/ DisconnectTimeout
        BY <2>1 DEF OnSync, OnReset, GapConnect, GapRetry, GapDisconnect, DisconnectTimeout,
           hostOnly, core, runtime, shown, flags, radio, history
  <2>2. ASSUME NEW f, NEW x, WriteText(f, x) \/ WriteNumber(f, x) \/ WriteAuth(x) \/ WriteLedEnabled(x)
        PROVE  UNCHANGED core
        BY <2>2 DEF WriteText, WriteNumber, WriteAuth, WriteLedEnabled, writeOnly, core, runtime,
           shown, flags, radio, history
  <2>. QED  BY <1>2, <2>1, <2>2 DEF HostStep
<1>. QED  BY <1>1, <1>2

\* Every step is one of the two kinds.
LEMMA CoreCases ==
    ASSUME TypeOK, Next
    PROVE  CoreStep \/ UNCHANGED core
<1>1. ASSUME WifiStep PROVE CoreStep
  <2>1. ASSUME NEW c \in AppConfigs, UpdateConfig("app", c, "app") PROVE CoreStep
    <3>1. c \in Config  BY WifiLifecycleAssumption
    <3>2. Updates("app", c, "app")  BY <2>1 DEF Updates
    <3>. QED  BY <3>1, <3>2 DEF CoreStep, Callers
  <2>. QED  BY <1>1, <2>1 DEF WifiStep, CoreStep
<1>2. ASSUME WriteApply PROVE CoreStep
  <2>1. Updates("ble", [pending EXCEPT !.text = buffers], "prov")
        BY <1>2 DEF WriteApply, Updates
  <2>. QED  BY <2>1, PendingFacts DEF CoreStep, Callers
<1>3. ASSUME Panic PROVE CoreStep
      BY <1>3, Zenon DEF Panic, CoreStep
<1>. QED  BY <1>1, <1>2, <1>3, QuietSteps DEF Next

\* How a call of aetus_update_config() moves, and that only its esp_wifi_disconnect()
\* adds an event.
LEMMA UpdateMoves ==
    ASSUME NEW w \in Callers, UpdateStep(w)
    PROVE  \E from \in UpdatePcs \ {"none"}, to \in UpdatePcs :
              /\ UpdateAt(w, from, to) /\ (to \notin Undropped \/ from \in Undropped)
              /\ \/ UNCHANGED events
                 \/ /\ from \in Undropped /\ to \notin Undropped
                    /\ events' = Append(events, "DISCONNECTED")
<1>. USE DEF UpdatePcs, Undropped, Showing, Clearing, UpdateAt
<1>1. CASE UpdateReadsBit(w)  BY <1>1 DEF UpdateReadsBit
<1>2. CASE UpdateLed(w)  BY <1>2 DEF UpdateLed
<1>3. CASE UpdateTimer(w)  BY <1>3 DEF UpdateTimer
<1>4. CASE UpdateClear(w)  BY <1>4 DEF UpdateClear
<1>5. CASE UpdateUnlight(w)  BY <1>5 DEF UpdateUnlight
<1>6. CASE UpdateFlag(w)  BY <1>6 DEF UpdateFlag
<1>7. CASE UpdateDrop(w)  BY <1>7 DEF UpdateDrop
<1>8. CASE UpdateApply(w)  BY <1>8 DEF UpdateApply
<1>9. CASE UpdateUnflag(w)  BY <1>9 DEF UpdateUnflag
<1>10. CASE UpdateConnect(w)  BY <1>10 DEF UpdateConnect
<1>. QED  BY <1>1, <1>2, <1>3, <1>4, <1>5, <1>6, <1>7, <1>8, <1>9, <1>10 DEF UpdateStep

\* What it leaves alone after its assignment.
LEMMA UpdateFrame ==
    ASSUME NEW w \in Callers, UpdateStep(w)
    PROVE  /\ UNCHANGED <<config, owner, buffers, wifi_started, netif, handler, start, rtc>>
           /\ made' = made \/ (made = TaskMade /\ made' = AllMade)
           /\ connected' = connected \/ connected' = FALSE
           /\ \/ link' = link
              \/ link = "idle" /\ link' = "connecting"
              \/ link \in {"connecting", "up"} /\ link' = "idle"
<1>. USE DEF runtime, shown, flags, radio, history
<1>1. CASE UpdateReadsBit(w)  BY <1>1 DEF UpdateReadsBit
<1>2. CASE UpdateLed(w)  BY <1>2 DEF UpdateLed
<1>3. CASE UpdateTimer(w)  BY <1>3 DEF UpdateTimer
<1>4. CASE UpdateClear(w)  BY <1>4 DEF UpdateClear
<1>5. CASE UpdateUnlight(w)  BY <1>5 DEF UpdateUnlight
<1>6. CASE UpdateFlag(w)  BY <1>6 DEF UpdateFlag
<1>7. CASE UpdateDrop(w)  BY <1>7 DEF UpdateDrop
<1>8. CASE UpdateApply(w)  BY <1>8 DEF UpdateApply
<1>9. CASE UpdateUnflag(w)  BY <1>9 DEF UpdateUnflag
<1>10. CASE UpdateConnect(w)  BY <1>10 DEF UpdateConnect, EspWifiConnect
<1>. QED  BY <1>1, <1>2, <1>3, <1>4, <1>5, <1>6, <1>7, <1>8, <1>9, <1>10 DEF UpdateStep

-----------------------------------------------------------------------------
(* Types *)

\* Every core step keeps the bounds on the events.
LEMMA EventStep ==
    ASSUME TypeOK, EventBound, Next
    PROVE  events' \in Seq(Events) /\ EventBound'
<1> DEFINE Goal == events' \in Seq(Events) /\ EventBound'
<1>1. ASSUME UNCHANGED <<events, update>> PROVE Goal
      BY <1>1, BoundFrame
<1>2. ASSUME NEW e \in Events, Emit(e), UNCHANGED update PROVE Goal
      BY <1>2, BoundEvent
<1>. HIDE DEF Goal
<1>3. ASSUME UNCHANGED core PROVE Goal
      BY <1>1, <1>3 DEF core
<1>4. ASSUME NEW c \in BootConfigs, AetusStart(c) PROVE Goal
      BY <1>1, <1>4 DEF AetusStart
<1>5. ASSUME NEW w \in Callers, NEW c \in Config, NEW texts \in {"app", "prov"},
             Updates(w, c, texts)
      PROVE  Goal
  <2>1. UpdateConfig(w, c, texts) /\ UNCHANGED events /\ Spend("update")
        BY <1>5 DEF Updates, UpdateConfig
  <2>2. CASE UNCHANGED update
        BY <1>1, <2>1, <2>2
  <2>3. CASE \E to : UpdateAt(w, "none", to)
        BY <2>1, <2>3, BoundUpdate DEF Goal
  <2>. QED  BY <2>1, <2>2, <2>3, Zenon DEF UpdateConfig
<1>6. ASSUME LinkUp \/ LinkDown PROVE Goal
      BY <1>2, <1>6 DEF LinkUp, LinkDown, Events
<1>7. ASSUME HandleEvent PROVE Goal
      BY <1>7, BoundEvent DEF HandleEvent, Goal
<1>8. ASSUME HandlerLed \/ HandlerCheck \/ HandlerConnect \/ SyncRtc PROVE Goal
      BY <1>1, <1>8 DEF HandlerLed, HandlerCheck, HandlerConnect, SyncRtc
<1>9. ASSUME NEW t \in Waiters, WifiBegin(t) \/ WifiStarted(t) \/ WifiWaited(t) PROVE Goal
      BY <1>1, <1>9 DEF WifiBegin, WifiStarted, WifiWaited
<1>10. ASSUME NEW t \in Waiters, WifiStart(t) PROVE Goal
  <2>1. UNCHANGED update /\ (Emit("START") \/ UNCHANGED events)
        BY <1>10, Zenon DEF WifiStart
  <2>. QED  BY <1>1, <1>2, <2>1 DEF Events
<1>11. ASSUME NEW w \in Callers, UpdateStep(w) PROVE Goal
      BY <1>11, UpdateMoves, BoundUpdate DEF Goal
<1>12. ASSUME WifiReset PROVE Goal
  <2>1. events' = <<>> /\ update' = [w \in Callers |-> "none"] /\ UNCHANGED spent
        BY <1>12, Zenon DEF WifiReset
  <2>2. Disconnecting("app")' = 0 /\ Disconnecting("ble")' = 0
        BY <2>1 DEF Disconnecting, Callers, Undropped, Showing, Clearing
  <2>3. Len(events') = 0 /\ events' \in Seq(Events)
        BY <2>1
  <2>4. spent'["update"] \in Nat /\ MaxEvents \in Nat
        BY <2>1, EventTypes
  <2>. QED  BY <2>2, <2>3, <2>4 DEF EventBound, Goal
<1>. QED  BY <1>3, <1>4, <1>5, <1>6, <1>7, <1>8, <1>9, <1>10, <1>11, <1>12, CoreCases
          DEF CoreStep, Goal

\* The type invariant, in four parts besides the events: s_ctx and s_prov, the flags and
\* the driver, the state of the BLE service, the clock and the history.
RuntimeType ==
    /\ made \in 0..AllMade /\ config \in Config /\ owner \in {"app", "prov"}
    /\ made >= QueueMade => Valid(config)
    /\ buffers \in [TextFields -> Text \ {"long"}] /\ pending \in Config

RadioType ==
    /\ connected \in BOOLEAN /\ led \in [Gpios -> BOOLEAN] /\ outdated \in BOOLEAN
    /\ wifi_started \in BOOLEAN
    /\ wifi_reconfiguring \in BOOLEAN /\ netif \in BOOLEAN
    /\ link \in {"off", "idle", "connecting", "up"}
    /\ handler \in {"idle", "lost", "gained", "check", "connect"}
    /\ start \in [Waiters -> {"none", "init", "flag", "wait", "fetch"}]
    /\ update \in [Callers -> UpdatePcs]
    /\ refused \in BOOLEAN

BleType ==
    /\ callout \in {"off", "armed", "terminating", "spent"} /\ nimble \in BOOLEAN
    /\ started \in BOOLEAN /\ synced \in BOOLEAN /\ session \in BOOLEAN
    /\ advertising \in BOOLEAN /\ advFailed \in BOOLEAN
    /\ (started => nimble) /\ (synced => started) /\ (session \/ advertising => synced)

RestType == rtc \in Nat /\ unapplied \subseteq {"error", "early", "in place"}

\* The parts make up the whole.
LEMMA TypeParts == TypeOK <=> /\ RuntimeType /\ RadioType /\ BleType /\ RestType
                              /\ events \in Seq(Events)
                              /\ Len(events) <= MaxEvents + spent["update"]
                              /\ spent \in [DOMAIN Limit -> Nat]
BY DEF TypeOK, RuntimeType, RadioType, BleType, RestType, Events, UpdatePcs

\* The types of the BLE service.
LEMMA BleStep ==
    ASSUME BleType, Next
    PROVE  BleType'
<1>1. ASSUME UNCHANGED provVars PROVE BleType'
      BY <1>1 DEF provVars, BleType
<1>2. CASE StartProvisioning
  <2>1. UNCHANGED <<synced, advertising, advFailed, session, callout>> /\ ~started
        BY <1>2, Zenon DEF StartProvisioning
  <2>2. \/ nimble' = TRUE /\ started' = TRUE
        \/ nimble' \in BOOLEAN /\ started' = started
        \/ nimble' = nimble /\ started' = started
        BY <1>2, Zenon DEF StartProvisioning
  <2>3. started' \in BOOLEAN /\ nimble' \in BOOLEAN /\ (started' => nimble')
    <3>1. started = FALSE /\ nimble \in BOOLEAN  BY <2>1 DEF BleType
    <3>2. CASE nimble' = TRUE /\ started' = TRUE  BY <3>2
    <3>3. CASE nimble' \in BOOLEAN /\ started' = started  BY <3>1, <3>3
    <3>4. CASE nimble' = nimble /\ started' = started  BY <3>1, <3>4
    <3>. QED  BY <2>2, <3>2, <3>3, <3>4
  <2>4. ~synced /\ ~session /\ ~advertising
        BY <2>1 DEF BleType
  <2>. QED  BY <2>1, <2>3, <2>4 DEF BleType
<1>3. CASE OnSync \/ OnReset \/ GapConnect \/ GapRetry \/ GapDisconnect \/ DisconnectTimeout
      BY <1>3 DEF OnSync, OnReset, GapConnect, GapRetry, GapDisconnect, DisconnectTimeout,
         Advertise, HostFree, BleType
<1>4. ASSUME NEW f, NEW x, WriteText(f, x) \/ WriteNumber(f, x) \/ WriteAuth(x) \/ WriteLedEnabled(x)
      PROVE  BleType'
  <2>1. UNCHANGED <<nimble, started, synced, advertising, advFailed, session, callout>>
        BY <1>4, Zenon DEF WriteText, WriteNumber, WriteAuth, WriteLedEnabled, writeOnly
  <2>. QED  BY <2>1 DEF BleType
<1>5. CASE WriteApply
      BY <1>1, <1>5 DEF WriteApply
<1>6. CASE Panic
      BY <1>6 DEF Panic, BleType
<1>. QED  BY <1>1, <1>2, <1>3, <1>4, <1>5, <1>6 DEF Next, HostStep

\* What the runtime is started with or updated to is a configuration.
LEMMA RuntimeStep ==
    ASSUME TypeOK, Next
    PROVE  RuntimeType'
<1>0. RuntimeType
      BY TypeParts
<1>1. ASSUME UNCHANGED <<made, config, owner>>, UNCHANGED buffers, UNCHANGED pending
      PROVE  RuntimeType'
      BY <1>0, <1>1 DEF RuntimeType
<1>. USE DEF runtime
<1>2. ASSUME WifiStep, UNCHANGED provVars PROVE RuntimeType'
  <2>0. UNCHANGED pending
        BY <1>2 DEF provVars
  <2>1. ASSUME NEW c \in BootConfigs, AetusStart(c) PROVE RuntimeType'
    <3>1. c \in Config /\ Valid(c) /\ DefaultDepth \in Nat
          BY <2>1, WifiLifecycleAssumption, DeviceConfigAssumption DEF AetusStart
    <3>2. config' \in Config /\ Valid(config')
          BY <2>1, <3>1, NormaliseFacts DEF AetusStart
    <3>3. made' \in 0..AllMade /\ owner' = "app" /\ UNCHANGED buffers
          BY <2>1 DEF AetusStart, AllMade, EventsMade
    <3>. QED  BY <1>0, <2>0, <3>2, <3>3 DEF RuntimeType
  <2>2. ASSUME NEW c \in AppConfigs, UpdateConfig("app", c, "app") PROVE RuntimeType'
    <3>1. c \in Config /\ config.number["queue_depth"] \in Nat
          BY <1>0, WifiLifecycleAssumption DEF RuntimeType, Config, NumberFields
    <3>2. Valid(c) => Normalise(c, config.number["queue_depth"]) \in Config
                      /\ Valid(Normalise(c, config.number["queue_depth"]))
          BY <3>1, NormaliseFacts
    <3>. QED  BY <1>0, <2>0, <2>2, <3>2 DEF UpdateConfig, RuntimeType, AllMade, TaskMade, QueueMade
  <2>3. CASE LinkUp \/ LinkDown \/ HandleEvent \/ HandlerLed \/ HandlerCheck \/ HandlerConnect
             \/ SyncRtc
        BY <1>1, <2>0, <2>3 DEF LinkUp, LinkDown, HandleEvent, HandlerLed, HandlerCheck,
           HandlerConnect, SyncRtc
  <2>4. ASSUME NEW t \in Waiters, WifiBegin(t) \/ WifiStart(t) \/ WifiStarted(t) \/ WifiWaited(t)
        PROVE  RuntimeType'
        BY <1>1, <2>0, <2>4 DEF WifiBegin, WifiStart, WifiStarted, WifiWaited
  <2>5. ASSUME NEW w \in Callers, UpdateStep(w) PROVE RuntimeType'
    <3>1. UNCHANGED <<config, owner, buffers>>
          BY <2>5, UpdateFrame
    <3>2. made' = made \/ (made = TaskMade /\ made' = AllMade)
          BY <2>5, UpdateFrame
    <3>3. made' \in 0..AllMade /\ (made' >= QueueMade => made >= QueueMade)
          BY <1>0, <3>2 DEF RuntimeType, AllMade, TaskMade, QueueMade
    <3>. QED  BY <1>0, <2>0, <3>1, <3>3 DEF RuntimeType
  <2>. QED  BY <1>2, <2>1, <2>2, <2>3, <2>4, <2>5 DEF WifiStep
<1>3. CASE StartProvisioning
  <2>1. UNCHANGED <<made, config, owner>>
        BY <1>3 DEF StartProvisioning
  <2>2. Running \in Config
        BY <1>0, RunningFacts DEF RuntimeType
  <2>3. buffers' \in [TextFields -> Text \ {"long"}]
        BY <1>0, <1>3, <2>2 DEF StartProvisioning, BuffersFromRuntime, CopyStringValue, RuntimeType,
           Config, Text
  <2>4. pending' \in Config
        BY <1>0, <1>3, <2>2 DEF StartProvisioning, PendingFromRuntime, RuntimeType, Config
  <2>. QED  BY <1>0, <2>1, <2>3, <2>4 DEF RuntimeType
<1>4. CASE OnSync \/ OnReset \/ GapConnect \/ GapRetry \/ GapDisconnect \/ DisconnectTimeout
      BY <1>1, <1>4 DEF OnSync, OnReset, GapConnect, GapRetry, GapDisconnect, DisconnectTimeout,
         hostOnly
<1>5. ASSUME NEW x \in TextWrites, WriteText(x[1], x[2]) PROVE RuntimeType'
  <2>1. x[1] \in TextFields /\ x[2] \in Text
        BY ProvisioningAssumption
  <2>2. buffers' \in [TextFields -> Text \ {"long"}]
        BY <1>0, <1>5, <2>1 DEF WriteText, StringFits, RuntimeType
  <2>. QED  BY <1>0, <1>5, <2>2 DEF WriteText, writeOnly, RuntimeType
<1>6. ASSUME NEW x \in NumberWrites, WriteNumber(x[1], x[2]) PROVE RuntimeType'
  <2>1. PICK n \in Nat : n = IF x[2] = NotANumber THEN 0 ELSE x[2]
        BY ProvisioningAssumption
  <2>2. pending' = [pending EXCEPT !.number[x[1]] = n] /\ x[1] \in NumberFields
        BY <1>6, <2>1, ProvisioningAssumption DEF WriteNumber
  <2>3. pending' \in Config
        BY <1>0, <2>2, NumberSet DEF RuntimeType
  <2>. QED  BY <1>0, <1>6, <2>3 DEF WriteNumber, writeOnly, RuntimeType
<1>7. ASSUME NEW x, WriteAuth(x) \/ WriteLedEnabled(x) PROVE RuntimeType'
  <2>1. pending' \in Config
        BY <1>0, <1>7 DEF WriteAuth, WriteLedEnabled, RuntimeType, Config
  <2>. QED  BY <1>0, <1>7, <2>1 DEF WriteAuth, WriteLedEnabled, writeOnly, RuntimeType
<1>8. CASE WriteApply
  <2> DEFINE c == [pending EXCEPT !.text = buffers]
  <2>1. c \in Config /\ config.number["queue_depth"] \in Nat
        BY <1>0, PendingFacts DEF RuntimeType, Config, NumberFields
  <2>2. UpdateConfig("ble", c, "prov") /\ UNCHANGED pending
        BY <1>8 DEF WriteApply, provVars
  <2>. HIDE DEF c
  <2>3. Valid(c) => Normalise(c, config.number["queue_depth"]) \in Config
                    /\ Valid(Normalise(c, config.number["queue_depth"]))
        BY <2>1, NormaliseFacts
  <2>. QED  BY <1>0, <2>2, <2>3 DEF UpdateConfig, RuntimeType, AllMade, TaskMade, QueueMade
<1>9. CASE Panic
      BY <1>9, EmptyConfigFacts DEF Panic, WifiReset, RuntimeType, AllMade, QueueMade
<1>. QED  BY <1>2, <1>3, <1>4, <1>5, <1>6, <1>7, <1>8, <1>9 DEF Next, HostStep

\* The types of the runtime's flags and of the driver.
LEMMA RadioStep ==
    ASSUME TypeOK, Next
    PROVE  RadioType'
<1>0. RadioType
      BY TypeParts
<1>. USE DEF shown, flags, radio, history
<1>1. ASSUME UNCHANGED core PROVE RadioType'
      BY <1>0, <1>1 DEF core, RadioType
<1>2. ASSUME NEW c \in BootConfigs, AetusStart(c) PROVE RadioType'
  <2>1. led' \in [Gpios -> BOOLEAN]
    <3>1. SetLed(c, FALSE) \in [Gpios -> BOOLEAN] /\ led \in [Gpios -> BOOLEAN]
          BY <1>0, SetLedFacts DEF RadioType
    <3>. QED  BY <1>2, <3>1 DEF AetusStart
  <2>2. UNCHANGED <<connected, outdated, flags, netif, link, handler, start, update, refused>>
        BY <1>2 DEF AetusStart
  <2>. QED  BY <1>0, <2>1, <2>2 DEF RadioType
<1>3. ASSUME NEW w \in Callers, NEW c \in Config, NEW texts \in {"app", "prov"},
             Updates(w, c, texts)
      PROVE  RadioType'
  <2>1. UpdateConfig(w, c, texts)
        BY <1>3 DEF Updates
  <2>2. update' \in [Callers -> UpdatePcs]
        BY <1>0, <2>1 DEF UpdateConfig, UpdateAt, RadioType, UpdatePcs
  <2>3. UNCHANGED <<shown, flags, netif, link, handler, start, refused>>
        BY <2>1 DEF UpdateConfig
  <2>. QED  BY <1>0, <2>2, <2>3 DEF RadioType
<1>4. ASSUME LinkUp \/ LinkDown PROVE RadioType'
      BY <1>0, <1>4 DEF LinkUp, LinkDown, RadioType
<1>5. ASSUME HandleEvent PROVE RadioType'
  <2>1. Head(events) \in Events
        BY <1>5, EventTypes DEF HandleEvent
  <2>2. handler' \in {"connect", "lost", "gained"}
        BY <1>5, <2>1 DEF HandleEvent, Events
  <2>3. connected' \in BOOLEAN
    <3>1. CASE Head(events) = "START"  BY <1>0, <1>5, <3>1 DEF HandleEvent, RadioType
    <3>2. CASE Head(events) # "START"  BY <1>5, <3>2 DEF HandleEvent
    <3>. QED  BY <3>1, <3>2
  <2>4. UNCHANGED <<led, outdated, flags, netif, link, start, update, refused>>
        BY <1>5 DEF HandleEvent
  <2>. QED  BY <1>0, <2>2, <2>3, <2>4 DEF RadioType
<1>6. ASSUME HandlerLed PROVE RadioType'
  <2>1. led' = SetLed(config, handler = "gained")
        BY <1>6 DEF HandlerLed
  <2>2. led' \in [Gpios -> BOOLEAN]
    <3>1. led \in [Gpios -> BOOLEAN] /\ (handler = "gained") \in BOOLEAN  BY <1>0 DEF RadioType
    <3>. QED  BY <2>1, <3>1, SetLedFacts
  <2>3. /\ handler' \in {"idle", "check"} /\ outdated' = FALSE
        /\ UNCHANGED <<connected, flags, netif, link, start, update, refused>>
        BY <1>6 DEF HandlerLed
  <2>. QED  BY <1>0, <2>2, <2>3 DEF RadioType
<1>7. ASSUME HandlerConnect PROVE RadioType'
  <2>1. link' \in {"off", "idle", "connecting", "up"} /\ refused' \in BOOLEAN
        BY <1>0, <1>7 DEF HandlerConnect, EspWifiConnect, RadioType
  <2>2. handler' = "idle" /\ UNCHANGED <<shown, flags, netif, start, update>>
        BY <1>7 DEF HandlerConnect
  <2>. QED  BY <1>0, <2>1, <2>2 DEF RadioType
<1>8. ASSUME SyncRtc \/ HandlerCheck PROVE RadioType'
      BY <1>0, <1>8 DEF SyncRtc, HandlerCheck, StartAt, RadioType
<1>9. ASSUME NEW t \in Waiters, WifiBegin(t) \/ WifiStarted(t) \/ WifiWaited(t) PROVE RadioType'
  <2>1. start' \in [Waiters -> {"none", "init", "flag", "wait", "fetch"}]
        BY <1>0, <1>9 DEF WifiBegin, WifiStarted, WifiWaited, StartAt, RadioType
  <2>2. /\ UNCHANGED <<shown, wifi_reconfiguring, netif, link, handler, update, refused>>
        /\ wifi_started' \in {wifi_started, TRUE}
        BY <1>9 DEF WifiBegin, WifiStarted, WifiWaited
  <2>. QED  BY <1>0, <2>1, <2>2 DEF RadioType
<1>10. ASSUME NEW t \in Waiters, WifiStart(t) PROVE RadioType'
  <2>1. start' \in [Waiters -> {"none", "init", "flag", "wait", "fetch"}]
        BY <1>0, <1>10 DEF WifiStart, StartAt, RadioType
  <2>2. netif' \in BOOLEAN /\ link' \in {"idle", link}
        BY <1>10 DEF WifiStart
  <2>3. UNCHANGED <<shown, flags, handler, update, refused>>
        BY <1>10 DEF WifiStart
  <2>. QED  BY <1>0, <2>1, <2>2, <2>3 DEF RadioType
<1>11. ASSUME NEW w \in Callers, UpdateStep(w) PROVE RadioType'
  <2>1. update' \in [Callers -> UpdatePcs]
    <3>1. PICK to \in UpdatePcs : update' = [update EXCEPT ![w] = to]
          BY <1>11, UpdateMoves DEF UpdateAt
    <3>. QED  BY <1>0, <3>1 DEF RadioType
  <2>2. /\ UNCHANGED <<wifi_started, netif, handler, start>> /\ connected' \in BOOLEAN
        /\ link' \in {"off", "idle", "connecting", "up"}
        BY <1>0, <1>11, UpdateFrame DEF RadioType
  <2>3. led' \in [Gpios -> BOOLEAN] /\ outdated' \in BOOLEAN
    <3>1. CASE UpdateLed(w)
      <4>1. /\ led' = SetPin(config, update[w] = "lit")
            /\ outdated' = (connected # (update[w] = "lit"))
            BY <3>1 DEF UpdateLed
      <4>2. led \in [Gpios -> BOOLEAN]
            BY <1>0 DEF RadioType
      <4>. QED  BY <4>1, <4>2 DEF SetPin
    <3>2. CASE UpdateUnlight(w)
      <4>1. led' = SetLed(config, FALSE) /\ outdated' = FALSE
            BY <3>2 DEF UpdateUnlight
      <4>2. led \in [Gpios -> BOOLEAN]
            BY <1>0 DEF RadioType
      <4>. QED  BY <4>1, <4>2, SetLedFacts
    <3>3. CASE UNCHANGED <<led, outdated>>
          BY <1>0, <3>3 DEF RadioType
    <3>. QED  BY <1>11, <3>1, <3>2, <3>3 DEF UpdateStep, UpdateReadsBit, UpdateTimer, UpdateClear,
                 UpdateFlag, UpdateDrop, UpdateApply, UpdateUnflag, UpdateConnect
  <2>4. wifi_reconfiguring' \in BOOLEAN
    <3>1. wifi_reconfiguring' = wifi_reconfiguring \/ wifi_reconfiguring' \in {TRUE, FALSE}
          BY <1>11 DEF UpdateStep, UpdateReadsBit, UpdateLed, UpdateTimer, UpdateClear,
             UpdateUnlight, UpdateFlag, UpdateDrop, UpdateApply, UpdateUnflag, UpdateConnect
    <3>. QED  BY <1>0, <3>1 DEF RadioType
  <2>5. refused' \in BOOLEAN
    <3>1. CASE UpdateUnflag(w)
          BY <1>0, <3>1 DEF UpdateUnflag, RadioType
    <3>2. CASE UpdateConnect(w)
          BY <1>0, <3>2 DEF UpdateConnect, EspWifiConnect, RadioType
    <3>3. CASE UNCHANGED refused
          BY <1>0, <3>3 DEF RadioType
    <3>. QED  BY <1>11, <3>1, <3>2, <3>3 DEF UpdateStep, UpdateReadsBit, UpdateLed, UpdateTimer,
                 UpdateClear, UpdateUnlight, UpdateFlag, UpdateDrop, UpdateApply
  <2>. QED  BY <2>1, <2>2, <2>3, <2>4, <2>5, <1>0 DEF RadioType
<1>12. ASSUME WifiReset PROVE RadioType'
      BY <1>12 DEF WifiReset, RadioType, UpdatePcs
<1>. QED  BY <1>1, <1>2, <1>3, <1>4, <1>5, <1>6, <1>7, <1>8, <1>9, <1>10, <1>11, <1>12, CoreCases
          DEF CoreStep

\* The clock, and the reasons why the driver may lack the running texts.
LEMMA RestStep ==
    ASSUME TypeOK, Next
    PROVE  RestType'
<1>0. RestType
      BY TypeParts
<1>. USE DEF history
<1>1. ASSUME rtc' = rtc, UNCHANGED unapplied PROVE RestType'
      BY <1>0, <1>1 DEF RestType
<1>2. ASSUME rtc' = rtc, ApplyStaConfig \/ ApplyFails PROVE RestType'
      BY <1>0, <1>2 DEF RestType, ApplyStaConfig, ApplyFails
<1>3. ASSUME WifiStep PROVE RestType'
  <2>1. ASSUME NEW c \in BootConfigs, AetusStart(c) PROVE RestType'
        BY <1>1, <2>1 DEF AetusStart
  <2>2. ASSUME NEW c \in AppConfigs, UpdateConfig("app", c, "app") PROVE RestType'
        BY <1>0, <2>2 DEF UpdateConfig, RestType
  <2>3. CASE LinkUp \/ LinkDown \/ HandleEvent \/ HandlerLed \/ HandlerCheck \/ HandlerConnect
        BY <1>1, <2>3 DEF LinkUp, LinkDown, HandleEvent, HandlerLed, HandlerCheck, HandlerConnect
  <2>4. CASE SyncRtc
    <3>1. UNCHANGED unapplied  BY <2>4 DEF SyncRtc
    <3>2. rtc' = rtc \/ rtc' \in Nat  BY <2>4, SyncRtcFacts
    <3>. QED  BY <1>0, <3>1, <3>2 DEF RestType
  <2>5. ASSUME NEW t \in Waiters, WifiBegin(t) \/ WifiStarted(t) \/ WifiWaited(t) PROVE RestType'
        BY <1>1, <2>5 DEF WifiBegin, WifiStarted, WifiWaited
  <2>6. ASSUME NEW t \in Waiters, WifiStart(t) PROVE RestType'
        BY <1>1, <1>2, <2>6, Zenon DEF WifiStart
  <2>7. ASSUME NEW w \in Callers, UpdateStep(w) PROVE RestType'
    <3>1. UNCHANGED rtc
          BY <2>7, UpdateFrame
    <3>2. CASE UpdateReadsBit(w)
          BY <1>0, <3>1, <3>2 DEF UpdateReadsBit, RestType
    <3>3. CASE UpdateTimer(w)
          BY <1>0, <3>1, <3>3 DEF UpdateTimer, RestType
    <3>4. CASE UpdateApply(w)
          BY <1>2, <3>1, <3>4 DEF UpdateApply
    <3>5. CASE UNCHANGED unapplied
          BY <1>1, <3>1, <3>5
    <3>. QED  BY <2>7, <3>2, <3>3, <3>4, <3>5 DEF UpdateStep, UpdateLed, UpdateClear, UpdateUnlight,
                 UpdateFlag, UpdateDrop, UpdateUnflag, UpdateConnect
  <2>. QED  BY <1>3, <2>1, <2>2, <2>3, <2>4, <2>5, <2>6, <2>7 DEF WifiStep
<1>4. CASE StartProvisioning
      BY <1>1, <1>4 DEF StartProvisioning
<1>5. CASE OnSync \/ OnReset \/ GapConnect \/ GapRetry \/ GapDisconnect \/ DisconnectTimeout
      BY <1>1, <1>5 DEF OnSync, OnReset, GapConnect, GapRetry, GapDisconnect, DisconnectTimeout,
         hostOnly
<1>6. ASSUME NEW f, NEW x, WriteText(f, x) PROVE RestType'
      BY <1>0, <1>6 DEF WriteText, writeOnly, RestType
<1>7. ASSUME NEW f, NEW x, WriteNumber(f, x) \/ WriteAuth(x) \/ WriteLedEnabled(x)
      PROVE  RestType'
      BY <1>1, <1>7 DEF WriteNumber, WriteAuth, WriteLedEnabled, writeOnly
<1>8. CASE WriteApply
  <2>1. PICK c : UpdateConfig("ble", c, "prov")
        BY <1>8 DEF WriteApply
  <2>. QED  BY <1>0, <2>1 DEF UpdateConfig, RestType
<1>9. CASE Panic
      BY <1>9 DEF Panic, WifiReset, RestType
<1>. QED  BY <1>3, <1>4, <1>5, <1>6, <1>7, <1>8, <1>9 DEF Next, HostStep

\* The type invariant and the bounds are preserved together.
LEMMA TypeStep ==
    ASSUME TypeOK, EventBound, Next
    PROVE  TypeOK' /\ EventBound'
<1>1. RuntimeType' /\ RadioType' /\ BleType' /\ RestType'
      BY RuntimeStep, RadioStep, BleStep, RestStep, TypeParts
<1>2. events' \in Seq(Events) /\ EventBound' /\ spent' \in [DOMAIN Limit -> Nat]
      BY EventStep, SpentStep
<1>3. Len(events') <= MaxEvents + spent'["update"]
  <2>1. Len(events') \in Nat /\ spent'["update"] \in Nat /\ MaxEvents \in Nat
        BY <1>2, WifiLifecycleAssumption
  <2>2. Disconnecting("app")' \in Nat /\ Disconnecting("ble")' \in Nat
        BY DEF Disconnecting
  <2>. QED  BY <1>2, <2>1, <2>2 DEF EventBound
<1>. QED  BY <1>1, <1>2, <1>3 DEF TypeOK, RuntimeType, RadioType, BleType, RestType, Events, UpdatePcs

-----------------------------------------------------------------------------
(* The BLE service can be found *)

\* Whatever ends a session, a connection attempt or advertising itself tries to
\* advertise again.
LEMMA ReachableStep ==
    ASSUME TypeOK, ProvisioningReachable, Next
    PROVE  ProvisioningReachable'
<1>1. BleType
      BY TypeParts
<1>2. ASSUME UNCHANGED <<synced, session, advertising, advFailed>> PROVE ProvisioningReachable'
      BY <1>2 DEF ProvisioningReachable
<1>3. CASE WifiStep /\ UNCHANGED provVars
      BY <1>2, <1>3 DEF provVars
<1>4. CASE StartProvisioning
      BY <1>2, <1>4 DEF StartProvisioning
<1>5. CASE OnSync \/ GapRetry \/ GapDisconnect
      BY <1>1, <1>5 DEF OnSync, GapRetry, GapDisconnect, Advertise, ProvisioningReachable, BleType
<1>6. CASE OnReset \/ GapConnect
      BY <1>6 DEF OnReset, GapConnect, ProvisioningReachable
<1>7. CASE DisconnectTimeout
      BY <1>2, <1>7 DEF DisconnectTimeout
<1>8. ASSUME NEW f, NEW x, WriteText(f, x) \/ WriteNumber(f, x) \/ WriteAuth(x) \/ WriteLedEnabled(x)
      PROVE  ProvisioningReachable'
      BY <1>2, <1>8 DEF WriteText, WriteNumber, WriteAuth, WriteLedEnabled, writeOnly
<1>9. CASE WriteApply
      BY <1>2, <1>9 DEF WriteApply, provVars
<1>10. CASE Panic
      BY <1>10 DEF Panic, ProvisioningReachable
<1>. QED  BY <1>3, <1>4, <1>5, <1>6, <1>7, <1>8, <1>9, <1>10 DEF Next, HostStep

-----------------------------------------------------------------------------
(* The station *)

\* A power-up, as the first state and as the end of a reset.
LEMMA StationReset ==
    ASSUME WifiReset
    PROVE  StationInv' /\ ShownInv' /\ RetryInv'
<1>1. /\ led' = [g \in Gpios |-> FALSE] /\ start' = [t \in Waiters |-> "none"]
      /\ update' = [w \in Callers |-> "none"] /\ netif' = FALSE /\ link' = "off"
      /\ wifi_started' = FALSE /\ events' = <<>> /\ handler' = "idle" /\ connected' = FALSE
      /\ wifi_reconfiguring' = FALSE /\ config' = EmptyConfig
      BY Zenon DEF WifiReset
<1>2. StationInv'
      BY <1>1 DEF StationInv, Waiters, Callers
<1>3. config'.connected_led_enabled = FALSE
      BY <1>1 DEF EmptyConfig
<1>4. ShownInv'
      BY <1>1, <1>3 DEF ShownInv, Settled, LedSettled
<1>5. RetryInv'
      BY <1>1 DEF RetryInv
<1>. QED  BY <1>2, <1>4, <1>5

\* The events when the driver adds one.
LEMMA AppendEvent ==
    ASSUME events \in Seq(Events), NEW e \in Events, events' = Append(events, e)
    PROVE  /\ Len(events) \in Nat /\ Len(events') = Len(events) + 1 /\ events' # <<>>
           /\ events'[Len(events')] = e
           /\ \A i \in 1..Len(events') : i = Len(events') \/ (i \in 1..Len(events) /\ events'[i] = events[i])
           /\ \A i \in 1..Len(events) : i \in 1..Len(events') /\ events'[i] = events[i]
<1>1. Len(events) \in Nat /\ Len(events') = Len(events) + 1 /\ events' # <<>>
      OBVIOUS
<1>2. events'[Len(events')] = e
      BY <1>1
<1>3. \A i \in 1..Len(events) : i \in 1..Len(events') /\ events'[i] = events[i]
      BY <1>1
<1>4. \A i \in 1..Len(events') : i = Len(events') \/ i \in 1..Len(events)
      BY <1>1
<1>. QED  BY <1>1, <1>2, <1>3, <1>4

\* The events when the handler takes one.
LEMMA TakeEvent ==
    ASSUME events \in Seq(Events), events # <<>>, events' = Tail(events)
    PROVE  /\ Head(events) = events[1] /\ Head(events) \in Events /\ 1 \in 1..Len(events)
           /\ Len(events) \in Nat /\ Len(events') = Len(events) - 1
           /\ \A i \in 1..Len(events') : i + 1 \in 1..Len(events) /\ events'[i] = events[i + 1]
           /\ \A i \in 1..Len(events) : i = 1 \/ (i - 1 \in 1..Len(events') /\ events'[i - 1] = events[i])
           /\ events' # <<>> => events'[Len(events')] = events[Len(events)]
           /\ events' = <<>> => Len(events) = 1
<1>1. Len(events) \in Nat /\ Len(events') = Len(events) - 1 /\ Len(events) >= 1
      OBVIOUS
<1>2. Head(events) = events[1] /\ Head(events) \in Events /\ 1 \in 1..Len(events)
      BY <1>1
<1>3. \A i \in 1..Len(events') : i + 1 \in 1..Len(events) /\ events'[i] = events[i + 1]
      BY <1>1
<1>4. \A i \in 1..Len(events) : i = 1 \/ (i - 1 \in 1..Len(events') /\ events'[i - 1] = events[i])
      BY <1>1
<1>5. events' # <<>> => events'[Len(events')] = events[Len(events)]
  <2>1. events' \in Seq(Events)  OBVIOUS
  <2>2. events' # <<>> => Len(events') \in 1..Len(events') BY <2>1
  <2>3. events' # <<>> => events'[Len(events')] = events[Len(events') + 1]  BY <1>3, <2>2
  <2>. QED  BY <1>1, <2>3
<1>6. events' = <<>> => Len(events) = 1
  <2>1. events' = <<>> => Len(events') = 0  OBVIOUS
  <2>. QED  BY <1>1, <2>1
<1>. QED  BY <1>1, <1>2, <1>3, <1>4, <1>5, <1>6


\* No part of the station runs before its predecessors.
LEMMA StationStep ==
    ASSUME TypeOK, StationInv, Next
    PROVE  StationInv'
<1>0. RadioType /\ events \in Seq(Events) /\ made \in 0..AllMade
      BY TypeParts DEF RuntimeType
<1>. USE DEF shown, flags, radio, runtime, history
<1>1. ASSUME UNCHANGED core PROVE StationInv'
      BY <1>1 DEF core, StationInv
<1>2. ASSUME NEW c \in BootConfigs, AetusStart(c) PROVE StationInv'
  <2>1. \A g \in Gpios : ~led'[g]
    <3>1. led \in [Gpios -> BOOLEAN] /\ \A g \in Gpios : ~led[g]
          BY <1>0, <1>2 DEF RadioType, AetusStart, StationInv
    <3>2. \A g \in Gpios : ~SetLed(c, FALSE)[g]
          BY <3>1, SetLedFacts
    <3>. QED  BY <1>2, <3>1, <3>2 DEF AetusStart
  <2>2. made = 0 /\ UNCHANGED <<connected, flags, netif, link, events, handler, start, update>>
        BY <1>2 DEF AetusStart
  <2>. QED  BY <2>1, <2>2 DEF StationInv
<1>3. ASSUME NEW w \in Callers, NEW c \in Config, NEW texts \in {"app", "prov"},
             Updates(w, c, texts)
      PROVE  StationInv'
  <2>1. /\ made # 0 /\ made' # 0
        /\ UNCHANGED <<connected, flags, netif, link, events, handler, start>>
        BY <1>0, <1>3 DEF Updates, UpdateConfig, QueueMade
  <2>. QED  BY <2>1 DEF StationInv
<1>4. ASSUME LinkUp \/ LinkDown PROVE StationInv'
  <2>1. PICK e \in {"DISCONNECTED", "GOT_IP"} : events' = Append(events, e)
        BY <1>4 DEF LinkUp, LinkDown, Emit
  <2>2. /\ events'[Len(events')] = e
        /\ \A i \in 1..Len(events') : i = Len(events') \/ (i \in 1..Len(events) /\ events'[i] = events[i])
        BY <1>0, <2>1, AppendEvent DEF Events
  <2>3. \A i \in 1..Len(events') : events'[i] = "START" => i = 1 /\ handler = "idle"
        BY <2>2 DEF StationInv
  <2>4. link # "off" /\ link' # "off" /\ UNCHANGED <<made, connected, led, flags, netif, handler, start, update>>
        BY <1>4 DEF LinkUp, LinkDown
  <2>. QED  BY <2>3, <2>4 DEF StationInv
<1>5. ASSUME HandleEvent PROVE StationInv'
  <2>1. events # <<>> /\ events' = Tail(events) /\ UNCHANGED <<made, led, flags, netif, link, start, update>>
        BY <1>5 DEF HandleEvent
  <2>2. \A i \in 1..Len(events') : events'[i] # "START"
    <3>1. \A i \in 1..Len(events') : i + 1 \in 1..Len(events) /\ events'[i] = events[i + 1]
          BY <1>0, <2>1, TakeEvent
    <3>2. \A i \in 1..Len(events') : i + 1 # 1
          OBVIOUS
    <3>. QED  BY <3>1, <3>2 DEF StationInv
  <2>3. link # "off"
        BY <2>1 DEF StationInv
  <2>. QED  BY <2>1, <2>2, <2>3 DEF StationInv
<1>6. ASSUME HandlerLed PROVE StationInv'
  <2>1. handler # "idle" /\ UNCHANGED <<made, connected, flags, netif, link, events, start, update>>
        BY <1>6 DEF HandlerLed
  <2>2. link # "off" /\ netif /\ made # 0 /\ \A i \in 1..Len(events) : events[i] # "START"
        BY <2>1 DEF StationInv
  <2>. QED  BY <2>1, <2>2 DEF StationInv
<1>7. ASSUME HandlerCheck \/ HandlerConnect PROVE StationInv'
  <2>1. handler # "idle" /\ UNCHANGED <<made, connected, led, flags, netif, events, start, update>>
        BY <1>7 DEF HandlerCheck, HandlerConnect
  <2>2. link # "off" /\ netif /\ made # 0 /\ \A i \in 1..Len(events) : events[i] # "START"
        BY <2>1 DEF StationInv
  <2>3. link' # "off"
        BY <1>7, <2>2 DEF HandlerCheck, HandlerConnect, EspWifiConnect
  <2>. QED  BY <2>1, <2>2, <2>3 DEF StationInv
<1>8. ASSUME NEW t \in Waiters, NEW from \in {"none", "wait", "fetch"}, NEW to \in {"none", "init", "wait", "fetch"},
             StartAt(t, from, to), made # 0,
             UNCHANGED <<made, connected, led, flags, netif, link, events, handler, update>>
      PROVE  StationInv'
  <2>1. \A s \in Waiters : start'[s] = "flag" => start[s] = "flag"
        BY <1>0, <1>8 DEF StartAt, RadioType
  <2>. QED  BY <1>8, <2>1 DEF StationInv
<1>9. ASSUME SyncRtc PROVE StationInv'
  <2>1. StartAt("rtc", "fetch", "none") /\ made # 0
        BY <1>9 DEF SyncRtc, StartAt, StationInv, Waiters
  <2>2. UNCHANGED <<made, connected, led, flags, netif, link, events, handler, update>>
        BY <1>9 DEF SyncRtc
  <2>. QED  BY <1>8, <2>1, <2>2 DEF Waiters
<1>10. ASSUME NEW t \in Waiters, WifiBegin(t) PROVE StationInv'
  <2>1. made # 0 /\ UNCHANGED <<made, connected, led, flags, netif, link, events, handler, update>>
        BY <1>0, <1>10 DEF WifiBegin, TaskMade, QueueMade
  <2>2. StartAt(t, "none", "wait") \/ StartAt(t, "none", "init")
        BY <1>10 DEF WifiBegin
  <2>. QED  BY <1>8, <2>1, <2>2
<1>11. ASSUME NEW t \in Waiters, WifiWaited(t) PROVE StationInv'
  <2>1. made # 0 /\ UNCHANGED <<made, connected, led, flags, netif, link, events, handler, update>>
        BY <1>0, <1>11 DEF WifiWaited, EventsMade
  <2>2. StartAt(t, "wait", "fetch") \/ StartAt(t, "wait", "none")
        BY <1>11 DEF WifiWaited
  <2>. QED  BY <1>8, <2>1, <2>2
<1>12. ASSUME NEW t \in Waiters, WifiStarted(t) PROVE StationInv'
  <2>1. start[t] = "flag" /\ start' = [start EXCEPT ![t] = "wait"]
        /\ UNCHANGED <<made, connected, led, netif, link, events, handler, update>>
        BY <1>12 DEF WifiStarted, StartAt
  <2>2. netif /\ made # 0
        BY <1>0, <2>1 DEF StationInv
  <2>. QED  BY <2>1, <2>2 DEF StationInv
<1>13. ASSUME NEW t \in Waiters, WifiStart(t) PROVE StationInv'
  <2>1. ~netif /\ start[t] = "init" /\ UNCHANGED <<made, connected, led, flags, handler, update>>
        BY <1>13 DEF WifiStart, StartAt
  <2>2. made # 0 /\ link = "off" /\ events = <<>> /\ handler = "idle" /\ ~connected /\ ~wifi_started
        BY <2>1 DEF StationInv
  <2>3. CASE netif' = TRUE /\ link' = "idle" /\ Emit("START")
    <3>1. events' = <<"START">>
          BY <2>2, <2>3 DEF Emit
    <3>. QED  BY <2>1, <2>2, <2>3, <3>1 DEF StationInv
  <2>4. CASE StartAt(t, "init", "none") /\ UNCHANGED <<link, events>>
    <3>1. \A s \in Waiters : start'[s] # "flag"
          BY <1>0, <2>1, <2>4 DEF StartAt, RadioType, StationInv
    <3>. QED  BY <2>1, <2>2, <2>4, <3>1 DEF StationInv
  <2>. QED  BY <1>13, <2>3, <2>4, Zenon DEF WifiStart
<1>14. ASSUME NEW w \in Callers, UpdateStep(w) PROVE StationInv'
  <2>1. /\ UNCHANGED <<wifi_started, netif, handler, start>>
        /\ connected' = connected \/ connected' = FALSE
        /\ link' = "off" <=> link = "off"
        BY <1>14, UpdateFrame
  <2>2. made # 0 /\ made' # 0
    <3>1. update[w] # "none"
          BY <1>14, UpdateMoves DEF UpdateAt
    <3>2. made # 0
          BY <3>1 DEF StationInv
    <3>3. made' = made \/ (made = TaskMade /\ made' = AllMade)
          BY <1>14, UpdateFrame
    <3>. QED  BY <3>2, <3>3 DEF AllMade
  <2>3. CASE UNCHANGED events
        BY <2>1, <2>2, <2>3 DEF StationInv
  <2>4. CASE events' = Append(events, "DISCONNECTED") /\ link \in {"connecting", "up"}
    <3>1. /\ events'[Len(events')] = "DISCONNECTED"
          /\ \A i \in 1..Len(events') : i = Len(events') \/ (i \in 1..Len(events) /\ events'[i] = events[i])
          BY <1>0, <2>4, AppendEvent DEF Events
    <3>2. \A i \in 1..Len(events') : events'[i] = "START" => i = 1 /\ handler = "idle"
          BY <3>1 DEF StationInv
    <3>. QED  BY <2>1, <2>2, <2>4, <3>2 DEF StationInv
  <2>. QED  BY <1>14, <2>3, <2>4 DEF UpdateStep, UpdateReadsBit, UpdateLed, UpdateTimer, UpdateClear,
               UpdateUnlight, UpdateFlag, UpdateDrop, UpdateApply, UpdateUnflag, UpdateConnect
<1>. QED  BY <1>1, <1>2, <1>3, <1>4, <1>5, <1>6, <1>7, <1>9, <1>10, <1>11, <1>12, <1>13,
             <1>14, StationReset, CoreCases DEF CoreStep

-----------------------------------------------------------------------------
(* The bit and the LED *)

\* What ShownInv says of the bit, and what it says of the LED.
BitShown ==
    /\ ~Settled => (events[Len(events)] = "GOT_IP" <=> link = "up")
    /\ Settled /\ connected => link = "up"
    /\ Settled /\ link = "up" /\ NobodyAt(Clearing) => connected
    /\ Settled /\ handler \in {"lost", "gained"} => (handler = "gained" <=> link = "up")

LedShown ==
    /\ LedSettled /\ NobodyAt(Showing) /\ led[config.number["connected_led_gpio"]] => link = "up"
    /\ LedSettled /\ NobodyAt(Showing \cup Clearing) /\ link = "up"
         => led[config.number["connected_led_gpio"]]

LEMMA ShownParts == ShownInv <=> BitShown /\ LedShown
BY DEF ShownInv, BitShown, LedShown

\* Nobody is in a set of places when nobody comes there, and in a union when nobody is
\* in either part.
LEMMA NobodyFacts ==
    /\ UNCHANGED update => \A pcs : NobodyAt(pcs)' <=> NobodyAt(pcs)
    /\ NobodyAt(Showing \cup Clearing) <=> NobodyAt(Showing) /\ NobodyAt(Clearing)
    /\ NobodyAt(Showing \cup Clearing)' <=> NobodyAt(Showing)' /\ NobodyAt(Clearing)'
BY Zenon DEF NobodyAt

\* Where nobody is after one call of aetus_update_config() has moved.
LEMMA NobodyMoves ==
    ASSUME TypeOK, NEW w \in Callers, NEW to, update' = [update EXCEPT ![w] = to], NEW pcs
    PROVE  /\ NobodyAt(pcs)' => to \notin pcs
           /\ update[w] \notin pcs => (NobodyAt(pcs)' => NobodyAt(pcs))
<1>1. update \in [Callers -> UpdatePcs]
      BY EventTypes
<1>. QED  BY <1>1 DEF NobodyAt

\* Steps that change neither the bit nor the events, and the link at most between
\* states other than "up".
LEMMA BitFrame ==
    ASSUME BitShown, UNCHANGED <<connected, events>>, (link' = "up") = (link = "up"),
           handler' = handler
             \/ (handler \notin {"lost", "gained"} /\ handler' \notin {"lost", "gained"}),
           NobodyAt(Clearing)' => NobodyAt(Clearing)
    PROVE  BitShown'
<1>1. Settled' = Settled
      BY DEF Settled
<1>. QED  BY <1>1 DEF BitShown

\* And leave the LED alone too.
LEMMA ShownFrame ==
    ASSUME ShownInv, UNCHANGED <<config, shown, events>>, (link' = "up") = (link = "up"),
           handler' = handler
             \/ (handler \notin {"lost", "gained"} /\ handler' \notin {"lost", "gained"}),
           NobodyAt(Clearing)' => NobodyAt(Clearing), NobodyAt(Showing)' => NobodyAt(Showing)
    PROVE  ShownInv'
<1>1. UNCHANGED <<connected, led, outdated>>
      BY DEF shown
<1>2. BitShown'
      BY <1>1, BitFrame, ShownParts
<1>3. LedSettled' => LedSettled
      BY <1>1 DEF LedSettled, Settled, LedConfigurable
<1>4. LedShown'
      BY <1>1, <1>3, NobodyFacts, ShownParts DEF LedShown
<1>. QED  BY <1>2, <1>4 DEF ShownInv, BitShown, LedShown

\* The event of a change of the link is the last one that waits.
LEMMA ShownAppend ==
    ASSUME TypeOK, NEW e \in {"DISCONNECTED", "GOT_IP"}, events' = Append(events, e),
           (e = "GOT_IP") = (link' = "up")
    PROVE  ShownInv'
<1>1. events' # <<>> /\ events'[Len(events')] = e
      BY EventTypes, AppendEvent DEF Events
<1>2. ~Settled'
      BY <1>1 DEF Settled
<1>. QED  BY <1>1, <1>2 DEF ShownInv, LedSettled

\* Before the first part is made, everything is off.
LEMMA NothingRuns ==
    ASSUME StationInv, made = 0
    PROVE  link = "off" /\ events = <<>> /\ handler = "idle" /\ ~connected /\ ~wifi_started
           /\ \A t \in Waiters : start[t] = "none"
BY DEF StationInv

\* The steps of aetus_update_config() keep what is shown: one that has changed the pin has
\* still to show the link on it, and one that has cleared the bit has still to drop the link.
LEMMA ShownUpdate ==
    ASSUME TypeOK, ShownInv, NEW w \in Callers, UpdateStep(w)
    PROVE  ShownInv'
<1>0. RadioType /\ update \in [Callers -> UpdatePcs] /\ BitShown /\ LedShown
      BY TypeParts, EventTypes, ShownParts
<1>. USE DEF shown, flags, radio, runtime, history
<1>1. ASSUME NEW to, update' = [update EXCEPT ![w] = to], update[w] \notin Clearing,
             update[w] \notin Showing \/ to \in Showing
      PROVE  /\ NobodyAt(Clearing)' => NobodyAt(Clearing)
             /\ NobodyAt(Showing)' => NobodyAt(Showing)
      BY <1>1, NobodyMoves
<1>2. CASE UpdateReadsBit(w)
  <2>1. UNCHANGED <<config, shown, link, events, handler>> /\ update[w] = "led"
        BY <1>2 DEF UpdateReadsBit, UpdateAt
  <2>2. NobodyAt(Clearing)' => NobodyAt(Clearing)
    <3>1. PICK to : update' = [update EXCEPT ![w] = to]
          BY <1>2 DEF UpdateReadsBit, UpdateAt
    <3>. QED  BY <2>1, <3>1, NobodyMoves DEF Clearing
  <2>3. BitShown'
        BY <1>0, <2>1, <2>2, BitFrame
  <2>4. CASE ~config.connected_led_enabled \/ ~LedConfigurable(config)
    <3>1. ~LedSettled'
          BY <2>1, <2>4 DEF LedSettled, LedConfigurable
    <3>. QED  BY <2>3, <3>1 DEF ShownInv, BitShown
  <2>5. CASE config.connected_led_enabled /\ LedConfigurable(config)
    <3>1. PICK to \in {"lit", "dark"} : update' = [update EXCEPT ![w] = to]
          BY <1>2, <2>5 DEF UpdateReadsBit, UpdateAt
    <3>2. NobodyAt(Showing)' => NobodyAt(Showing)
          BY <3>1, NobodyMoves DEF Showing
    <3>. QED  BY <2>1, <2>2, <3>2, ShownFrame
  <2>. QED  BY <2>4, <2>5
<1>3. CASE UpdateLed(w)
  <2>1. /\ update[w] \in {"lit", "dark"} /\ update' = [update EXCEPT ![w] = "timer"]
        /\ led' = SetPin(config, update[w] = "lit")
        /\ outdated' = (connected # (update[w] = "lit"))
        /\ UNCHANGED <<config, connected, link, events, handler>>
        BY <1>3 DEF UpdateLed
  <2>2. NobodyAt(Clearing)' => NobodyAt(Clearing)
        BY <2>1, NobodyMoves DEF Clearing
  <2>3. BitShown'
        BY <1>0, <2>1, <2>2, BitFrame
  <2>4. ASSUME LedSettled' PROVE led'[config.number["connected_led_gpio"]] = connected /\ Settled
    <3>1. LedConfigurable(config) /\ config.connected_led_enabled /\ Settled /\ ~outdated'
          BY <2>1, <2>4 DEF LedSettled, LedConfigurable, Settled
    <3>2. config.number["connected_led_gpio"] \in Gpios
          BY <3>1 DEF LedConfigurable
    <3>3. led'[config.number["connected_led_gpio"]] = (update[w] = "lit")
          BY <2>1, <3>2 DEF SetPin
    <3>. QED  BY <2>1, <3>1, <3>3
  <2>5. LedShown'
        BY <1>0, <2>1, <2>2, <2>4, NobodyFacts DEF LedShown, BitShown
  <2>. QED  BY <2>3, <2>5 DEF ShownInv, BitShown, LedShown
<1>4. CASE UpdateTimer(w)
  <2>1. /\ update[w] = "timer" /\ \E to : update' = [update EXCEPT ![w] = to]
        /\ UNCHANGED <<config, shown, link, events, handler>>
        BY <1>4 DEF UpdateTimer, UpdateAt
  <2>. QED  BY <1>1, <2>1, ShownFrame DEF Showing, Clearing
<1>5. CASE UpdateClear(w)
  <2>1. /\ update[w] = "disconnect" /\ update' = [update EXCEPT ![w] = "unlight"]
        /\ connected' = FALSE /\ UNCHANGED <<config, led, outdated, link, events, handler>>
        BY <1>5 DEF UpdateClear, UpdateAt
  <2>2. ~NobodyAt(Clearing)' /\ ~NobodyAt(Showing \cup Clearing)'
        BY <1>0, <2>1 DEF NobodyAt, Clearing
  <2>3. NobodyAt(Showing)' => NobodyAt(Showing)
        BY <1>1, <2>1 DEF Showing, Clearing
  <2>4. Settled' = Settled /\ (LedSettled' => LedSettled)
        BY <2>1 DEF Settled, LedSettled, LedConfigurable
  <2>. QED  BY <2>1, <2>2, <2>3, <2>4 DEF ShownInv
<1>6. CASE UpdateUnlight(w)
  <2>1. /\ update[w] = "unlight" /\ update' = [update EXCEPT ![w] = "flag"]
        /\ led' = SetLed(config, FALSE) /\ UNCHANGED <<config, connected, link, events, handler>>
        BY <1>6 DEF UpdateUnlight, UpdateAt
  <2>2. ~NobodyAt(Clearing)' /\ ~NobodyAt(Showing \cup Clearing)'
        BY <1>0, <2>1 DEF NobodyAt, Clearing
  <2>3. BitShown'
        BY <1>0, <2>1, <2>2, BitFrame
  <2>4. LedSettled' => ~led'[config.number["connected_led_gpio"]]
    <3>1. led \in [Gpios -> BOOLEAN]
          BY <1>0 DEF RadioType
    <3>2. LedSettled' => config.connected_led_enabled /\ LedConfigurable(config)
          BY <2>1 DEF LedSettled, LedConfigurable
    <3>. QED  BY <2>1, <3>1, <3>2, SetLedFacts
  <2>5. LedShown'
        BY <2>1, <2>2, <2>4 DEF LedShown
  <2>. QED  BY <2>3, <2>5 DEF ShownInv, BitShown, LedShown
<1>7. CASE UpdateFlag(w)
  <2>1. /\ update[w] = "flag" /\ update' = [update EXCEPT ![w] = "drop"]
        /\ UNCHANGED <<config, shown, link, events, handler>>
        BY <1>7 DEF UpdateFlag, UpdateAt
  <2>2. ~NobodyAt(Clearing)'
        BY <1>0, <2>1 DEF NobodyAt, Clearing
  <2>3. NobodyAt(Showing)' => NobodyAt(Showing)
        BY <2>1, NobodyMoves DEF Showing
  <2>. QED  BY <2>1, <2>2, <2>3, ShownFrame
<1>8. CASE UpdateDrop(w)
  <2>1. /\ update[w] = "drop" /\ update' = [update EXCEPT ![w] = "apply"]
        /\ UNCHANGED <<config, connected, led, outdated, handler>>
        BY <1>8 DEF UpdateDrop, UpdateAt
  <2>2. CASE link \in {"connecting", "up"}
        BY <1>8, <2>2, ShownAppend DEF UpdateDrop
  <2>3. CASE link \notin {"connecting", "up"}
    <3>1. UNCHANGED <<link, events>>
          BY <1>8, <2>3 DEF UpdateDrop
    <3>2. NobodyAt(Showing)' => NobodyAt(Showing)
          BY <2>1, NobodyMoves DEF Showing
    <3>3. Settled' = Settled /\ (LedSettled' => LedSettled)
          BY <2>1, <3>1 DEF Settled, LedSettled, LedConfigurable
    <3>. QED  BY <2>1, <2>3, <3>1, <3>2, <3>3 DEF ShownInv
  <2>. QED  BY <2>2, <2>3
<1>9. CASE UpdateApply(w) \/ UpdateUnflag(w) \/ UpdateConnect(w)
  <2>1. /\ update[w] \in {"apply", "applied", "failed", "connect"}
        /\ \E to : update' = [update EXCEPT ![w] = to]
        /\ UNCHANGED <<config, shown, events, handler>>
        BY <1>9 DEF UpdateApply, UpdateUnflag, UpdateConnect, UpdateAt
  <2>2. (link' = "up") = (link = "up")
        BY <1>9 DEF UpdateApply, UpdateUnflag, UpdateConnect, EspWifiConnect
  <2>. QED  BY <1>1, <2>1, <2>2, ShownFrame DEF Showing, Clearing
<1>. QED  BY <1>2, <1>3, <1>4, <1>5, <1>6, <1>7, <1>8, <1>9 DEF UpdateStep

\* Whatever overlaps, what is shown ends as the state of the link.
LEMMA ShownStep ==
    ASSUME TypeOK, StationInv, ShownInv, Next
    PROVE  ShownInv'
<1>0. RadioType /\ events \in Seq(Events) /\ config \in Config /\ BitShown /\ LedShown
      BY TypeParts, ShownParts DEF RuntimeType
<1>. USE DEF shown, flags, radio, runtime, history
<1>1. ASSUME UNCHANGED core PROVE ShownInv'
      BY <1>1, ShownFrame, NobodyFacts DEF core
<1>2. ASSUME NEW c \in BootConfigs, AetusStart(c) PROVE ShownInv'
  <2>1. \A g \in Gpios : ~led'[g]
    <3>1. led \in [Gpios -> BOOLEAN] /\ \A g \in Gpios : ~led[g]
          BY <1>0, <1>2 DEF RadioType, AetusStart, StationInv
    <3>2. \A g \in Gpios : ~SetLed(c, FALSE)[g]
          BY <3>1, SetLedFacts
    <3>. QED  BY <1>2, <3>1, <3>2 DEF AetusStart
  <2>2. made = 0 /\ UNCHANGED <<connected, link, events, handler>>
        BY <1>2 DEF AetusStart
  <2>3. link = "off" /\ events = <<>> /\ handler = "idle" /\ ~connected
        BY <2>2, NothingRuns
  <2>4. connected' = FALSE /\ events' = <<>> /\ link' = "off" /\ handler' = "idle"
        BY <1>0, <2>2, <2>3 DEF RadioType
  <2>. QED  BY <2>1, <2>4 DEF ShownInv, Settled, LedSettled, LedConfigurable
<1>3. ASSUME NEW w \in Callers, NEW c \in Config, NEW texts \in {"app", "prov"},
             Updates(w, c, texts)
      PROVE  ShownInv'
  <2>1. UpdateConfig(w, c, texts) /\ UNCHANGED <<shown, link, events, handler>>
        BY <1>3 DEF Updates, UpdateConfig
  <2>2. CASE UNCHANGED <<config, update>>
        BY <2>1, <2>2, ShownFrame, NobodyFacts
  <2>3. CASE UpdateAt(w, "none", "led")
    <3>1. update[w] = "none" /\ update' = [update EXCEPT ![w] = "led"]
          BY <2>3 DEF UpdateAt
    <3>2. ~NobodyAt(Showing)' /\ (NobodyAt(Clearing)' => NobodyAt(Clearing))
      <4>1. "led" \in Showing /\ update[w] \notin Clearing
            BY <3>1 DEF Showing, Clearing
      <4>. QED  BY <3>1, <4>1, NobodyMoves
    <3>3. BitShown'
          BY <1>0, <2>1, <3>2, BitFrame
    <3>. QED  BY <3>2, <3>3, NobodyFacts DEF ShownInv, BitShown
  <2>. QED  BY <2>1, <2>2, <2>3 DEF UpdateConfig
<1>4. ASSUME LinkUp PROVE ShownInv'
      BY <1>4, ShownAppend DEF LinkUp, Emit
<1>5. ASSUME LinkDown PROVE ShownInv'
      BY <1>5, ShownAppend DEF LinkDown, Emit
<1>6. ASSUME HandleEvent PROVE ShownInv'
  <2>1. /\ events # <<>> /\ events' = Tail(events) /\ handler = "idle"
        /\ UNCHANGED <<config, led, outdated, link, update>>
        BY <1>6 DEF HandleEvent
  <2>2. /\ Head(events) = events[1] /\ Head(events) \in Events /\ 1 \in 1..Len(events)
        /\ Len(events) \in Nat /\ Len(events') = Len(events) - 1
        /\ events' # <<>> => events'[Len(events')] = events[Len(events)]
        /\ events' = <<>> => Len(events) = 1
        BY <1>0, <2>1, TakeEvent
  <2>3. CASE events' # <<>>
    <3>1. Len(events) # 1 /\ Len(events) \in 1..Len(events)
      <4>1. events' \in Seq(Events)  BY <1>0, <2>1
      <4>2. Len(events') # 0  BY <2>3, <4>1
      <4>. QED  BY <2>2, <4>2
    <3>2. events[Len(events)] # "START"
          BY <3>1 DEF StationInv
    <3>3. ~Settled /\ ~Settled'
          BY <2>1, <2>2, <2>3, <3>2 DEF Settled
    <3>. QED  BY <2>1, <2>2, <2>3, <3>3 DEF ShownInv, LedSettled
  <2>4. CASE events' = <<>> /\ Head(events) = "START"
    <3>1. Settled /\ Settled'
          BY <2>2, <2>4 DEF Settled
    <3>2. handler' = "connect" /\ UNCHANGED connected
          BY <1>6, <2>4 DEF HandleEvent
    <3>3. LedSettled' => LedSettled
          BY <2>1, <3>1 DEF LedSettled, LedConfigurable
    <3>4. \A pcs : NobodyAt(pcs)' <=> NobodyAt(pcs)
          BY <2>1, NobodyFacts
    <3>. QED  BY <2>1, <3>1, <3>2, <3>3, <3>4 DEF ShownInv
  <2>5. CASE events' = <<>> /\ Head(events) # "START"
    <3>1. ~Settled /\ Settled' /\ events[Len(events)] = Head(events)
          BY <2>1, <2>2, <2>5 DEF Settled
    <3>2. Head(events) = "GOT_IP" <=> link = "up"
          BY <3>1 DEF ShownInv
    <3>3. connected' <=> link' = "up"
          BY <1>6, <2>1, <2>5, <3>2 DEF HandleEvent
    <3>4. handler' = IF Head(events) = "GOT_IP" THEN "gained" ELSE "lost"
          BY <1>6, <2>2, <2>5 DEF HandleEvent, Events
    <3>. QED  BY <2>1, <3>1, <3>2, <3>3, <3>4 DEF ShownInv, LedSettled
  <2>. QED  BY <2>3, <2>4, <2>5
<1>7. ASSUME HandlerLed PROVE ShownInv'
  <2>1. /\ handler \in {"lost", "gained"} /\ handler' \notin {"lost", "gained"}
        /\ UNCHANGED <<config, connected, link, events, update>>
        /\ led' = SetLed(config, handler = "gained")
        BY <1>7 DEF HandlerLed
  <2>2. Settled' = Settled /\ \A pcs : NobodyAt(pcs)' <=> NobodyAt(pcs)
        BY <2>1, NobodyFacts DEF Settled
  <2>3. BitShown'
        BY <1>0, <2>1, <2>2 DEF BitShown
  <2>4. ASSUME LedSettled'
        PROVE  led'[config'.number["connected_led_gpio"]] <=> link' = "up"
    <3>1. Settled /\ config.connected_led_enabled /\ LedConfigurable(config)
          BY <2>1, <2>2, <2>4 DEF LedSettled, LedConfigurable
    <3>2. led \in [Gpios -> BOOLEAN] /\ (handler = "gained") \in BOOLEAN  BY <1>0 DEF RadioType
    <3>3. led'[config.number["connected_led_gpio"]] = (handler = "gained")
          BY <2>1, <3>1, <3>2, SetLedFacts
    <3>. QED  BY <1>0, <2>1, <3>1, <3>3 DEF BitShown
  <2>. QED  BY <2>3, <2>4 DEF ShownInv, BitShown
<1>8. ASSUME HandlerCheck \/ HandlerConnect PROVE ShownInv'
  <2>1. (link' = "up") = (link = "up")
        BY <1>8 DEF HandlerCheck, HandlerConnect, EspWifiConnect
  <2>2. /\ UNCHANGED <<config, shown, events, update>>
        /\ handler \notin {"lost", "gained"} /\ handler' \notin {"lost", "gained"}
        BY <1>8 DEF HandlerCheck, HandlerConnect
  <2>. QED  BY <2>1, <2>2, ShownFrame, NobodyFacts
<1>9. ASSUME SyncRtc PROVE ShownInv'
      BY <1>9, ShownFrame, NobodyFacts DEF SyncRtc
<1>10. ASSUME NEW t \in Waiters, WifiBegin(t) \/ WifiStarted(t) \/ WifiWaited(t) PROVE ShownInv'
  <2>1. UNCHANGED <<config, shown, link, events, handler, update>>
        BY <1>10 DEF WifiBegin, WifiStarted, WifiWaited
  <2>. QED  BY <2>1, ShownFrame, NobodyFacts
<1>11. ASSUME NEW t \in Waiters, WifiStart(t) PROVE ShownInv'
  <2>1. ~netif /\ UNCHANGED <<config, shown, handler, update>>
        BY <1>11 DEF WifiStart
  <2>2. link = "off" /\ events = <<>> /\ handler = "idle"
        BY <2>1 DEF StationInv
  <2>3. CASE link' = "idle" /\ Emit("START")
    <3>1. events' = <<"START">>
          BY <2>2, <2>3 DEF Emit
    <3>2. Settled /\ Settled'
          BY <2>2, <3>1 DEF Settled
    <3>3. LedSettled' => LedSettled
          BY <2>1, <3>2 DEF LedSettled, LedConfigurable
    <3>4. NobodyAt(Showing)' <=> NobodyAt(Showing)
          BY <2>1, NobodyFacts
    <3>. QED  BY <2>1, <2>2, <2>3, <3>2, <3>3, <3>4 DEF ShownInv
  <2>4. CASE UNCHANGED <<link, events>>
        BY <2>1, <2>4, ShownFrame, NobodyFacts
  <2>. QED  BY <1>11, <2>3, <2>4, Zenon DEF WifiStart
<1>. QED  BY <1>1, <1>2, <1>3, <1>4, <1>5, <1>6, <1>7, <1>8, <1>9, <1>10, <1>11, ShownUpdate,
             StationReset, CoreCases DEF CoreStep

-----------------------------------------------------------------------------
(* A station at rest *)

\* A caller of aetus_update_config() that is at the same place still.
Stay(w) == update'[w] = update[w]

\* Steps that leave the flag, the link and the events alone, and take no caller out of
\* the middle of its update.
LEMMA RetryFrame ==
    ASSUME RetryInv, UNCHANGED <<wifi_reconfiguring, link, events, refused>>,
           handler \in {"connect", "lost", "check"} => handler' \in {"connect", "lost", "check"},
           \A w \in Callers : update[w] \in {"drop", "apply", "applied", "failed", "connect"} => Stay(w)
    PROVE  RetryInv'
BY DEF RetryInv, Stay

\* Whatever the order of updates and events, somebody is left to connect the station,
\* unless the driver refused.
LEMMA RetryStep ==
    ASSUME TypeOK, StationInv, RetryInv, Next
    PROVE  RetryInv'
<1>0. RadioType /\ events \in Seq(Events)
      BY TypeParts
<1>. USE DEF shown, flags, radio, runtime, history
<1>1. ASSUME UNCHANGED core PROVE RetryInv'
      BY <1>1, RetryFrame DEF core, Stay
<1>2. ASSUME NEW c \in BootConfigs, AetusStart(c) PROVE RetryInv'
      BY <1>2, RetryFrame DEF AetusStart, Stay
<1>3. ASSUME NEW w \in Callers, NEW c \in Config, NEW texts \in {"app", "prov"},
             Updates(w, c, texts)
      PROVE  RetryInv'
  <2>1. UpdateConfig(w, c, texts) /\ UNCHANGED <<wifi_reconfiguring, link, events, refused, handler>>
        BY <1>3 DEF Updates, UpdateConfig
  <2>2. update[w] = "none" /\ (update' = update \/ \E to : update' = [update EXCEPT ![w] = to])
        BY <2>1 DEF UpdateConfig, UpdateAt
  <2>3. \A v \in Callers :
          update[v] \in {"drop", "apply", "applied", "failed", "connect"} => Stay(v)
        BY <1>0, <2>2 DEF Stay, RadioType
  <2>. QED  BY <2>1, <2>3, RetryFrame
<1>4. ASSUME LinkUp PROVE RetryInv'
      BY <1>4 DEF LinkUp, RetryInv
<1>5. ASSUME LinkDown PROVE RetryInv'
  <2>1. events' = Append(events, "DISCONNECTED") /\ UNCHANGED <<wifi_reconfiguring, update>>
        BY <1>5 DEF LinkDown, Emit
  <2>2. events'[Len(events')] = "DISCONNECTED" /\ Len(events') \in 1..Len(events')
        BY <1>0, <2>1, AppendEvent DEF Events
  <2>. QED  BY <2>1, <2>2 DEF RetryInv
<1>6. ASSUME HandleEvent PROVE RetryInv'
  <2>1. events # <<>> /\ events' = Tail(events) /\ UNCHANGED <<wifi_reconfiguring, link, refused, update>>
        /\ handler = "idle"
        BY <1>6 DEF HandleEvent
  <2>2. /\ Head(events) = events[1] /\ Head(events) \in Events
        /\ \A i \in 1..Len(events) : i = 1 \/ (i - 1 \in 1..Len(events') /\ events'[i - 1] = events[i])
        BY <1>0, <2>1, TakeEvent
  <2>3. CASE Head(events) \in {"START", "DISCONNECTED"}
    <3>1. handler' \in {"connect", "lost"}
          BY <1>6, <2>3 DEF HandleEvent
    <3>. QED  BY <2>1, <3>1 DEF RetryInv
  <2>4. CASE Head(events) \notin {"START", "DISCONNECTED"}
    <3>1. ASSUME NEW i \in 1..Len(events), events[i] \in {"START", "DISCONNECTED"}
          PROVE  \E j \in 1..Len(events') : events'[j] \in {"START", "DISCONNECTED"}
          BY <2>2, <2>4, <3>1
    <3>. QED  BY <2>1, <3>1 DEF RetryInv
  <2>. QED  BY <2>3, <2>4
<1>7. ASSUME HandlerLed PROVE RetryInv'
  <2>1. UNCHANGED <<wifi_reconfiguring, link, events, refused, update>>
        /\ handler \in {"lost", "gained"} /\ (handler = "lost" => handler' = "check")
        BY <1>7 DEF HandlerLed
  <2>. QED  BY <2>1, RetryFrame DEF Stay
<1>8. ASSUME HandlerCheck PROVE RetryInv'
  <2>1. UNCHANGED <<wifi_reconfiguring, link, events, refused, update>>
        /\ handler' = IF wifi_reconfiguring THEN "idle" ELSE "connect"
        BY <1>8 DEF HandlerCheck
  <2>. QED  BY <2>1 DEF RetryInv
<1>9. ASSUME HandlerConnect PROVE RetryInv'
  <2>1. UNCHANGED <<wifi_reconfiguring, events, update>> /\ EspWifiConnect
        BY <1>9 DEF HandlerConnect
  <2>2. link' = "idle" => refused'
        BY <2>1 DEF EspWifiConnect
  <2>. QED  BY <2>1, <2>2 DEF RetryInv
<1>10. ASSUME SyncRtc PROVE RetryInv'
      BY <1>10, RetryFrame DEF SyncRtc, Stay
<1>11. ASSUME NEW t \in Waiters, WifiBegin(t) \/ WifiStarted(t) \/ WifiWaited(t) PROVE RetryInv'
      BY <1>11, RetryFrame DEF WifiBegin, WifiStarted, WifiWaited, Stay
<1>12. ASSUME NEW t \in Waiters, WifiStart(t) PROVE RetryInv'
  <2>1. ~netif /\ UNCHANGED <<wifi_reconfiguring, handler, update, refused>>
        BY <1>12 DEF WifiStart
  <2>2. link = "off" /\ events = <<>>
        BY <2>1 DEF StationInv
  <2>3. CASE link' = "idle" /\ Emit("START")
    <3>1. events' = <<"START">>
          BY <2>2, <2>3 DEF Emit
    <3>2. Len(events') = 1 /\ events'[1] = "START" /\ 1 \in 1..Len(events')
          BY <3>1
    <3>. QED  BY <2>1, <3>2 DEF RetryInv
  <2>4. CASE UNCHANGED <<link, events>>
        BY <2>1, <2>4, RetryFrame DEF Stay
  <2>. QED  BY <1>12, <2>3, <2>4, Zenon DEF WifiStart
<1>13. ASSUME NEW w \in Callers,
              \/ UpdateReadsBit(w) \/ UpdateLed(w) \/ UpdateTimer(w) \/ UpdateClear(w)
              \/ UpdateUnlight(w)
       PROVE  RetryInv'
  <2>1. /\ UNCHANGED <<wifi_reconfiguring, link, events, refused, handler>>
        /\ update[w] \in {"led", "lit", "dark", "timer", "disconnect", "unlight"}
        /\ \E to : update' = [update EXCEPT ![w] = to]
        BY <1>13 DEF UpdateReadsBit, UpdateLed, UpdateTimer, UpdateClear, UpdateUnlight, UpdateAt
  <2>2. \A v \in Callers :
          update[v] \in {"drop", "apply", "applied", "failed", "connect"} => Stay(v)
        BY <1>0, <2>1 DEF Stay, RadioType
  <2>. QED  BY <2>1, <2>2, RetryFrame
<1>14. ASSUME NEW w \in Callers, UpdateFlag(w) \/ UpdateDrop(w) \/ UpdateApply(w) PROVE RetryInv'
  <2>1. update'[w] \in {"drop", "apply", "applied", "failed"}
        BY <1>0, <1>14 DEF UpdateFlag, UpdateDrop, UpdateApply, UpdateAt, RadioType
  <2>. QED  BY <2>1 DEF RetryInv
<1>15. ASSUME NEW w \in Callers, UpdateUnflag(w) PROVE RetryInv'
  <2>1. wifi_reconfiguring' = FALSE /\ UNCHANGED link
        BY <1>15 DEF UpdateUnflag
  <2>2. update'[w] = "connect" \/ refused' = (refused \/ link = "idle")
        BY <1>0, <1>15 DEF UpdateUnflag, UpdateAt, RadioType
  <2>. QED  BY <2>1, <2>2 DEF RetryInv
<1>16. ASSUME NEW w \in Callers, UpdateConnect(w) PROVE RetryInv'
  <2>1. EspWifiConnect /\ UNCHANGED wifi_reconfiguring
        BY <1>16 DEF UpdateConnect
  <2>2. link' = "idle" => refused'
        BY <2>1 DEF EspWifiConnect
  <2>3. \A v \in Callers : update[v] # "connect" => update'[v] = update[v]
        BY <1>0, <1>16 DEF UpdateConnect, UpdateAt, RadioType
  <2>. QED  BY <2>1, <2>2, <2>3 DEF RetryInv
<1>. QED  BY <1>1, <1>2, <1>3, <1>4, <1>5, <1>6, <1>7, <1>8, <1>9, <1>10, <1>11, <1>12, <1>13,
             <1>14, <1>15, <1>16, StationReset, CoreCases DEF CoreStep, UpdateStep

-----------------------------------------------------------------------------
(* The configuration that the driver holds *)

\* The driver was given a configuration, or is about to be started with it.
Configured == wifi_started \/ \E t \in Waiters : start[t] = "flag"

\* Some update has yet to apply the running configuration.
Applying == \E w \in Callers : update[w] \in Undropped \cup {"apply"}

\* Steps that touch neither the running configuration nor the driver's.
LEMMA AppliedFrame ==
    ASSUME AppliedInv, Running' = Running, UNCHANGED <<sta, eap, unapplied>>,
           owner' = "prov" => started', Configured' => Configured, Applying => Applying'
    PROVE  AppliedInv'
BY DEF AppliedInv, DriverMatches, Configured, Applying

\* wifi_apply_sta_config() makes the driver hold the running configuration.
LEMMA AppliedNow ==
    ASSUME ApplyStaConfig, Running' = Running, owner' = "prov" => started'
    PROVE  AppliedInv'
BY DEF ApplyStaConfig, AppliedInv, DriverMatches

\* An update that passes the checks has yet to apply what it assigned.
LEMMA AppliedUpdate ==
    ASSUME TypeOK, AppliedInv, NEW w \in Callers, NEW c, NEW texts, UpdateConfig(w, c, texts),
           texts = "prov" => started, UNCHANGED started
    PROVE  AppliedInv'
<1>. USE DEF shown, flags, radio, runtime, history
<1>1. /\ UNCHANGED <<sta, eap, wifi_started, start, buffers, unapplied>>
      /\ update \in [Callers -> UpdatePcs]
      BY EventTypes DEF UpdateConfig
<1>2. CASE UNCHANGED <<config, owner, update>>
  <2>1. Running' = Running
        BY <1>1, <1>2 DEF Running
  <2>2. (owner' = "prov" => started') /\ Configured' = Configured /\ Applying' = Applying
        BY <1>1, <1>2 DEF AppliedInv, Configured, Applying
  <2>. QED  BY <1>1, <1>2, <2>1, <2>2, AppliedFrame
<1>3. CASE owner' = texts /\ UpdateAt(w, "none", "led")
  <2>1. update'[w] \in Undropped
        BY <1>1, <1>3 DEF UpdateAt, Undropped, Showing
  <2>. QED  BY <1>3, <2>1 DEF AppliedInv
<1>. QED  BY <1>2, <1>3, Zenon DEF UpdateConfig

\* It goes on to apply it, or ends with a reason.
LEMMA AppliedSteps ==
    ASSUME TypeOK, AppliedInv, NEW w \in Callers, UpdateStep(w), UNCHANGED started
    PROVE  AppliedInv'
<1>0. update \in [Callers -> UpdatePcs]
      BY EventTypes
<1>. USE DEF shown, flags, radio, runtime, history
<1>1. /\ UNCHANGED <<config, owner, buffers, wifi_started, start>>
      /\ Running' = Running /\ (owner' = "prov" => started')
      BY UpdateFrame DEF Running, AppliedInv
<1>2. ASSUME update'[w] \in Undropped \cup {"apply"} PROVE AppliedInv'
      BY <1>1, <1>2 DEF AppliedInv
<1>3. ASSUME unapplied' # {} PROVE AppliedInv'
      BY <1>1, <1>3 DEF AppliedInv
<1>4. CASE UpdateReadsBit(w)
      BY <1>0, <1>2, <1>3, <1>4 DEF UpdateReadsBit, UpdateAt, Undropped, Showing
<1>5. CASE UpdateTimer(w)
  <2>1. CASE wifi_started
        BY <1>0, <1>2, <1>5, <2>1 DEF UpdateTimer, UpdateAt, Undropped
  <2>2. CASE ~wifi_started /\ \E t \in Waiters : start[t] = "flag"
        BY <1>3, <1>5, <2>2 DEF UpdateTimer
  <2>3. CASE ~wifi_started /\ ~\E t \in Waiters : start[t] = "flag"
        BY <1>1, <2>3 DEF AppliedInv
  <2>. QED  BY <2>1, <2>2, <2>3
<1>6. CASE UpdateLed(w) \/ UpdateClear(w) \/ UpdateUnlight(w) \/ UpdateFlag(w) \/ UpdateDrop(w)
  <2>1. update'[w] \in Undropped \cup {"apply"}
        BY <1>0, <1>6 DEF UpdateLed, UpdateClear, UpdateUnlight, UpdateFlag, UpdateDrop, UpdateAt,
           Undropped, Clearing
  <2>. QED  BY <1>2, <2>1
<1>7. CASE UpdateApply(w)
  <2>1. CASE ApplyStaConfig
        BY <1>1, <2>1, AppliedNow
  <2>2. CASE ApplyFails
        BY <1>3, <2>2 DEF ApplyFails
  <2>. QED  BY <1>7, <2>1, <2>2 DEF UpdateApply
<1>8. CASE UpdateUnflag(w) \/ UpdateConnect(w)
  <2>1. /\ UNCHANGED <<sta, eap, unapplied>> /\ update[w] \in {"applied", "failed", "connect"}
        /\ \E to : update' = [update EXCEPT ![w] = to]
        BY <1>8 DEF UpdateUnflag, UpdateConnect, UpdateAt
  <2>2. Applying => Applying'
    <3>1. \A v \in Callers : update[v] \in Undropped \cup {"apply"} => update'[v] = update[v]
          BY <1>0, <2>1 DEF Undropped, Showing, Clearing
    <3>. QED  BY <3>1 DEF Applying
  <2>3. Configured' = Configured
        BY <1>1 DEF Configured
  <2>. QED  BY <1>1, <2>1, <2>2, <2>3, AppliedFrame
<1>. QED  BY <1>4, <1>5, <1>6, <1>7, <1>8 DEF UpdateStep

\* What the driver lacks of the running configuration is known or on its way.
LEMMA AppliedStep ==
    ASSUME TypeOK, StationInv, AppliedInv, Next
    PROVE  AppliedInv'
<1>0. RadioType /\ BleType /\ RuntimeType
      BY TypeParts
<1>. USE DEF shown, flags, radio, runtime, history
<1>1. ASSUME UNCHANGED <<config, owner, buffers, sta, eap, unapplied, started, update>>,
             Configured' => Configured
      PROVE  AppliedInv'
  <2>1. Running' = Running /\ (owner' = "prov" => started') /\ Applying' = Applying
        BY <1>1 DEF Running, AppliedInv, Applying
  <2>. QED  BY <1>1, <2>1, AppliedFrame
<1>2. ASSUME NEW t \in Waiters, NEW from \in {"none", "wait", "fetch"}, NEW to \in {"none", "init", "wait", "fetch"},
             StartAt(t, from, to), UNCHANGED wifi_started
      PROVE  Configured' => Configured
      BY <1>0, <1>2 DEF Configured, StartAt, RadioType
<1>3. ASSUME WifiStep, UNCHANGED provVars PROVE AppliedInv'
  <2>0. UNCHANGED started
        BY <1>3 DEF provVars
  <2>1. ASSUME NEW c \in BootConfigs, AetusStart(c) PROVE AppliedInv'
    <3>1. made = 0 /\ owner' = "app" /\ UNCHANGED <<wifi_started, start>>
          BY <2>1 DEF AetusStart
    <3>2. ~wifi_started /\ \A t \in Waiters : start[t] = "none"
          BY <3>1, NothingRuns
    <3>. QED  BY <3>1, <3>2 DEF AppliedInv
  <2>2. ASSUME NEW c \in AppConfigs, UpdateConfig("app", c, "app") PROVE AppliedInv'
        BY <2>0, <2>2, AppliedUpdate DEF Callers
  <2>3. CASE LinkUp \/ LinkDown \/ HandleEvent \/ HandlerLed \/ HandlerCheck \/ HandlerConnect
        BY <1>1, <2>0, <2>3 DEF LinkUp, LinkDown, HandleEvent, HandlerLed, HandlerCheck,
           HandlerConnect, Configured
  <2>4. CASE SyncRtc
    <3>1. StartAt("rtc", "fetch", "none") /\ UNCHANGED wifi_started
          BY <2>4 DEF SyncRtc
    <3>2. Configured' => Configured
          BY <1>2, <3>1 DEF Waiters
    <3>. QED  BY <1>1, <2>0, <2>4, <3>2 DEF SyncRtc
  <2>5. ASSUME NEW t \in Waiters, WifiBegin(t) PROVE AppliedInv'
    <3>1. UNCHANGED wifi_started /\ (StartAt(t, "none", "wait") \/ StartAt(t, "none", "init"))
          BY <2>5 DEF WifiBegin
    <3>2. Configured' => Configured
          BY <1>2, <3>1
    <3>. QED  BY <1>1, <2>0, <2>5, <3>2 DEF WifiBegin
  <2>6. ASSUME NEW t \in Waiters, WifiWaited(t) PROVE AppliedInv'
    <3>1. UNCHANGED wifi_started /\ (StartAt(t, "wait", "fetch") \/ StartAt(t, "wait", "none"))
          BY <2>6 DEF WifiWaited
    <3>2. Configured' => Configured
          BY <1>2, <3>1
    <3>. QED  BY <1>1, <2>0, <2>6, <3>2 DEF WifiWaited
  <2>7. ASSUME NEW t \in Waiters, WifiStarted(t) PROVE AppliedInv'
    <3>1. Configured
          BY <2>7 DEF WifiStarted, StartAt, Configured
    <3>. QED  BY <1>1, <2>0, <2>7, <3>1 DEF WifiStarted
  <2>8. ASSUME NEW t \in Waiters, WifiStart(t) PROVE AppliedInv'
    <3>1. ~netif /\ UNCHANGED <<config, owner, buffers, wifi_started>>
          BY <2>8 DEF WifiStart
    <3>2. Running' = Running /\ (owner' = "prov" => started')
          BY <2>0, <3>1 DEF Running, AppliedInv
    <3>3. CASE ApplyStaConfig
          BY <3>2, <3>3, AppliedNow
    <3>4. CASE StartAt(t, "init", "none")
      <4>1. ~wifi_started' /\ \A s \in Waiters : start'[s] # "flag"
            BY <1>0, <3>1, <3>4 DEF StartAt, StationInv, RadioType
      <4>. QED  BY <3>2, <4>1 DEF AppliedInv
    <3>. QED  BY <2>8, <3>3, <3>4 DEF WifiStart
  <2>9. ASSUME NEW w \in Callers, UpdateStep(w) PROVE AppliedInv'
        BY <2>0, <2>9, AppliedSteps
  <2>. QED  BY <1>3, <2>1, <2>2, <2>3, <2>4, <2>5, <2>6, <2>7, <2>8, <2>9 DEF WifiStep
<1>4. CASE StartProvisioning
  <2>1. ~started /\ UNCHANGED <<config, owner, sta, eap, unapplied, wifi_started, start, update>>
        BY <1>4, Zenon DEF StartProvisioning
  <2>2. owner # "prov" /\ owner' = owner
        BY <2>1 DEF AppliedInv
  <2>3. Running' = Running /\ Applying' = Applying /\ Configured' = Configured
        BY <2>1, <2>2 DEF Running, Applying, Configured
  <2>. QED  BY <2>1, <2>2, <2>3, AppliedFrame
<1>5. CASE OnSync \/ OnReset \/ GapConnect \/ GapRetry \/ GapDisconnect \/ DisconnectTimeout
      BY <1>1, <1>5 DEF OnSync, OnReset, GapConnect, GapRetry, GapDisconnect, DisconnectTimeout,
         hostOnly, Configured
<1>6. ASSUME NEW f, NEW x, WriteText(f, x) PROVE AppliedInv'
  <2>1. UNCHANGED <<config, owner, sta, eap, started, update, wifi_started, start>>
        /\ unapplied' = IF owner = "prov" /\ buffers' # buffers
                        THEN unapplied \cup {"in place"} ELSE unapplied
        BY <1>6 DEF WriteText, writeOnly
  <2>2. CASE owner = "prov" /\ buffers' # buffers
        BY <2>1, <2>2 DEF AppliedInv
  <2>3. CASE ~(owner = "prov" /\ buffers' # buffers)
    <3>1. Running' = Running /\ UNCHANGED unapplied
          BY <2>1, <2>3 DEF Running
    <3>2. Applying' = Applying /\ Configured' = Configured /\ (owner' = "prov" => started')
          BY <2>1 DEF Applying, Configured, AppliedInv
    <3>. QED  BY <2>1, <3>1, <3>2, AppliedFrame
  <2>. QED  BY <2>2, <2>3
<1>7. ASSUME NEW f, NEW x, WriteNumber(f, x) \/ WriteAuth(x) \/ WriteLedEnabled(x)
      PROVE  AppliedInv'
      BY <1>1, <1>7 DEF WriteNumber, WriteAuth, WriteLedEnabled, writeOnly, Configured
<1>8. CASE WriteApply
  <2>1. started /\ UNCHANGED started /\ \E c : UpdateConfig("ble", c, "prov")
        BY <1>8 DEF WriteApply, HostFree, provVars
  <2>. QED  BY <2>1, AppliedUpdate DEF Callers
<1>9. CASE Panic
  <2>1. owner' = "app" /\ wifi_started' = FALSE /\ start' = [t \in Waiters |-> "none"]
        BY <1>9, Zenon DEF Panic, WifiReset
  <2>. QED  BY <2>1 DEF AppliedInv
<1>. QED  BY <1>3, <1>4, <1>5, <1>6, <1>7, <1>8, <1>9 DEF Next, HostStep

-----------------------------------------------------------------------------
(* The theorems *)

\* The inductive invariant.
Inv == /\ TypeOK /\ EventBound /\ StationInv /\ ShownInv /\ RetryInv /\ AppliedInv
       /\ ProvisioningReachable

\* The device at power-up.
LEMMA InitInv == Init => Inv
<1>. SUFFICES ASSUME Init PROVE Inv
     OBVIOUS
<1>1. /\ made = 0 /\ config = EmptyConfig /\ owner = "app" /\ buffers = EmptyConfig.text
      /\ connected = FALSE /\ led = [g \in Gpios |-> FALSE] /\ outdated = FALSE
      /\ wifi_started = FALSE /\ wifi_reconfiguring = FALSE
      /\ netif = FALSE /\ sta = NoSta /\ eap = NoEap /\ link = "off" /\ events = <<>>
      /\ handler = "idle" /\ start = [t \in Waiters |-> "none"]
      /\ update = [w \in Callers |-> "none"]
      /\ rtc = 0 /\ refused = FALSE /\ unapplied = {}
      BY Zenon DEF Init, WifiInit
<1>2. /\ pending = EmptyConfig /\ nimble = FALSE /\ started = FALSE /\ synced = FALSE
      /\ advertising = FALSE /\ advFailed = FALSE /\ session = FALSE /\ callout = "off"
      /\ spent = [k \in DOMAIN Limit |-> 0]
      BY Zenon DEF Init, ProvInit
<1>3. RuntimeType
      BY <1>1, <1>2, EmptyConfigFacts DEF RuntimeType, AllMade, QueueMade
<1>4. RadioType /\ RestType
      BY <1>1 DEF RadioType, RestType, UpdatePcs
<1>5. BleType
      BY <1>2 DEF BleType
<1>6. spent["update"] = 0 /\ spent \in [DOMAIN Limit -> Nat] /\ MaxEvents \in Nat
      BY <1>2, WifiLifecycleAssumption
<1>7. Len(events) = 0 /\ events \in Seq(Events)
      BY <1>1
<1>8. Disconnecting("app") = 0 /\ Disconnecting("ble") = 0
      BY <1>1 DEF Disconnecting, Callers, Undropped, Showing, Clearing
<1>9. TypeOK /\ EventBound
      BY <1>3, <1>4, <1>5, <1>6, <1>7, <1>8, TypeParts DEF EventBound
<1>10. StationInv
      BY <1>1 DEF StationInv, Waiters, Callers
<1>11. ShownInv
      BY <1>1 DEF ShownInv, Settled, LedSettled, EmptyConfig
<1>12. RetryInv /\ AppliedInv /\ ProvisioningReachable
      BY <1>1, <1>2 DEF RetryInv, AppliedInv, ProvisioningReachable
<1>. QED  BY <1>9, <1>10, <1>11, <1>12 DEF Inv

\* A step that changes nothing.
LEMMA StutterStep == Inv /\ UNCHANGED vars => Inv'
<1>. SUFFICES ASSUME Inv, UNCHANGED vars PROVE Inv'
     OBVIOUS
<1>1. UNCHANGED <<made, config, owner, buffers, connected, led, outdated, wifi_started,
                  wifi_reconfiguring, netif, sta, eap, link, events, handler, start, update, rtc, refused, unapplied,
                  spent, pending, nimble, started, synced, advertising, advFailed, session, callout>>
      BY DEF vars, wifiVars, provVars, runtime, shown, flags, radio, history
<1>2. TypeOK'
  <2>1. /\ RuntimeType /\ RadioType /\ BleType /\ RestType /\ events \in Seq(Events)
        /\ Len(events) <= MaxEvents + spent["update"] /\ spent \in [DOMAIN Limit -> Nat]
        BY TypeParts DEF Inv
  <2>2. RuntimeType' /\ RestType'
        BY <1>1, <2>1 DEF RuntimeType, RestType
  <2>3. RadioType' /\ BleType'
        BY <1>1, <2>1 DEF RadioType, BleType
  <2>4. /\ events' \in Seq(Events) /\ Len(events') <= MaxEvents + spent'["update"]
        /\ spent' \in [DOMAIN Limit -> Nat]
        BY <1>1, <2>1
  <2>. QED  BY <2>2, <2>3, <2>4 DEF TypeOK, RuntimeType, RadioType, BleType, RestType, Events, UpdatePcs
<1>3. EventBound'
      BY <1>1 DEF Inv, EventBound, Disconnecting
<1>4. StationInv' /\ RetryInv'
      BY <1>1 DEF Inv, StationInv, RetryInv
<1>5. ShownInv'
      BY <1>1, ShownFrame, NobodyFacts DEF Inv, shown
<1>6. Running' = Running /\ Applying' = Applying /\ Configured' = Configured
      BY <1>1 DEF Running, Applying, Configured
<1>7. owner' = "prov" => started'
      BY <1>1 DEF Inv, AppliedInv
<1>8. AppliedInv'
      BY <1>1, <1>6, <1>7, AppliedFrame DEF Inv
<1>9. ProvisioningReachable'
      BY <1>1 DEF Inv, ProvisioningReachable
<1>. QED  BY <1>2, <1>3, <1>4, <1>5, <1>8, <1>9 DEF Inv

\* The inductive invariant of the Wi-Fi life cycle and the BLE service.
THEOREM DeviceInvariant == Spec => []Inv
<1>1. Init => Inv
      BY InitInv
<1>2. Inv /\ [Next]_vars => Inv'
  <2>. SUFFICES ASSUME Inv, Next PROVE Inv'
       BY StutterStep
  <2>1. TypeOK' /\ EventBound'
        BY TypeStep DEF Inv
  <2>2. StationInv' /\ ShownInv' /\ RetryInv'
        BY StationStep, ShownStep, RetryStep DEF Inv
  <2>3. AppliedInv' /\ ProvisioningReachable'
        BY AppliedStep, ReachableStep DEF Inv
  <2>. QED  BY <2>1, <2>2, <2>3 DEF Inv
<1>. QED  BY <1>1, <1>2, PTL DEF Spec

\* Every variable keeps its type; in particular the runtime never holds a configuration
\* that its checks refuse, no GATT buffer overflows, and the events waiting for
\* wifi_event_handler() outgrow the queue by one for each aetus_update_config() at most.
THEOREM TypesTheorem == Spec => []TypeOK
BY DeviceInvariant, PTL DEF Inv

\* Whenever the BLE service has no session it is advertised, or its last attempt to
\* advertise failed: provisioning_gap_event() never forgets to advertise again.
THEOREM ReachableTheorem == Spec => []ProvisioningReachable
BY DeviceInvariant, PTL DEF Inv

\* Once wifi_event_handler() and every aetus_update_config() are done, a started station
\* that is neither connected nor connecting was refused by the driver: the flag
\* wifi_reconfiguring never swallows the last chance to connect.
THEOREM OfflineTheorem == Spec => []OfflineIsExplained
<1>1. Inv => OfflineIsExplained
  <2>. SUFFICES ASSUME Inv, Quiet, link = "idle" PROVE refused
       BY DEF OfflineIsExplained
  <2>1. handler = "idle" /\ events = <<>> /\ \A w \in Callers : update[w] = "none"
        BY DEF Quiet
  <2>2. ~\E i \in 1..Len(events) : events[i] \in {"START", "DISCONNECTED"}
        BY <2>1
  <2>. QED  BY <2>1, <2>2 DEF Inv, RetryInv
<1>. QED  BY <1>1, DeviceInvariant, PTL

\* Once the handler and the updates are done, AETUS_WIFI_CONNECTED_BIT is the state of the
\* link, and so is the LED on the pin that is configured now, unless an event came
\* between configure_connected_led()'s read of the bit and its write of the pin and nothing
\* has set the pin since.
THEOREM ShownTheorem == Spec => []LinkIsShown
<1>1. Inv => LinkIsShown
  <2>. SUFFICES ASSUME Inv, Quiet
                PROVE  /\ connected = (link = "up")
                       /\ ~outdated /\ config.connected_led_enabled /\ LedConfigurable(config)
                            => led[config.number["connected_led_gpio"]] = (link = "up")
       BY DEF LinkIsShown
  <2>1. Settled /\ handler = "idle"
        BY DEF Quiet, Settled
  <2>2. RadioType
        BY TypeParts DEF Inv
  <2>3. NobodyAt(Showing) /\ NobodyAt(Clearing) /\ NobodyAt(Showing \cup Clearing)
        BY DEF Quiet, NobodyAt, Showing, Clearing
  <2>4. connected = (link = "up")
        BY <2>1, <2>2, <2>3 DEF Inv, ShownInv, RadioType
  <2>5. ASSUME ~outdated, config.connected_led_enabled, LedConfigurable(config)
        PROVE  led[config.number["connected_led_gpio"]] = (link = "up")
    <3>1. LedSettled
          BY <2>1, <2>5 DEF LedSettled
    <3>2. led[config.number["connected_led_gpio"]] <=> link = "up"
          BY <2>3, <3>1 DEF Inv, ShownInv
    <3>3. led[config.number["connected_led_gpio"]] \in BOOLEAN
          BY <2>2, <2>5 DEF RadioType, LedConfigurable
    <3>. QED  BY <3>2, <3>3
  <2>. QED  BY <2>4, <2>5
<1>. QED  BY <1>1, DeviceInvariant, PTL

\* When no update failed, came early or was bypassed by a write in place, the driver of a
\* device at rest holds the Wi-Fi texts of the running configuration, whichever of the
\* application and the BLE host gave it last.
THEOREM DriverTheorem == Spec => []DriverHasRunningConfig
<1>1. Inv => DriverHasRunningConfig
  <2>. SUFFICES ASSUME Inv, Quiet, wifi_started, unapplied = {}
                PROVE  LET text == Running.text
                       IN  /\ sta.auth = config.wifi_auth
                           /\ text["wifi_ssid"] # "full" => sta.ssid = text["wifi_ssid"]
                           /\ config.wifi_auth = "psk" /\ text["wifi_password"] # "full"
                                => sta.password = text["wifi_password"]
                           /\ config.wifi_auth = "peap"
                                => eap = [identity |-> text["wifi_identity"],
                                          password |-> text["wifi_password"]]
       BY DEF DriverHasRunningConfig
  <2>1. DriverMatches
        BY DEF Inv, AppliedInv, Quiet, Undropped, Showing, Clearing
  <2>2. Running.wifi_auth = config.wifi_auth
        BY TypeParts, RunningFacts DEF Inv, RuntimeType
  <2>. QED  BY <2>1, <2>2 DEF DriverMatches, StaConfig, EapConfig, StaText
<1>. QED  BY <1>1, DeviceInvariant, PTL

\* An answer that the transport delivered, with a 2xx status and pieces that add up to
\* less than the buffer, holds the new time as a number, and the time is plausible.
ToldByServer ==
    \E a \in Answers :
       /\ ~a.err /\ a.status \div 100 = 2 /\ Arrived(a.chunks) < BodyCapacity
       /\ \E i \in DOMAIN a.body : a.body[i].kind = "number" /\ a.body[i].seconds = rtc'
       /\ rtc' >= RtcValidAfter

\* A new time, other than after a reset, comes from such an answer.
ClockIsTold == rtc' \notin {rtc, 0} => ToldByServer

\* aetus_sync_rtc() sets the clock, if at all, to a plausible time that stands in an
\* answer it may take, in however many pieces it came, and nothing else but a reset
\* touches the clock (RtcFromWholeAnswer).
THEOREM ClockTheorem == Spec => RtcFromWholeAnswer
<1>. USE DEF shown, flags, radio, runtime, history
<1>1. Next => ClockIsTold
  <2>. SUFFICES ASSUME Next PROVE rtc' \in {rtc, 0} \/ ToldByServer
       BY DEF ClockIsTold
  <2>1. ASSUME SyncRtc PROVE rtc' = rtc \/ ToldByServer
    <3>1. CASE rtc' = rtc  BY <3>1
    <3>2. ASSUME NEW a \in Answers,
                 ~a.err, a.status \in 200..299, ~Body(a.chunks).overflow,
                 \E i \in 1..Len(a.body) : a.body[i].kind = "number" /\ a.body[i].seconds = rtc',
                 rtc' >= RtcValidAfter
          PROVE  ToldByServer
      <4>1. a.chunks \in Seq(Nat) /\ a.body \in Seq(Tokens)
            BY WifiLifecycleAssumption DEF HttpAnswers
      <4>2. Arrived(a.chunks) < BodyCapacity  BY <3>2, <4>1, WholeFits
      <4>3. a.status \div 100 = 2
        <5>1. \A n \in 200..299 : n \div 100 = 2  OBVIOUS
        <5>. QED  BY <3>2, <5>1
      <4>4. DOMAIN a.body = 1..Len(a.body)  BY <4>1
      <4>. QED  BY <3>2, <4>2, <4>3, <4>4 DEF ToldByServer
    <3>. QED  BY <2>1, <3>1, <3>2, SyncRtcFacts
  <2>2. ASSUME NEW w, NEW c, NEW texts, UpdateConfig(w, c, texts) PROVE rtc' = rtc
        BY <2>2 DEF UpdateConfig
  <2>3. ASSUME WifiStep PROVE rtc' = rtc \/ ToldByServer
    <3>1. ASSUME NEW c \in BootConfigs, AetusStart(c) PROVE rtc' = rtc
          BY <3>1 DEF AetusStart
    <3>2. ASSUME LinkUp \/ LinkDown \/ HandleEvent \/ HandlerLed \/ HandlerCheck \/ HandlerConnect
          PROVE  rtc' = rtc
          BY <3>2 DEF LinkUp, LinkDown, HandleEvent, HandlerLed, HandlerCheck, HandlerConnect
    <3>3. ASSUME NEW t \in Waiters, WifiBegin(t) \/ WifiStart(t) \/ WifiStarted(t) \/ WifiWaited(t)
          PROVE  rtc' = rtc
          BY <3>3, Zenon DEF WifiBegin, WifiStart, WifiStarted, WifiWaited
    <3>4. ASSUME NEW w \in Callers, UpdateStep(w) PROVE rtc' = rtc
          BY <3>4, UpdateFrame
    <3>. QED  BY <2>1, <2>2, <2>3, <3>1, <3>2, <3>3, <3>4 DEF WifiStep
  <2>4. ASSUME StartProvisioning PROVE rtc' = rtc
        BY <2>4, Zenon DEF StartProvisioning
  <2>5. ASSUME OnSync \/ OnReset \/ GapConnect \/ GapRetry \/ GapDisconnect \/ DisconnectTimeout
        PROVE  rtc' = rtc
        BY <2>5 DEF OnSync, OnReset, GapConnect, GapRetry, GapDisconnect, DisconnectTimeout, hostOnly
  <2>6. ASSUME NEW f, NEW x, WriteText(f, x) \/ WriteNumber(f, x) \/ WriteAuth(x) \/ WriteLedEnabled(x)
        PROVE  rtc' = rtc
        BY <2>6, Zenon DEF WriteText, WriteNumber, WriteAuth, WriteLedEnabled, writeOnly
  <2>7. ASSUME WriteApply PROVE rtc' = rtc
        BY <2>2, <2>7 DEF WriteApply
  <2>8. ASSUME Panic PROVE rtc' = 0
        BY <2>8, Zenon DEF Panic, WifiReset
  <2>. QED  BY <2>3, <2>4, <2>5, <2>6, <2>7, <2>8 DEF Next, HostStep
<1>2. [Next]_vars => [rtc' \notin {rtc, 0} =>
         \E a \in Answers :
            /\ ~a.err /\ a.status \div 100 = 2
            /\ FoldLeft(LAMBDA sum, n : sum + n, 0, a.chunks) < BodyCapacity
            /\ \E i \in DOMAIN a.body : a.body[i].kind = "number" /\ a.body[i].seconds = rtc'
            /\ rtc' >= RtcValidAfter]_vars
      BY <1>1 DEF ClockIsTold, ToldByServer, Arrived
<1>. QED  BY <1>2, PTL DEF Spec, RtcFromWholeAnswer

=============================================================================
