------------------------ MODULE TelemetryOwnershipProofs ------------------------
(***************************************************************************)
(* Who owns the heap blocks of a telemetry message, for any structs,       *)
(* values, sizes of the struct and of its table, and depth of the queue.   *)
(***************************************************************************)
EXTENDS TelemetryOwnership, FiniteSetTheorems, TLAPS

-------------------------------------------------------------------------------
(* pvPortMalloc().                                                         *)

\* The free addresses up to a.
Free(D, a) == {b \in 1..a : b \notin D}

LEMMA LeastNat ==
    ASSUME NEW S \in SUBSET Nat, S # {}
    PROVE  \E x \in S : \A y \in S : ~(y < x)
<1>1. \E x \in S : \A y \in S : ~(<<y, x>> \in OpToRel(<, Nat))
      BY NatLessThanWellFounded, WFMin, Zenon
<1>. QED  BY <1>1 DEF OpToRel

\* Counting up, the free addresses grow by at most one.
LEMMA FreeStep ==
    ASSUME NEW D, NEW a \in Nat \ {0}
    PROVE  /\ IsFiniteSet(Free(D, a)) /\ Cardinality(Free(D, a)) \in Nat
           /\ IsFiniteSet(Free(D, a - 1)) /\ Cardinality(Free(D, a - 1)) \in Nat
           /\ a \in D => Cardinality(Free(D, a)) = Cardinality(Free(D, a - 1))
           /\ a \notin D => Cardinality(Free(D, a)) = Cardinality(Free(D, a - 1)) + 1
<1>1. \A b \in Nat : IsFiniteSet(Free(D, b)) /\ Cardinality(Free(D, b)) \in Nat
  <2>1. SUFFICES ASSUME NEW b \in Nat PROVE IsFiniteSet(Free(D, b)) /\ Cardinality(Free(D, b)) \in Nat
        OBVIOUS
  <2>2. IsFiniteSet(1..b)  BY FS_Interval
  <2>3. Free(D, b) \in SUBSET (1..b)  BY DEF Free
  <2>4. IsFiniteSet(Free(D, b))  BY <2>2, <2>3, FS_Subset
  <2>. QED  BY <2>4, FS_CardinalityType
<1>2. a - 1 \in Nat  OBVIOUS
<1>3. a \in D => Free(D, a) = Free(D, a - 1)  BY DEF Free
<1>4. a \notin D => Free(D, a) = Free(D, a - 1) \cup {a} /\ a \notin Free(D, a - 1)  BY DEF Free
<1>5. a \notin D => Cardinality(Free(D, a)) = Cardinality(Free(D, a - 1)) + 1
      BY <1>1, <1>2, <1>4, FS_AddElement
<1>. QED  BY <1>1, <1>2, <1>3, <1>5

\* A heap has finitely many blocks, at addresses other than NULL.
Heap(m) == DOMAIN m \in SUBSET (Nat \ {0}) /\ IsFiniteSet(DOMAIN m)

\* What the n-th of several allocations returns is free, and there are n - 1
\* free addresses below it.
LEMMA AddressIsNew ==
    ASSUME NEW m, Heap(m), NEW n \in Nat \ {0}
    PROVE  /\ Address(m, n) \in Nat \ {0}
           /\ Address(m, n) \notin DOMAIN m
           /\ Cardinality(Free(DOMAIN m, Address(m, n))) = n
<1> DEFINE D == DOMAIN m
           N == Cardinality(D) + n
           S == {a \in Nat : Cardinality(Free(D, a)) >= n}
<1>1. IsFiniteSet(D) /\ Cardinality(D) \in Nat /\ D \subseteq Nat \ {0}
      BY FS_CardinalityType DEF Heap
<1>2. N \in Nat /\ N >= n /\ N >= 1  BY <1>1
<1>3. Cardinality(Free(D, N)) >= n
  <2>1. IsFiniteSet(1..N) /\ Cardinality(1..N) = N  BY <1>2, FS_Interval
  <2>2. Free(D, N) = (1..N) \ D  BY DEF Free
  <2>3. Cardinality(Free(D, N)) = N - Cardinality((1..N) \cap D)
        BY <2>1, <2>2, FS_Difference
  <2>4. IsFiniteSet((1..N) \cap D) /\ Cardinality((1..N) \cap D) <= Cardinality(D)
        BY <1>1, FS_Intersection
  <2>5. Cardinality((1..N) \cap D) \in Nat  BY <2>4, FS_CardinalityType
  <2>. QED  BY <1>1, <1>2, <2>3, <2>4, <2>5
<1>4. PICK a \in S : \A y \in S : ~(y < a)
  <2>1. N \in S  BY <1>2, <1>3
  <2>2. S \in SUBSET Nat  OBVIOUS
  <2> HIDE DEF S
  <2>. QED  BY <2>1, <2>2, LeastNat
<1>5. a \in Nat /\ Cardinality(Free(D, a)) >= n /\ ~(N < a)
      BY <1>2, <1>3, <1>4
<1>6. a # 0
  <2>1. Free(D, 0) = {}  BY DEF Free
  <2>2. Cardinality(Free(D, 0)) = 0  BY <2>1, FS_EmptySet
  <2>. QED  BY <1>5, <2>2
<1>7. Cardinality(Free(D, a - 1)) < n
  <2>1. a - 1 \in Nat /\ a - 1 < a  BY <1>5, <1>6
  <2>2. ~(Cardinality(Free(D, a - 1)) >= n)  BY <1>4, <2>1
  <2>3. Cardinality(Free(D, a - 1)) \in Nat  BY <1>5, <1>6, FreeStep
  <2>. QED  BY <2>2, <2>3
<1>8. a \notin D /\ Cardinality(Free(D, a)) = n
  <2> HIDE DEF D
  <2>. QED  BY <1>5, <1>6, <1>7, FreeStep
<1>9. a \in 1..N  BY <1>2, <1>5, <1>6
<1>10. /\ Address(m, n) \in 1..N
       /\ Address(m, n) \notin D
       /\ Cardinality(Free(D, Address(m, n))) = n
      BY <1>8, <1>9 DEF Address, Free
<1>. QED  BY <1>2, <1>10

\* Successive allocations return different blocks.
LEMMA AddressesDiffer ==
    ASSUME NEW m, Heap(m), NEW j \in Nat \ {0}, NEW k \in Nat \ {0}, j # k
    PROVE  Address(m, j) # Address(m, k)
BY AddressIsNew

-------------------------------------------------------------------------------
(* Structs.                                                                *)

Metric == [kind : {"scalar", "blob"}, val : Values \cup {NULL} \cup Nat]

Table == [TableSlots -> Metric]

Telemetry ==
    [count : 0..MaxMetrics, inline : [1..Inline -> Metric], table : {NULL} \cup (Nat \ {0})]

\* A struct whose table, if it is on the heap, is a table.
Sound(t, m) ==
    /\ t \in Telemetry
    /\ t.table \in DOMAIN m => m[t.table] \in Table

\* What t uses on the heap m is the same on the heap n.
Untouched(t, m, n) ==
    /\ t.count > Inline =>
          /\ t.table \in DOMAIN m <=> t.table \in DOMAIN n
          /\ t.table \in DOMAIN m => n[t.table] = m[t.table]
    /\ \A i \in BlobSlots(t, m) :
          /\ Slot(t, m, i).val \in DOMAIN m
          /\ Slot(t, m, i).val \in DOMAIN n
          /\ n[Slot(t, m, i).val] = m[Slot(t, m, i).val]

LEMMA SlotType ==
    ASSUME NEW t, NEW m, Sound(t, m), NEW i \in 1..MaxMetrics
    PROVE  Slot(t, m, i) \in Metric
<1>1. t.count \in 0..MaxMetrics /\ t.inline \in [1..Inline -> Metric]
      BY DEF Sound, Telemetry
<1>2. Inline \in Nat /\ MaxMetrics \in Nat  BY OwnershipAssumption
<1>3. CASE i <= Inline
      BY <1>1, <1>2, <1>3 DEF Slot
<1>4. CASE ~(i <= Inline)
  <2>1. i - Inline \in TableSlots  BY <1>1, <1>2, <1>4 DEF TableSlots
  <2>2. Zero \in Metric  BY DEF Zero, Metric
  <2>. QED  BY <1>4, <2>1, <2>2 DEF Slot, Sound, Table
<1>. QED  BY <1>3, <1>4

\* Structs with the same metrics have the same pointers to blobs.
LEMMA SameSlots ==
    ASSUME NEW t, NEW u, NEW m, NEW n, t.count = u.count,
           \A i \in 1..t.count : Slot(u, n, i) = Slot(t, m, i)
    PROVE  /\ BlobSlots(u, n) = BlobSlots(t, m)
           /\ t.table = u.table => Pointers(u, n) = Pointers(t, m)
<1>1. BlobSlots(u, n) = BlobSlots(t, m)  BY DEF BlobSlots
<1>2. \A i \in BlobSlots(t, m) : i \in 1..t.count  BY DEF BlobSlots
<1>3. {<<i, Slot(u, n, i).val>> : i \in BlobSlots(u, n)}
         = {<<i, Slot(t, m, i).val>> : i \in BlobSlots(t, m)}
      BY <1>1, <1>2
<1>. QED  BY <1>1, <1>3 DEF Pointers

\* Nobody notices a change of the heap that leaves what it uses untouched.
LEMMA Frame ==
    ASSUME NEW t, NEW m, NEW n, t \in Telemetry, Untouched(t, m, n)
    PROVE  /\ \A i \in 1..t.count : Slot(t, n, i) = Slot(t, m, i)
           /\ BlobSlots(t, n) = BlobSlots(t, m)
           /\ Pointers(t, n) = Pointers(t, m)
           /\ View(t, n) = View(t, m)
<1>1. t.count \in Nat /\ Inline \in Nat
      BY OwnershipAssumption DEF Telemetry
<1>2. \A i \in 1..t.count : Slot(t, n, i) = Slot(t, m, i)
      BY <1>1 DEF Slot, Untouched
<1>3. BlobSlots(t, n) = BlobSlots(t, m) /\ Pointers(t, n) = Pointers(t, m)
      BY <1>2, SameSlots
<1>4. \A i \in BlobSlots(t, m) : Deref(n, Slot(t, m, i).val) = Deref(m, Slot(t, m, i).val)
      BY DEF Untouched, Deref
<1>5. View(t, n) = View(t, m)
      BY <1>2, <1>3, <1>4 DEF View
<1>. QED  BY <1>2, <1>3, <1>5

\* A pointer of a struct is that of a blob in its slot or that of the table.
LEMMA PointerPlaces ==
    ASSUME NEW t, NEW m, NEW p
    PROVE  p \in Pointers(t, m) <=>
              \/ \E i \in BlobSlots(t, m) : p = <<i, Slot(t, m, i).val>>
              \/ t.table # NULL /\ p = <<0, t.table>>
BY DEF Pointers

\* An empty struct points at nothing.
LEMMA EmptyHasNone ==
    ASSUME NEW m
    PROVE  /\ EmptyTelemetry \in Telemetry
           /\ EmptyTelemetry.table = NULL
           /\ Pointers(EmptyTelemetry, m) = {}
           /\ Live(EmptyTelemetry, m)
<1>1. Inline \in Nat /\ MaxMetrics \in Nat  BY OwnershipAssumption
<1>2. Zero \in Metric  BY DEF Zero, Metric
<1>3. [i \in 1..Inline |-> Zero] \in [1..Inline -> Metric]  BY <1>2
<1>4. EmptyTelemetry \in Telemetry  BY <1>1, <1>3 DEF EmptyTelemetry, Telemetry
<1>5. EmptyTelemetry.count = 0 /\ EmptyTelemetry.table = NULL  BY DEF EmptyTelemetry
<1>6. BlobSlots(EmptyTelemetry, m) = {}  BY <1>5 DEF BlobSlots
<1>7. Pointers(EmptyTelemetry, m) = {}  BY <1>5, <1>6 DEF Pointers
<1>. QED  BY <1>4, <1>5, <1>7 DEF Live

-------------------------------------------------------------------------------
(* Ownership.  K is the struct that every holder keeps.                    *)

\* The holders that can have a table in common: a struct, and the items that use
\* no slot of it.
MayShare(h, t) == h[1] = "struct" \/ t.count <= Inline

\* Two references to one block, q and r, are those of a struct and of copies that
\* use no slot of the table, or of two such copies; only the ISR path makes them.
Shared(K, h, g, p, q) ==
    /\ IsrSafeEnqueue
    /\ p[1] = 0 /\ q[1] = 0
    /\ h # g
    /\ MayShare(h, K[h]) /\ MayShare(g, K[g])
    /\ h[1] # "struct" \/ g[1] # "struct"

AllSound(K, m) == \A h \in DOMAIN K : Sound(K[h], m)

Covered(K, m) ==
    \A a \in DOMAIN m : \E h \in DOMAIN K : \E p \in Pointers(K[h], m) : p[2] = a

Exclusive(K, m) ==
    \A h, g \in DOMAIN K : \A p \in Pointers(K[h], m), q \in Pointers(K[g], m) :
        p[2] = q[2] /\ (h # g \/ p # q) => Shared(K, h, g, p, q)

Own(K, m) == AllSound(K, m) /\ Covered(K, m) /\ Exclusive(K, m)

AllLive(K, m) == \A h \in DOMAIN K : Live(K[h], m)

\* A struct has a table only if it needs one.
TightStruct(t) == t.count <= Inline => t.table = NULL

\* No struct that the ISR path would copy has a table.
Tight(K) == IsrSafeEnqueue => \A h \in DOMAIN K : TightStruct(K[h])

\* What an item uses, no other holder points at, and what a struct uses, no other
\* struct.
LEMMA Apart ==
    ASSUME NEW K, NEW m, Own(K, m), AllLive(K, m), Heap(m),
           NEW h \in DOMAIN K, NEW g \in DOMAIN K, h # g, g[1] # "struct" \/ h[1] = "struct",
           NEW p \in Pointers(K[h], m)
    PROVE  /\ K[g].count > Inline => K[g].table # p[2]
           /\ \A i \in BlobSlots(K[g], m) : Slot(K[g], m, i).val # p[2]
<1>1. K[g] \in Telemetry  BY DEF Own, AllSound, Sound
<1>2. K[g].count \in Nat /\ Inline \in Nat  BY <1>1, OwnershipAssumption DEF Telemetry
<1>3. p[2] \in DOMAIN m  BY DEF AllLive, Live
<1>4. p[2] # NULL  BY <1>3, OwnershipAssumption DEF Heap
<1>5. \A q \in Pointers(K[g], m) : p[2] = q[2] => q[1] = 0 /\ K[g].count <= Inline
      BY DEF Own, Exclusive, Shared, MayShare
<1>6. ASSUME K[g].count > Inline, K[g].table = p[2] PROVE FALSE
  <2>1. <<0, K[g].table>> \in Pointers(K[g], m)  BY <1>4, <1>6 DEF Pointers
  <2>. QED  BY <1>2, <1>5, <1>6, <2>1
<1>7. ASSUME NEW i \in BlobSlots(K[g], m), Slot(K[g], m, i).val = p[2] PROVE FALSE
  <2>1. <<i, Slot(K[g], m, i).val>> \in Pointers(K[g], m)  BY DEF Pointers
  <2>2. i \in 1..K[g].count  BY DEF BlobSlots
  <2>. QED  BY <1>2, <1>5, <1>7, <2>1, <2>2
<1>. QED  BY <1>6, <1>7

\* One holder, h, gets new blocks, those of F; the others keep what they have.
Extended(K, L, m, n, F, h) ==
    /\ DOMAIN L = DOMAIN K
    /\ \A g \in DOMAIN K \ {h} : /\ L[g] = K[g]
                                 /\ Pointers(K[g], n) = Pointers(K[g], m)
                                 /\ Sound(K[g], n)
    /\ Sound(L[h], n)
    /\ Pointers(L[h], n) = Pointers(K[h], m) \cup F
    /\ \A a \in DOMAIN m : a \in DOMAIN n
    /\ \A p \in F : p[2] \in DOMAIN n \ DOMAIN m
    /\ \A p, q \in F : p[2] = q[2] => p = q
    /\ \A a \in DOMAIN n : a \in DOMAIN m \/ \E p \in F : p[2] = a
    /\ h[1] = "struct" \/ Pointers(K[h], m) = {}

LEMMA ExtendOwn ==
    ASSUME NEW K, NEW L, NEW m, NEW n, NEW F, NEW h \in DOMAIN K,
           Own(K, m), AllLive(K, m), Extended(K, L, m, n, F, h)
    PROVE  Own(L, n) /\ AllLive(L, n)
<1> USE DEF Extended
<1>1. AllSound(L, n)  BY DEF AllSound
<1>2. \A g \in DOMAIN K : Pointers(K[g], m) \subseteq Pointers(L[g], n)
      OBVIOUS
<1>3. Covered(L, n)
  <2>1. SUFFICES ASSUME NEW a \in DOMAIN n
                 PROVE  \E g \in DOMAIN L : \E p \in Pointers(L[g], n) : p[2] = a
        BY DEF Covered
  <2>2. CASE a \in DOMAIN m  BY <2>2, <1>2 DEF Own, Covered
  <2>3. CASE \E p \in F : p[2] = a  BY <2>3
  <2>. QED  BY <2>2, <2>3
<1>4. \A g \in DOMAIN K : \A p \in Pointers(K[g], m) : p[2] \in DOMAIN m
      BY DEF AllLive, Live
<1>5. Exclusive(L, n)
  <2>1. SUFFICES ASSUME NEW f \in DOMAIN K, NEW g \in DOMAIN K,
                        NEW p \in Pointers(L[f], n), NEW q \in Pointers(L[g], n),
                        p[2] = q[2], f # g \/ p # q
                 PROVE  Shared(L, f, g, p, q)
        BY DEF Exclusive
  <2>2. /\ p \in Pointers(K[f], m) \/ (f = h /\ p \in F)
        /\ q \in Pointers(K[g], m) \/ (g = h /\ q \in F)
        BY <2>1
  <2>3. p \in Pointers(K[f], m) /\ q \in Pointers(K[g], m)
        BY <1>4, <2>1, <2>2
  <2>4. Shared(K, f, g, p, q)  BY <2>1, <2>3 DEF Own, Exclusive
  <2>5. \A e \in {f, g} : MayShare(e, K[e]) => MayShare(e, L[e])
        BY <2>3 DEF MayShare
  <2>. QED  BY <2>4, <2>5 DEF Shared
<1>6. ASSUME NEW g \in DOMAIN L, NEW p \in Pointers(L[g], n) PROVE p[2] \in DOMAIN n
  <2>1. p \in Pointers(K[g], m) \/ p \in F  OBVIOUS
  <2>. QED  BY <1>4, <2>1
<1>7. AllLive(L, n)  BY <1>6 DEF AllLive, Live
<1>. QED  BY <1>1, <1>3, <1>5, <1>7 DEF Own

\* Release() frees what the struct points at, and nothing else.
LEMMA ReleaseHeap ==
    ASSUME NEW t, NEW m, Heap(m)
    PROVE  /\ Heap(Release(t, m))
           /\ \A a : a \in DOMAIN Release(t, m) <=>
                        a \in DOMAIN m /\ \A p \in Pointers(t, m) : p[2] # a
           /\ \A a \in DOMAIN Release(t, m) : Release(t, m)[a] = m[a]
<1> DEFINE D == DOMAIN m \ {p[2] : p \in Pointers(t, m)}
<1>1. Release(t, m) = [a \in D |-> m[a]]  BY DEF Release, Restrict
<1>2. DOMAIN Release(t, m) = D  BY <1>1
<1>3. D \in SUBSET DOMAIN m  OBVIOUS
<1>4. IsFiniteSet(D)  BY <1>3, FS_Subset DEF Heap
<1>5. Heap(Release(t, m))  BY <1>2, <1>3, <1>4 DEF Heap
<1>6. \A a : a \in D <=> a \in DOMAIN m /\ \A p \in Pointers(t, m) : p[2] # a
      OBVIOUS
<1>. QED  BY <1>1, <1>2, <1>5, <1>6

\* A holder that is live after a release still has all it had.
LEMMA LiveIsUntouched ==
    ASSUME NEW t, NEW m, NEW n, Heap(m), Heap(n), Sound(t, m), Live(t, m), Live(t, n),
           \A a \in DOMAIN n : a \in DOMAIN m /\ n[a] = m[a]
    PROVE  Untouched(t, m, n)
<1>1. t.count \in Nat /\ Inline \in Nat  BY OwnershipAssumption DEF Sound, Telemetry
<1>2. NULL \notin DOMAIN m /\ NULL \notin DOMAIN n  BY OwnershipAssumption DEF Heap
<1>3. t.table \in DOMAIN m <=> t.table \in DOMAIN n
  <2>1. CASE t.table = NULL  BY <1>2, <2>1
  <2>2. CASE t.table # NULL
    <3>1. <<0, t.table>> \in Pointers(t, m) /\ <<0, t.table>> \in Pointers(t, n)
          BY <2>2 DEF Pointers
    <3>. QED  BY <3>1 DEF Live
  <2>. QED  BY <2>1, <2>2
<1>4. \A i \in 1..t.count : Slot(t, n, i) = Slot(t, m, i)  BY <1>1, <1>3 DEF Slot
<1>5. BlobSlots(t, n) = BlobSlots(t, m)  BY <1>4 DEF BlobSlots
<1>6. \A i \in BlobSlots(t, m) : Slot(t, m, i).val \in DOMAIN m /\ Slot(t, m, i).val \in DOMAIN n
  <2>1. SUFFICES ASSUME NEW i \in BlobSlots(t, m)
                 PROVE  Slot(t, m, i).val \in DOMAIN m /\ Slot(t, m, i).val \in DOMAIN n
        OBVIOUS
  <2>2. i \in 1..t.count  BY DEF BlobSlots
  <2>3. /\ <<i, Slot(t, m, i).val>> \in Pointers(t, m)
        /\ <<i, Slot(t, n, i).val>> \in Pointers(t, n)
        BY <1>5, PointerPlaces
  <2>. QED  BY <2>3, <2>2, <1>4 DEF Live
<1>. QED  BY <1>3, <1>6 DEF Untouched

\* A holder releases its struct; whoever else pointed there would dangle.
LEMMA ReleaseOwn ==
    ASSUME NEW K, NEW L, NEW m, NEW h \in DOMAIN K, Heap(m),
           Own(K, m), AllLive(K, m), DOMAIN L = DOMAIN K,
           L[h] = EmptyTelemetry, \A g \in DOMAIN K \ {h} : L[g] = K[g],
           AllLive(L, Release(K[h], m))
    PROVE  Own(L, Release(K[h], m))
<1> DEFINE n == Release(K[h], m)
<1>1. /\ Heap(n)
      /\ \A a : a \in DOMAIN n <=> a \in DOMAIN m /\ \A p \in Pointers(K[h], m) : p[2] # a
      /\ \A a \in DOMAIN n : n[a] = m[a]
      BY ReleaseHeap
<1> HIDE DEF n
<1>2. AllLive(L, n)  BY DEF n
<1>3. Pointers(L[h], n) = {} /\ L[h] \in Telemetry /\ L[h].table = NULL
      BY EmptyHasNone
<1>4. ASSUME NEW g \in DOMAIN K \ {h}
      PROVE  Pointers(L[g], n) = Pointers(K[g], m) /\ Sound(L[g], n)
  <2>1. Sound(K[g], m) /\ Live(K[g], m) /\ Live(K[g], n) /\ L[g] = K[g]
        BY <1>2 DEF AllLive, Own, AllSound
  <2>2. Untouched(K[g], m, n)  BY <1>1, <2>1, LiveIsUntouched
  <2>3. Pointers(K[g], n) = Pointers(K[g], m)  BY <2>1, <2>2, Frame DEF Sound
  <2>. QED  BY <1>1, <2>1, <2>3 DEF Sound
<1>5. AllSound(L, n)
  <2>1. Sound(L[h], n)  BY <1>1, <1>3, OwnershipAssumption DEF Sound, Heap
  <2>. QED  BY <1>4, <2>1 DEF AllSound
<1>6. Covered(L, n)
  <2>1. SUFFICES ASSUME NEW a \in DOMAIN n
                 PROVE  \E g \in DOMAIN L : \E p \in Pointers(L[g], n) : p[2] = a
        BY DEF Covered
  <2>2. PICK g \in DOMAIN K : \E p \in Pointers(K[g], m) : p[2] = a
        BY <1>1 DEF Own, Covered
  <2>3. g # h  BY <1>1, <2>2
  <2>. QED  BY <1>4, <2>2, <2>3
<1>7. Exclusive(L, n)
  <2>1. SUFFICES ASSUME NEW f \in DOMAIN K, NEW g \in DOMAIN K,
                        NEW p \in Pointers(L[f], n), NEW q \in Pointers(L[g], n),
                        p[2] = q[2], f # g \/ p # q
                 PROVE  Shared(L, f, g, p, q)
        BY DEF Exclusive
  <2>2. f # h /\ g # h  BY <1>3
  <2>3. p \in Pointers(K[f], m) /\ q \in Pointers(K[g], m) /\ L[f] = K[f] /\ L[g] = K[g]
        BY <1>4, <2>2
  <2>4. Shared(K, f, g, p, q)  BY <2>1, <2>3 DEF Own, Exclusive
  <2>. QED  BY <2>3, <2>4 DEF Shared
<1>. QED  BY <1>5, <1>6, <1>7 DEF Own, n

\* The copy that the ISR makes shares the table of a struct, and uses none of it.
LEMMA ShareOwn ==
    ASSUME NEW K, NEW L, NEW m, NEW s \in DOMAIN K, NEW h, h \notin DOMAIN K, IsrSafeEnqueue,
           Own(K, m), DOMAIN L = DOMAIN K \cup {h},
           \A g \in DOMAIN K : L[g] = K[g],
           L[h] = K[s], s[1] = "struct", h[1] # "struct",
           K[s].count <= Inline, BlobSlots(K[s], m) = {}
    PROVE  Own(L, m)
<1>1. AllSound(L, m) /\ Covered(L, m)  BY DEF AllSound, Covered, Own
<1>2. \A p \in Pointers(K[s], m) : p = <<0, K[s].table>>  BY DEF Pointers
<1>3. ASSUME NEW g \in DOMAIN K, NEW p \in Pointers(K[s], m), NEW q \in Pointers(K[g], m),
             p[2] = q[2]
      PROVE  p[1] = 0 /\ q[1] = 0 /\ MayShare(g, K[g])
  <2>1. p[1] = 0  BY <1>2
  <2>2. CASE g = s /\ p = q  BY <2>1, <2>2 DEF MayShare
  <2>3. CASE s # g \/ p # q
        BY <1>3, <2>3 DEF Own, Exclusive, Shared
  <2>. QED  BY <2>2, <2>3
<1>4. Exclusive(L, m)
  <2>1. SUFFICES ASSUME NEW f \in DOMAIN L, NEW g \in DOMAIN L,
                        NEW p \in Pointers(L[f], m), NEW q \in Pointers(L[g], m),
                        p[2] = q[2], f # g \/ p # q
                 PROVE  Shared(L, f, g, p, q)
        BY DEF Exclusive
  <2>2. CASE f \in DOMAIN K /\ g \in DOMAIN K
    <3>1. Shared(K, f, g, p, q)  BY <2>1, <2>2 DEF Own, Exclusive
    <3>. QED  BY <2>2, <3>1 DEF Shared
  <2>3. CASE f = h /\ g \in DOMAIN K
    <3>1. p[1] = 0 /\ q[1] = 0 /\ MayShare(g, K[g])  BY <1>3, <2>1, <2>3
    <3>. QED  BY <2>3, <3>1 DEF Shared, MayShare
  <2>4. CASE f \in DOMAIN K /\ g = h
    <3>1. p[1] = 0 /\ q[1] = 0 /\ MayShare(f, K[f])  BY <1>3, <2>1, <2>4
    <3>. QED  BY <2>4, <3>1 DEF Shared, MayShare
  <2>5. CASE f = h /\ g = h  BY <1>2, <2>1, <2>5
  <2>. QED  BY <2>2, <2>3, <2>4, <2>5
<1>. QED  BY <1>1, <1>4 DEF Own

\* Structs that move from one holder to another, copied with their pointers.
LEMMA MoveOwn ==
    ASSUME NEW K, NEW L, NEW m, NEW from, Own(K, m),
           \A h \in DOMAIN L :
              \/ L[h] = EmptyTelemetry
              \/ /\ from[h] \in DOMAIN K
                 /\ L[h] = K[from[h]]
                 /\ h[1] = "struct" <=> from[h][1] = "struct"
                 /\ \A g \in DOMAIN L : L[g] # EmptyTelemetry /\ from[g] = from[h] => g = h,
           \A g \in DOMAIN K : K[g] = EmptyTelemetry \/ \E h \in DOMAIN L : from[h] = g /\ L[h] = K[g],
           Heap(m)
    PROVE  Own(L, m)
<1>1. Sound(EmptyTelemetry, m) /\ Pointers(EmptyTelemetry, m) = {}
      BY EmptyHasNone, OwnershipAssumption DEF Sound, EmptyTelemetry, Heap
<1>2. AllSound(L, m)  BY <1>1 DEF AllSound, Own
<1>3. Covered(L, m)
  <2>1. SUFFICES ASSUME NEW a \in DOMAIN m
                 PROVE  \E g \in DOMAIN L : \E p \in Pointers(L[g], m) : p[2] = a
        BY DEF Covered
  <2>2. PICK g \in DOMAIN K : \E p \in Pointers(K[g], m) : p[2] = a
        BY DEF Own, Covered
  <2>3. K[g] # EmptyTelemetry  BY <1>1, <2>2
  <2>. QED  BY <2>2, <2>3
<1>4. Exclusive(L, m)
  <2>1. SUFFICES ASSUME NEW f \in DOMAIN L, NEW g \in DOMAIN L,
                        NEW p \in Pointers(L[f], m), NEW q \in Pointers(L[g], m),
                        p[2] = q[2], f # g \/ p # q
                 PROVE  Shared(L, f, g, p, q)
        BY DEF Exclusive
  <2>2. L[f] # EmptyTelemetry /\ L[g] # EmptyTelemetry  BY <1>1
  <2>3. /\ from[f] \in DOMAIN K /\ from[g] \in DOMAIN K
        /\ L[f] = K[from[f]] /\ L[g] = K[from[g]]
        /\ f[1] = "struct" <=> from[f][1] = "struct"
        /\ g[1] = "struct" <=> from[g][1] = "struct"
        /\ f # g => from[f] # from[g]
        BY <2>2
  <2>4. Shared(K, from[f], from[g], p, q)  BY <2>1, <2>3 DEF Own, Exclusive
  <2>. QED  BY <2>3, <2>4 DEF Shared, MayShare
<1>. QED  BY <1>2, <1>3, <1>4 DEF Own

-------------------------------------------------------------------------------
(* aetus_internal_copy_telemetry_to_queue_item.                            *)

\* The slots of S up to i.
Below(S, i) == {j \in S : j <= i}

\* The blobs are allocated one after the other.
LEMMA Rank ==
    ASSUME NEW N \in Nat, NEW S \in SUBSET (1..N)
    PROVE  /\ \A i \in S : Cardinality(Below(S, i)) \in Nat \ {0}
           /\ \A i, k \in S : i # k => Cardinality(Below(S, i)) # Cardinality(Below(S, k))
<1>1. IsFiniteSet(S)
  <2>1. IsFiniteSet(1..N)  BY FS_Interval
  <2>. QED  BY <2>1, FS_Subset
<1>2. \A i \in S : IsFiniteSet(Below(S, i)) /\ Cardinality(Below(S, i)) \in Nat
  <2>1. SUFFICES ASSUME NEW i \in S PROVE IsFiniteSet(Below(S, i)) /\ Cardinality(Below(S, i)) \in Nat
        OBVIOUS
  <2>2. Below(S, i) \in SUBSET S  BY DEF Below
  <2>3. IsFiniteSet(Below(S, i))  BY <1>1, <2>2, FS_Subset
  <2>. QED  BY <2>3, FS_CardinalityType
<1>5. \A i \in S : i \in Nat  OBVIOUS
<1>3. \A i \in S : i \in Below(S, i)  BY <1>5 DEF Below
<1>4. \A i, k \in S : i < k => Below(S, i) \in SUBSET Below(S, k) /\ k \notin Below(S, i)
  <2>1. SUFFICES ASSUME NEW i \in S, NEW k \in S, i < k
                 PROVE  Below(S, i) \in SUBSET Below(S, k) /\ k \notin Below(S, i)
        OBVIOUS
  <2>2. i \in Nat /\ k \in Nat  BY <1>5
  <2>3. \A j \in S : j <= i => j <= k  BY <1>5, <2>1, <2>2
  <2>4. ~(k <= i)  BY <2>1, <2>2
  <2>. QED  BY <2>3, <2>4 DEF Below
<1>6. \A i \in S : Cardinality(Below(S, i)) # 0
      BY <1>2, <1>3, FS_EmptySet
<1>7. \A i, k \in S : i < k => Cardinality(Below(S, i)) # Cardinality(Below(S, k))
      BY <1>2, <1>3, <1>4, FS_Subset
<1>8. \A i, k \in S : i # k => Cardinality(Below(S, i)) # Cardinality(Below(S, k))
      BY <1>5, <1>7
<1>. QED  BY <1>2, <1>6, <1>8

\* A copy c of the struct t: A[i] is the address of the new blob of slot i, b that
\* of the new table.
IsCopy(c, t, m, copied, A, b) ==
    /\ copied \subseteq BlobSlots(t, m)
    /\ Heap(c.mem)
    /\ Sound(c.tel, c.mem)
    /\ c.tel.count = t.count
    /\ c.tel.table = IF t.table = NULL THEN NULL ELSE b
    /\ t.table # NULL => b \in DOMAIN c.mem /\ b \notin DOMAIN m
    /\ \A i \in copied :
          /\ A[i] \in DOMAIN c.mem /\ A[i] \notin DOMAIN m
          /\ t.table # NULL => A[i] # b
          /\ c.mem[A[i]] = m[Slot(t, m, i).val]
          /\ \A k \in copied : A[i] = A[k] => i = k
    /\ \A a \in DOMAIN m : a \in DOMAIN c.mem /\ c.mem[a] = m[a]
    /\ \A a \in DOMAIN c.mem :
          \/ a \in DOMAIN m
          \/ \E i \in copied : a = A[i]
          \/ t.table # NULL /\ a = b
    /\ \A i \in 1..t.count :
          Slot(c.tel, c.mem, i)
            = IF i \in copied THEN [Slot(t, m, i) EXCEPT !.val = A[i]] ELSE Slot(t, m, i)

LEMMA CopyFacts ==
    ASSUME NEW t, NEW m, Heap(m), Sound(t, m), Live(t, m),
           NEW copied \in SUBSET BlobSlots(t, m)
    PROVE  \E A, b : IsCopy(CopyTo(t, m, copied), t, m, copied, A, b)
<1> DEFINE tables == IF t.table = NULL THEN 0 ELSE 1
           addr(i) == Address(m, tables + Cardinality(Below(copied, i)))
           slot(i) == IF i \in copied THEN [Slot(t, m, i) EXCEPT !.val = addr(i)] ELSE Slot(t, m, i)
           blobs == {addr(i) : i \in copied}
           content(a) == m[Slot(t, m, CHOOSE i \in copied : addr(i) = a).val]
           b == Address(m, 1)
           A == [i \in copied |-> addr(i)]
           c == CopyTo(t, m, copied)
           inl == [i \in 1..Inline |-> slot(i)]
           tab == [i \in TableSlots |-> slot(i + Inline)]
           M0 == With(m, [a \in blobs |-> content(a)])
           M1 == With(M0, Block(b, tab))
<1>1. /\ t.table = NULL => c = [tel |-> [t EXCEPT !.inline = inl], mem |-> M0]
      /\ t.table # NULL => c = [tel |-> [t EXCEPT !.inline = inl, !.table = b], mem |-> M1]
      BY DEF CopyTo, Below
<1>2. t \in Telemetry /\ t.count \in 0..MaxMetrics /\ Inline \in Nat /\ MaxMetrics \in Nat /\ Inline < MaxMetrics
      BY OwnershipAssumption DEF Sound, Telemetry
<1>3. copied \in SUBSET (1..t.count)  BY DEF BlobSlots
<1>17. /\ \A i \in copied : Cardinality(Below(copied, i)) \in Nat \ {0}
       /\ \A i, k \in copied : i # k =>
             Cardinality(Below(copied, i)) # Cardinality(Below(copied, k))
  <2>1. t.count \in Nat  BY <1>2
  <2>. QED  BY <1>3, <2>1, Rank
<1>18. /\ \A i \in copied : tables + Cardinality(Below(copied, i)) \in Nat \ {0}
       /\ \A i, k \in copied : i # k =>
             tables + Cardinality(Below(copied, i)) # tables + Cardinality(Below(copied, k))
       /\ t.table # NULL => \A i \in copied : tables + Cardinality(Below(copied, i)) # 1
      BY <1>17
<1>4. \A i \in copied : addr(i) \in Nat \ {0} /\ addr(i) \notin DOMAIN m
      BY <1>18, AddressIsNew
<1>5. \A i, k \in copied : addr(i) = addr(k) => i = k
      BY <1>18, AddressesDiffer
<1>6. b \in Nat \ {0} /\ b \notin DOMAIN m  BY AddressIsNew
<1>7. t.table # NULL => \A i \in copied : addr(i) # b
      BY <1>18, AddressesDiffer
<1>8. \A i \in 1..MaxMetrics : slot(i) \in Metric
  <2>1. \A i \in 1..MaxMetrics : Slot(t, m, i) \in Metric  BY SlotType
  <2>2. \A i \in 1..MaxMetrics, a \in Nat : [Slot(t, m, i) EXCEPT !.val = a] \in Metric
        BY <2>1 DEF Metric
  <2> HIDE DEF addr
  <2>. QED  BY <1>4, <2>1, <2>2
<1>9. inl \in [1..Inline -> Metric] /\ tab \in Table
  <2>1. \A i \in TableSlots : i + Inline \in 1..MaxMetrics  BY <1>2 DEF TableSlots
  <2>2. \A i \in 1..Inline : i \in 1..MaxMetrics  BY <1>2
  <2> HIDE DEF slot
  <2>. QED  BY <1>8, <2>1, <2>2 DEF Table
<1>10. \A i \in copied : content(addr(i)) = m[Slot(t, m, i).val]
  <2> HIDE DEF addr
  <2>1. \A i \in copied : (CHOOSE k \in copied : addr(k) = addr(i)) = i
        BY <1>5
  <2>. QED  BY <2>1
<1>11. /\ DOMAIN M0 = DOMAIN m \cup blobs
       /\ \A a \in DOMAIN m : M0[a] = m[a]
       /\ \A i \in copied : M0[addr(i)] = m[Slot(t, m, i).val]
  <2> HIDE DEF addr, content
  <2>1. M0 = [a \in DOMAIN m \cup blobs |-> IF a \in DOMAIN m THEN m[a] ELSE [x \in blobs |-> content(x)][a]]
        BY DEF With
  <2>2. \A i \in copied : addr(i) \in blobs  OBVIOUS
  <2>. QED  BY <2>1, <2>2, <1>4, <1>10
<1>12. /\ DOMAIN M1 = DOMAIN M0 \cup {b}
       /\ \A a \in DOMAIN M0 : M1[a] = M0[a]
       /\ b \notin DOMAIN M0 => M1[b] = tab
  <2> HIDE DEF M0, tab, b
  <2>. QED  BY DEF With, Block
<1>13. \A a \in blobs : a \in Nat \ {0} /\ a \notin DOMAIN m /\ \E i \in copied : a = A[i]
  <2> HIDE DEF addr
  <2>. QED  BY <1>4
<1>14. IsFiniteSet(blobs)
  <2>1. IsFiniteSet(copied)
    <3>1. IsFiniteSet(1..t.count)  BY <1>2, FS_Interval
    <3>. QED  BY <1>3, <3>1, FS_Subset
  <2> HIDE DEF addr
  <2>2. A \in Surjection(copied, blobs)  BY DEF Surjection
  <2>. QED  BY <2>1, <2>2, FS_Surjection
<1>15. Heap(M0)
  <2> HIDE DEF M0, blobs
  <2>1. IsFiniteSet(DOMAIN m)  BY DEF Heap
  <2>2. IsFiniteSet(DOMAIN m \cup blobs)  BY <1>14, <2>1, FS_Union
  <2>. QED  BY <1>11, <1>13, <2>2 DEF Heap
<1>16. Heap(M1)
  <2> HIDE DEF M0, M1, b, blobs
  <2>1. IsFiniteSet(DOMAIN M1)  BY <1>12, <1>15, FS_AddElement DEF Heap
  <2>. QED  BY <1>6, <1>12, <1>15, <2>1 DEF Heap
<1>19. /\ c.tel.count = t.count /\ c.tel.inline = inl /\ c.tel \in Telemetry
       /\ c.tel.table = IF t.table = NULL THEN NULL ELSE b
       /\ c.mem = IF t.table = NULL THEN M0 ELSE M1
  <2> HIDE DEF c, inl, M0, M1, b
  <2>1. t = [count |-> t.count, inline |-> t.inline, table |-> t.table]  BY <1>2 DEF Telemetry
  <2>2. CASE t.table = NULL
    <3>1. c.tel = [t EXCEPT !.inline = inl] /\ c.mem = M0  BY <1>1, <2>2
    <3>. QED  BY <1>2, <1>9, <2>2, <3>1 DEF Telemetry
  <2>3. CASE t.table # NULL
    <3>1. c.tel = [t EXCEPT !.inline = inl, !.table = b] /\ c.mem = M1  BY <1>1, <2>3
    <3>. QED  BY <1>2, <1>6, <1>9, <2>3, <3>1 DEF Telemetry
  <2>. QED  BY <2>2, <2>3
<1>20. t.table # NULL => b \notin DOMAIN M0
  <2> HIDE DEF M0, addr, b
  <2>. QED  BY <1>6, <1>7, <1>11
<1>21. \A i \in 1..t.count : Slot(c.tel, c.mem, i) = slot(i)
  <2>1. SUFFICES ASSUME NEW i \in 1..t.count PROVE Slot(c.tel, c.mem, i) = slot(i)
        OBVIOUS
  <2>2. CASE i <= Inline
    <3>1. inl[i] = slot(i)  BY <1>2, <2>2
    <3>2. Slot(c.tel, c.mem, i) = c.tel.inline[i]  BY <2>2 DEF Slot
    <3> HIDE DEF slot, inl, c
    <3>. QED  BY <1>19, <3>1, <3>2
  <2>3. CASE ~(i <= Inline) /\ t.table = NULL
    <3>1. NULL \notin DOMAIN m /\ NULL \notin DOMAIN M0
      <4> HIDE DEF M0
      <4>. QED  BY <1>15, OwnershipAssumption DEF Heap
    <3>2. Slot(t, m, i) = Zero  BY <2>3, <3>1 DEF Slot
    <3>3. i \notin copied  BY <3>2 DEF BlobSlots, Zero
    <3>4. Slot(c.tel, c.mem, i) = Zero
      <4> HIDE DEF c, M0, M1
      <4>. QED  BY <1>19, <2>3, <3>1 DEF Slot
    <3>. QED  BY <3>2, <3>3, <3>4
  <2>4. CASE ~(i <= Inline) /\ t.table # NULL
    <3>1. i - Inline \in TableSlots /\ (i - Inline) + Inline = i  BY <1>2, <2>4 DEF TableSlots
    <3>2. tab[i - Inline] = slot(i)
      <4> HIDE DEF slot
      <4>. QED  BY <3>1
    <3>3. b \in DOMAIN M1 /\ M1[b] = tab
      <4> HIDE DEF M0, M1, b, tab
      <4>. QED  BY <1>12, <1>20, <2>4
    <3>4. Slot(c.tel, c.mem, i) = tab[i - Inline]
      <4> HIDE DEF c, M0, M1, tab, b
      <4>. QED  BY <1>19, <2>4, <3>3 DEF Slot
    <3>. QED  BY <3>2, <3>4
  <2>. QED  BY <2>2, <2>3, <2>4
<1>22. Heap(c.mem) /\ Sound(c.tel, c.mem)
  <2>1. Heap(c.mem)
    <3> HIDE DEF c, M0, M1
    <3>. QED  BY <1>15, <1>16, <1>19
  <2>2. c.tel.table \in DOMAIN c.mem => c.mem[c.tel.table] \in Table
    <3> HIDE DEF c, M0, M1, tab, b
    <3>1. NULL \notin DOMAIN c.mem  BY <2>1, OwnershipAssumption DEF Heap
    <3>. QED  BY <1>9, <1>12, <1>19, <1>20, <3>1
  <2>. QED  BY <1>19, <2>1, <2>2 DEF Sound
<1>23. \A a \in DOMAIN m : a \in DOMAIN c.mem /\ c.mem[a] = m[a]
  <2> HIDE DEF c, M0, M1, blobs
  <2>. QED  BY <1>11, <1>12, <1>19
<1>24. \A i \in copied : A[i] = addr(i) /\ addr(i) \in blobs
  <2> HIDE DEF addr
  <2>. QED  OBVIOUS
<1>25. \A i \in copied : A[i] \in DOMAIN c.mem /\ c.mem[A[i]] = m[Slot(t, m, i).val]
  <2> HIDE DEF c, M0, M1, blobs, addr, A
  <2>. QED  BY <1>11, <1>12, <1>19, <1>24
<1>26. \A i \in copied : /\ A[i] \notin DOMAIN m
                         /\ t.table # NULL => A[i] # b
                         /\ \A k \in copied : A[i] = A[k] => i = k
  <2> HIDE DEF addr, A, b
  <2>. QED  BY <1>4, <1>5, <1>7, <1>24
<1>27. \A a \in DOMAIN c.mem : \/ a \in DOMAIN m
                               \/ \E i \in copied : a = A[i]
                               \/ t.table # NULL /\ a = b
  <2> HIDE DEF c, M0, M1, blobs, A, b
  <2>1. \A a \in DOMAIN M0 : a \in DOMAIN m \/ \E i \in copied : a = A[i]
        BY <1>11, <1>13
  <2>2. \A a \in DOMAIN M1 : a \in DOMAIN M0 \/ a = b  BY <1>12
  <2>3. CASE t.table = NULL
    <3>1. c.mem = M0  BY <1>19, <2>3
    <3>. QED  BY <2>1, <3>1
  <2>4. CASE t.table # NULL
    <3>1. c.mem = M1  BY <1>19, <2>4
    <3>. QED  BY <2>1, <2>2, <2>4, <3>1
  <2>. QED  BY <2>3, <2>4
<1>28. \A i \in 1..t.count : Slot(c.tel, c.mem, i)
          = IF i \in copied THEN [Slot(t, m, i) EXCEPT !.val = A[i]] ELSE Slot(t, m, i)
  <2> HIDE DEF c, addr, A
  <2>. QED  BY <1>21, <1>24
<1>29. t.table # NULL => b \in DOMAIN c.mem /\ b \notin DOMAIN m
  <2> HIDE DEF c, M0, M1, b
  <2>. QED  BY <1>6, <1>12, <1>19
<1> HIDE DEF A, b
<1>30. IsCopy(c, t, m, copied, A, b)
  <2> HIDE DEF c
  <2>. QED  BY <1>19, <1>22, <1>23, <1>25, <1>26, <1>27, <1>28, <1>29 DEF IsCopy
<1>. QED  BY <1>30

\* The pointers of a copy.
CopyRefs(c, t, m, copied, A, b) ==
    /\ BlobSlots(c.tel, c.mem) = BlobSlots(t, m)
    /\ \A i \in copied : Slot(c.tel, c.mem, i).val = A[i]
    /\ \A p : p \in Pointers(c.tel, c.mem) <=>
          \/ \E i \in copied : p = <<i, A[i]>>
          \/ \E i \in BlobSlots(t, m) \ copied : p = <<i, Slot(t, m, i).val>>
          \/ t.table # NULL /\ p = <<0, b>>

LEMMA CopyPointers ==
    ASSUME NEW c, NEW t, NEW m, NEW copied, NEW A, NEW b,
           Sound(t, m), IsCopy(c, t, m, copied, A, b)
    PROVE  CopyRefs(c, t, m, copied, A, b)
<1>1. c.tel.count = t.count /\ t.count \in 0..MaxMetrics /\ MaxMetrics \in Nat
      BY OwnershipAssumption DEF IsCopy, Sound, Telemetry
<1>2. \A i \in 1..t.count : Slot(t, m, i) \in Metric  BY <1>1, SlotType
<1>3. \A i \in copied : i \in BlobSlots(t, m) /\ i \in 1..t.count  BY DEF BlobSlots, IsCopy
<1>4. \A i \in copied : A[i] # NULL  BY OwnershipAssumption DEF IsCopy, Heap
<1>5. \A i \in 1..t.count : Slot(c.tel, c.mem, i)
         = IF i \in copied THEN [Slot(t, m, i) EXCEPT !.val = A[i]] ELSE Slot(t, m, i)
      BY DEF IsCopy
<1>6. \A i \in copied : /\ Slot(c.tel, c.mem, i).val = A[i]
                        /\ Slot(c.tel, c.mem, i).kind = Slot(t, m, i).kind
      BY <1>2, <1>3, <1>5 DEF Metric
<1>7. \A i \in 1..t.count : i \notin copied => Slot(c.tel, c.mem, i) = Slot(t, m, i)
      BY <1>5
<1>8. BlobSlots(c.tel, c.mem) = BlobSlots(t, m)
  <2>1. \A i \in copied : i \in BlobSlots(c.tel, c.mem)
    <3>1. \A i \in copied : Slot(t, m, i).kind = "blob"  BY <1>3 DEF BlobSlots
    <3>. QED  BY <1>1, <1>3, <1>4, <1>6, <3>1 DEF BlobSlots
  <2>2. \A i \in 1..t.count : i \notin copied =>
           (i \in BlobSlots(c.tel, c.mem) <=> i \in BlobSlots(t, m))
        BY <1>1, <1>7 DEF BlobSlots
  <2>3. BlobSlots(c.tel, c.mem) \subseteq 1..t.count /\ BlobSlots(t, m) \subseteq 1..t.count
        BY <1>1 DEF BlobSlots
  <2>. QED  BY <1>3, <2>1, <2>2, <2>3
<1>9. c.tel.table = IF t.table = NULL THEN NULL ELSE b  BY DEF IsCopy
<1>10. t.table # NULL => b # NULL  BY OwnershipAssumption DEF IsCopy, Heap
<1>11. SUFFICES ASSUME NEW p
                PROVE  p \in Pointers(c.tel, c.mem) <=>
                          \/ \E i \in copied : p = <<i, A[i]>>
                          \/ \E i \in BlobSlots(t, m) \ copied : p = <<i, Slot(t, m, i).val>>
                          \/ t.table # NULL /\ p = <<0, b>>
       BY <1>6, <1>8 DEF CopyRefs
<1>12. p \in Pointers(c.tel, c.mem) <=>
          \/ \E i \in BlobSlots(t, m) : p = <<i, Slot(c.tel, c.mem, i).val>>
          \/ c.tel.table # NULL /\ p = <<0, c.tel.table>>
       BY <1>8, PointerPlaces
<1>13. \A i \in BlobSlots(t, m) : i \in 1..t.count  BY DEF BlobSlots
<1>14. \A i \in copied : i \in BlobSlots(t, m) /\ Slot(c.tel, c.mem, i).val = A[i]
       BY <1>3, <1>6
<1>15. \A i \in BlobSlots(t, m) \ copied : Slot(c.tel, c.mem, i).val = Slot(t, m, i).val
       BY <1>7, <1>13
<1>. QED  BY <1>9, <1>10, <1>12, <1>14, <1>15

\* A whole copy says what the struct says.
LEMMA CopyView ==
    ASSUME NEW c, NEW t, NEW m, NEW A, NEW b,
           Sound(t, m), Live(t, m), IsCopy(c, t, m, BlobSlots(t, m), A, b)
    PROVE  View(c.tel, c.mem) = View(t, m)
<1> DEFINE S == BlobSlots(t, m)
<1>1. BlobSlots(c.tel, c.mem) = S /\ \A i \in S : Slot(c.tel, c.mem, i).val = A[i]
  <2>1. CopyRefs(c, t, m, S, A, b)  BY CopyPointers
  <2> HIDE DEF S
  <2>. QED  BY <2>1 DEF CopyRefs, S
<1>2. c.tel.count = t.count /\ t.count \in 0..MaxMetrics /\ MaxMetrics \in Nat
      BY OwnershipAssumption DEF IsCopy, Sound, Telemetry
<1>3. \A i \in 1..t.count : Slot(t, m, i) \in Metric  BY <1>2, SlotType
<1>4. \A i \in 1..t.count : Slot(c.tel, c.mem, i)
         = IF i \in S THEN [Slot(t, m, i) EXCEPT !.val = A[i]] ELSE Slot(t, m, i)
      BY DEF IsCopy
<1>5. \A i \in 1..t.count : /\ Slot(c.tel, c.mem, i).kind = Slot(t, m, i).kind
                            /\ i \notin S => Slot(c.tel, c.mem, i).val = Slot(t, m, i).val
      BY <1>3, <1>4 DEF Metric
<1>6. \A i \in S : Slot(t, m, i).val \in DOMAIN m
  <2>1. \A i \in S : <<i, Slot(t, m, i).val>> \in Pointers(t, m)  BY PointerPlaces
  <2>. QED  BY <2>1 DEF Live
<1>7. \A i \in S : Deref(c.mem, Slot(c.tel, c.mem, i).val) = Deref(m, Slot(t, m, i).val)
      BY <1>1, <1>6 DEF Deref, IsCopy
<1> HIDE DEF S
<1>8. \A i \in 1..t.count :
         (IF i \in S THEN Deref(c.mem, Slot(c.tel, c.mem, i).val) ELSE Slot(c.tel, c.mem, i).val)
           = (IF i \in S THEN Deref(m, Slot(t, m, i).val) ELSE Slot(t, m, i).val)
      BY <1>5, <1>7
<1>. QED  BY <1>1, <1>2, <1>5, <1>8 DEF View, S

\* A change of the heap that leaves what t uses.
LEMMA UsesUntouched ==
    ASSUME NEW t, NEW m, NEW n, Heap(m), Heap(n), Sound(t, m), Live(t, m),
           t.count > Inline /\ t.table # NULL => t.table \in DOMAIN n /\ n[t.table] = m[t.table],
           \A i \in BlobSlots(t, m) : /\ Slot(t, m, i).val \in DOMAIN n
                                      /\ n[Slot(t, m, i).val] = m[Slot(t, m, i).val]
    PROVE  Untouched(t, m, n)
<1>1. NULL \notin DOMAIN m /\ NULL \notin DOMAIN n  BY OwnershipAssumption DEF Heap
<1>2. t.table # NULL => t.table \in DOMAIN m
  <2>1. t.table # NULL => <<0, t.table>> \in Pointers(t, m)  BY PointerPlaces
  <2>. QED  BY <2>1 DEF Live
<1>3. \A i \in BlobSlots(t, m) : Slot(t, m, i).val \in DOMAIN m
  <2>1. \A i \in BlobSlots(t, m) : <<i, Slot(t, m, i).val>> \in Pointers(t, m)  BY PointerPlaces
  <2>. QED  BY <2>1 DEF Live
<1>. QED  BY <1>1, <1>2, <1>3 DEF Untouched

\* A heap that has only grown.
LEMMA GrownUntouched ==
    ASSUME NEW t, NEW m, NEW n, Heap(m), Heap(n), Sound(t, m), Live(t, m),
           \A a \in DOMAIN m : a \in DOMAIN n /\ n[a] = m[a]
    PROVE  Untouched(t, m, n) /\ Sound(t, n)
<1>1. NULL \notin DOMAIN m /\ NULL \notin DOMAIN n  BY OwnershipAssumption DEF Heap
<1>2. t.table # NULL => t.table \in DOMAIN m
  <2>1. t.table # NULL => <<0, t.table>> \in Pointers(t, m)  BY PointerPlaces
  <2>. QED  BY <2>1 DEF Live
<1>3. \A i \in BlobSlots(t, m) : Slot(t, m, i).val \in DOMAIN m
  <2>1. \A i \in BlobSlots(t, m) : <<i, Slot(t, m, i).val>> \in Pointers(t, m)  BY PointerPlaces
  <2>. QED  BY <2>1 DEF Live
<1>4. Untouched(t, m, n)  BY <1>2, <1>3, UsesUntouched
<1>5. Sound(t, n)  BY <1>1, <1>2 DEF Sound
<1>. QED  BY <1>4, <1>5

\* An empty holder h gets a copy of what s holds.
LEMMA CopyOwn ==
    ASSUME NEW K, NEW L, NEW m, NEW c, NEW h \in DOMAIN K, NEW s \in DOMAIN K, Heap(m),
           Own(K, m), AllLive(K, m), DOMAIN L = DOMAIN K,
           K[h] = EmptyTelemetry, \A g \in DOMAIN K \ {h} : L[g] = K[g],
           c = CopyTo(K[s], m, BlobSlots(K[s], m)), L[h] = c.tel
    PROVE  /\ Own(L, c.mem) /\ AllLive(L, c.mem) /\ Heap(c.mem) /\ c.tel \in Telemetry
           /\ TightStruct(K[s]) => TightStruct(c.tel)
           /\ View(c.tel, c.mem) = View(K[s], m)
           /\ \A g \in DOMAIN K : Untouched(K[g], m, c.mem)
<1> DEFINE t == K[s]
           S == BlobSlots(t, m)
<1>1. Sound(t, m) /\ Live(t, m)  BY DEF Own, AllSound, AllLive
<1>2. PICK A, b : IsCopy(c, t, m, S, A, b)
  <2>1. S \in SUBSET BlobSlots(t, m)  OBVIOUS
  <2>. QED  BY <1>1, <2>1, CopyFacts
<1>3. Heap(c.mem) /\ Sound(c.tel, c.mem) /\ \A a \in DOMAIN m : a \in DOMAIN c.mem /\ c.mem[a] = m[a]
      BY <1>2 DEF IsCopy
<1>4. View(c.tel, c.mem) = View(t, m)  BY <1>1, <1>2, CopyView
<1>5. \A g \in DOMAIN K : Untouched(K[g], m, c.mem) /\ Sound(K[g], c.mem)
      BY <1>3, GrownUntouched DEF Own, AllSound, AllLive
<1>6. \A g \in DOMAIN K : Pointers(K[g], c.mem) = Pointers(K[g], m)
      BY <1>5, Frame DEF Own, AllSound, Sound
<1>7. \A p : p \in Pointers(c.tel, c.mem) <=>
           (\E i \in S : p = <<i, A[i]>>) \/ (t.table # NULL /\ p = <<0, b>>)
  <2>1. CopyRefs(c, t, m, S, A, b)  BY <1>1, <1>2, CopyPointers
  <2> HIDE DEF S
  <2>2. \A p : p \in Pointers(c.tel, c.mem) <=>
           \/ \E i \in S : p = <<i, A[i]>>
           \/ \E i \in BlobSlots(t, m) \ S : p = <<i, Slot(t, m, i).val>>
           \/ t.table # NULL /\ p = <<0, b>>
        BY <2>1 DEF CopyRefs
  <2>. QED  BY <2>2 DEF S
<1> DEFINE F == Pointers(c.tel, c.mem)
<1>8. /\ \A p \in F : p[2] \in DOMAIN c.mem \ DOMAIN m
      /\ \A p, q \in F : p[2] = q[2] => p = q
      /\ \A a \in DOMAIN c.mem : a \in DOMAIN m \/ \E p \in F : p[2] = a
  <2> HIDE DEF S, F
  <2>0. \A p \in F : (\E i \in S : p = <<i, A[i]>>) \/ (t.table # NULL /\ p = <<0, b>>)
        BY <1>7 DEF F
  <2>1. \A i \in S : A[i] \in DOMAIN c.mem \ DOMAIN m /\ (t.table # NULL => A[i] # b)
                      /\ \A k \in S : A[i] = A[k] => i = k
        BY <1>2 DEF IsCopy
  <2>2. t.table # NULL => b \in DOMAIN c.mem \ DOMAIN m  BY <1>2 DEF IsCopy
  <2>3. \A p \in F : p[2] \in DOMAIN c.mem \ DOMAIN m  BY <2>0, <2>1, <2>2
  <2>4. \A p, q \in F : p[2] = q[2] => p = q  BY <2>0, <2>1
  <2>5. ASSUME NEW a \in DOMAIN c.mem, a \notin DOMAIN m PROVE \E p \in F : p[2] = a
    <3>1. (\E i \in S : a = A[i]) \/ (t.table # NULL /\ a = b)  BY <1>2, <2>5 DEF IsCopy
    <3>2. CASE \E i \in S : a = A[i]
      <4>1. PICK i \in S : a = A[i]  BY <3>2
      <4>2. <<i, A[i]>> \in F  BY <1>7 DEF F
      <4>. QED  BY <4>1, <4>2
    <3>3. CASE t.table # NULL /\ a = b
      <4>1. <<0, b>> \in F  BY <1>7, <3>3 DEF F
      <4>. QED  BY <3>3, <4>1
    <3>. QED  BY <3>1, <3>2, <3>3
  <2>. QED  BY <2>3, <2>4, <2>5
<1>9. Pointers(K[h], m) = {}  BY EmptyHasNone
<1>10. Pointers(L[h], c.mem) = Pointers(K[h], m) \cup F /\ Sound(L[h], c.mem)
       BY <1>3, <1>9
<1>11. Own(L, c.mem) /\ AllLive(L, c.mem)
  <2> HIDE DEF F
  <2>1. \A g \in DOMAIN K \ {h} : /\ L[g] = K[g]
                                  /\ Pointers(K[g], c.mem) = Pointers(K[g], m)
                                  /\ Sound(K[g], c.mem)
        BY <1>5, <1>6
  <2>2. Extended(K, L, m, c.mem, F, h)  BY <1>3, <1>8, <1>9, <1>10, <2>1 DEF Extended
  <2>. QED  BY <2>2, ExtendOwn
<1>12. TightStruct(t) => TightStruct(c.tel)  BY <1>2 DEF TightStruct, IsCopy
<1>. QED  BY <1>3, <1>4, <1>5, <1>11, <1>12 DEF Sound

\* The copy fails at slot k: the caller's blob is freed under its struct.  No item
\* loses anything.
LEMMA CopyFailsBreaks ==
    ASSUME NEW K, NEW m, NEW c, NEW s \in DOMAIN K, Heap(m), s[1] = "struct",
           Own(K, m), AllLive(K, m),
           NEW k \in BlobSlots(K[s], m),
           c = CopyTo(K[s], m, {i \in BlobSlots(K[s], m) : i < k})
    PROVE  /\ Heap(Release(c.tel, c.mem))
           /\ ~Live(K[s], Release(c.tel, c.mem))
           /\ \A g \in DOMAIN K : g[1] # "struct" => Untouched(K[g], m, Release(c.tel, c.mem))
<1> DEFINE t == K[s]
           S == {i \in BlobSlots(t, m) : i < k}
           n == Release(c.tel, c.mem)
<1>1. Sound(t, m) /\ Live(t, m)  BY DEF Own, AllSound, AllLive
<1>2. S \in SUBSET BlobSlots(t, m)  OBVIOUS
<1>3. k \notin S /\ k \in 1..t.count /\ t.count \in Nat
  <2>1. t.count \in 0..MaxMetrics /\ MaxMetrics \in Nat
        BY <1>1, OwnershipAssumption DEF Sound, Telemetry
  <2>2. k \in 1..t.count  BY DEF BlobSlots
  <2>. QED  BY <2>1, <2>2
<1>4. PICK A, b : IsCopy(c, t, m, S, A, b)
      BY <1>1, <1>2, CopyFacts
<1> HIDE DEF S
<1>5. \A p : p \in Pointers(c.tel, c.mem) <=>
           \/ \E i \in S : p = <<i, A[i]>>
           \/ \E i \in BlobSlots(t, m) \ S : p = <<i, Slot(t, m, i).val>>
           \/ t.table # NULL /\ p = <<0, b>>
  <2>1. CopyRefs(c, t, m, S, A, b)  BY <1>1, <1>4, CopyPointers
  <2>. QED  BY <2>1 DEF CopyRefs
<1>6. Heap(c.mem)  BY <1>4 DEF IsCopy
<1>7. /\ Heap(n)
      /\ \A a : a \in DOMAIN n <=> a \in DOMAIN c.mem /\ \A p \in Pointers(c.tel, c.mem) : p[2] # a
      /\ \A a \in DOMAIN n : n[a] = c.mem[a]
      BY <1>6, ReleaseHeap
<1> HIDE DEF n
<1>8. Slot(t, m, k).val \notin DOMAIN n
  <2>1. <<k, Slot(t, m, k).val>> \in Pointers(c.tel, c.mem)  BY <1>3, <1>5
  <2>. QED  BY <1>7, <2>1
\* What was on the heap is there, except for the caller's blobs.
<1>9. \A a \in DOMAIN m : (\A i \in BlobSlots(t, m) : Slot(t, m, i).val # a) => a \in DOMAIN n /\ n[a] = m[a]
  <2>1. SUFFICES ASSUME NEW a \in DOMAIN m, \A i \in BlobSlots(t, m) : Slot(t, m, i).val # a
                 PROVE  a \in DOMAIN n /\ n[a] = m[a]
        OBVIOUS
  <2>2. a \in DOMAIN c.mem /\ c.mem[a] = m[a]  BY <1>4 DEF IsCopy
  <2>3. \A i \in S : A[i] # a  BY <1>4 DEF IsCopy
  <2>4. t.table # NULL => b # a  BY <1>4 DEF IsCopy
  <2>5. \A p \in Pointers(c.tel, c.mem) : p[2] # a
        BY <1>5, <2>1, <2>3, <2>4
  <2>. QED  BY <1>7, <2>2, <2>5
<1>10. NULL \notin DOMAIN m /\ NULL \notin DOMAIN n  BY <1>7, OwnershipAssumption DEF Heap
<1>11. ~Live(t, n)
  <2>1. SUFFICES ASSUME Live(t, n) PROVE FALSE  OBVIOUS
  <2>2. t.table \in DOMAIN m <=> t.table \in DOMAIN n
    <3>1. t.table # NULL => <<0, t.table>> \in Pointers(t, m) /\ <<0, t.table>> \in Pointers(t, n)
          BY PointerPlaces
    <3>. QED  BY <1>1, <1>10, <2>1, <3>1 DEF Live
  <2>3. t.table \in DOMAIN m => n[t.table] = m[t.table]
    <3>1. SUFFICES ASSUME t.table \in DOMAIN m PROVE n[t.table] = m[t.table]  OBVIOUS
    <3>2. <<0, t.table>> \in Pointers(t, m)  BY <1>10, <3>1, PointerPlaces
    <3>3. ASSUME NEW i \in BlobSlots(t, m), Slot(t, m, i).val = t.table PROVE FALSE
      <4>1. <<i, Slot(t, m, i).val>> \in Pointers(t, m)  BY PointerPlaces
      <4>2. i # 0  BY <1>3 DEF BlobSlots
      <4>3. <<i, Slot(t, m, i).val>> # <<0, t.table>>  BY <4>2
      <4>. QED  BY <3>2, <3>3, <4>1, <4>3 DEF Own, Exclusive, Shared
    <3>. QED  BY <1>9, <3>1, <3>3
  <2>4. Slot(t, n, k) = Slot(t, m, k)  BY <2>2, <2>3 DEF Slot
  <2>5. k \in BlobSlots(t, n)  BY <2>4 DEF BlobSlots
  <2>6. <<k, Slot(t, n, k).val>> \in Pointers(t, n)  BY <2>5, PointerPlaces
  <2>. QED  BY <1>8, <2>1, <2>4, <2>6 DEF Live
<1>12. ASSUME NEW g \in DOMAIN K, g[1] # "struct" PROVE Untouched(K[g], m, n)
  <2>1. Sound(K[g], m) /\ Live(K[g], m) /\ g # s  BY <1>12 DEF Own, AllSound, AllLive
  <2>2. \A i \in BlobSlots(t, m) : <<i, Slot(t, m, i).val>> \in Pointers(t, m)  BY PointerPlaces
  <2>3. \A i \in BlobSlots(t, m) :
           /\ K[g].count > Inline => K[g].table # Slot(t, m, i).val
           /\ \A j \in BlobSlots(K[g], m) : Slot(K[g], m, j).val # Slot(t, m, i).val
    <3>1. \A p \in Pointers(t, m) :
             /\ K[g].count > Inline => K[g].table # p[2]
             /\ \A j \in BlobSlots(K[g], m) : Slot(K[g], m, j).val # p[2]
          BY <1>12, <2>1, Apart
    <3>. QED  BY <2>2, <3>1
  <2>4. K[g].table # NULL => K[g].table \in DOMAIN m
    <3>1. K[g].table # NULL => <<0, K[g].table>> \in Pointers(K[g], m)  BY PointerPlaces
    <3>. QED  BY <2>1, <3>1 DEF Live
  <2>5. \A j \in BlobSlots(K[g], m) : Slot(K[g], m, j).val \in DOMAIN m
    <3>1. \A j \in BlobSlots(K[g], m) : <<j, Slot(K[g], m, j).val>> \in Pointers(K[g], m)  BY PointerPlaces
    <3>. QED  BY <2>1, <3>1 DEF Live
  <2>6. K[g].count > Inline /\ K[g].table # NULL =>
           K[g].table \in DOMAIN n /\ n[K[g].table] = m[K[g].table]
        BY <1>9, <2>3, <2>4
  <2>7. \A j \in BlobSlots(K[g], m) : /\ Slot(K[g], m, j).val \in DOMAIN n
                                      /\ n[Slot(K[g], m, j).val] = m[Slot(K[g], m, j).val]
        BY <1>9, <2>3, <2>5
  <2>. QED  BY <1>7, <2>1, <2>6, <2>7, UsesUntouched
<1>. QED  BY <1>7, <1>11, <1>12 DEF n

-------------------------------------------------------------------------------
(* append_metric and what follows it.                                      *)

\* A block is added.
LEMMA WithBlock ==
    ASSUME NEW m, Heap(m), NEW a \in Nat \ {0}, a \notin DOMAIN m, NEW x
    PROVE  /\ Heap(With(m, Block(a, x)))
           /\ DOMAIN With(m, Block(a, x)) = DOMAIN m \cup {a}
           /\ \A b \in DOMAIN m : With(m, Block(a, x))[b] = m[b]
           /\ With(m, Block(a, x))[a] = x
<1>1. /\ DOMAIN With(m, Block(a, x)) = DOMAIN m \cup {a}
      /\ \A b \in DOMAIN m : With(m, Block(a, x))[b] = m[b]
      /\ With(m, Block(a, x))[a] = x
      BY DEF With, Block
<1>2. IsFiniteSet(DOMAIN m \cup {a})  BY FS_AddElement DEF Heap
<1>. QED  BY <1>1, <1>2 DEF Heap

\* The struct r.tel has one metric more than t; it has a table if it needs one, and
\* the table is new if t had none.
Appended(r, t, m) ==
    /\ Heap(r.mem) /\ Sound(r.tel, r.mem)
    /\ r.tel.count = t.count + 1 /\ r.tel.inline = t.inline
    /\ r.tel.count > Inline => r.tel.table \in DOMAIN r.mem
    /\ TightStruct(t) => TightStruct(r.tel)
    /\ r.tel.table = t.table \/ (t.table = NULL /\ r.tel.table \in DOMAIN r.mem \ DOMAIN m)
    /\ \A a \in DOMAIN m : a \in DOMAIN r.mem /\ r.mem[a] = m[a]
    /\ \A a \in DOMAIN r.mem : a \in DOMAIN m \/ (t.table = NULL /\ a = r.tel.table)
    /\ \A i \in 1..t.count : Slot(r.tel, r.mem, i) = Slot(t, m, i)

LEMMA AppendFacts ==
    ASSUME NEW t, NEW m, Heap(m), Sound(t, m), Live(t, m), t.count < MaxMetrics
    PROVE  Appended(AppendMetric(t, m), t, m)
<1> DEFINE grow == t.count >= Inline /\ t.table = NULL
           a == Address(m, 1)
           r == AppendMetric(t, m)
           zeros == [i \in TableSlots |-> Zero]
<1>1. /\ t \in Telemetry /\ t.count \in 0..MaxMetrics /\ Inline \in Nat /\ MaxMetrics \in Nat
      /\ t.table \in {NULL} \cup (Nat \ {0}) /\ t.inline \in [1..Inline -> Metric]
      BY OwnershipAssumption DEF Sound, Telemetry
<1>2. a \in Nat \ {0} /\ a \notin DOMAIN m  BY AddressIsNew
<1>3. NULL \notin DOMAIN m /\ NULL \notin Nat  BY OwnershipAssumption DEF Heap
<1>4. t.table # NULL => t.table \in DOMAIN m
  <2>1. t.table # NULL => <<0, t.table>> \in Pointers(t, m)  BY PointerPlaces
  <2>. QED  BY <2>1 DEF Live
<1>5. CASE ~grow
  <2>1. r.tel = [t EXCEPT !.count = @ + 1, !.table = @] /\ r.mem = m
        BY <1>5 DEF AppendMetric
  <2>2. /\ r.tel.count = t.count + 1 /\ r.tel.inline = t.inline /\ r.tel.table = t.table
        /\ r.tel \in Telemetry
    <3> HIDE DEF r, grow
    <3>1. t.count + 1 \in 0..MaxMetrics  BY <1>1
    <3>. QED  BY <1>1, <2>1, <3>1 DEF Telemetry
  <2> HIDE DEF r
  <2>3. Sound(r.tel, r.mem)  BY <2>1, <2>2 DEF Sound
  <2>4. \A i \in 1..t.count : Slot(r.tel, r.mem, i) = Slot(t, m, i)
        BY <2>1, <2>2 DEF Slot
  <2>5. r.tel.count > Inline => r.tel.table \in DOMAIN r.mem
        BY <1>1, <1>4, <1>5, <2>1, <2>2
  <2>6. TightStruct(t) => TightStruct(r.tel)  BY <1>1, <2>2 DEF TightStruct
  <2>. QED  BY <2>1, <2>2, <2>3, <2>4, <2>5, <2>6 DEF Appended, r
<1>6. CASE grow
  <2>1. r.tel = [t EXCEPT !.count = @ + 1, !.table = a] /\ r.mem = With(m, Block(a, zeros))
        BY <1>6 DEF AppendMetric
  <2>2. /\ r.tel.count = t.count + 1 /\ r.tel.inline = t.inline /\ r.tel.table = a
        /\ r.tel \in Telemetry
    <3> HIDE DEF r, grow, a
    <3>1. t.count + 1 \in 0..MaxMetrics  BY <1>1
    <3>. QED  BY <1>1, <1>2, <2>1, <3>1 DEF Telemetry
  <2> HIDE DEF r, a, zeros
  <2>3. /\ Heap(r.mem) /\ DOMAIN r.mem = DOMAIN m \cup {a} /\ r.mem[a] = zeros
        /\ \A b \in DOMAIN m : r.mem[b] = m[b]
        BY <1>2, <2>1, WithBlock
  <2>4. zeros \in Table /\ \A i \in TableSlots : zeros[i] = Zero
        BY DEF zeros, Table, Zero, Metric
  <2>5. Sound(r.tel, r.mem)  BY <2>2, <2>3, <2>4 DEF Sound
  <2>6. \A i \in 1..t.count : Slot(r.tel, r.mem, i) = Slot(t, m, i)
    <3>1. SUFFICES ASSUME NEW i \in 1..t.count PROVE Slot(r.tel, r.mem, i) = Slot(t, m, i)
          OBVIOUS
    <3>2. CASE i <= Inline  BY <2>2, <3>2 DEF Slot
    <3>3. CASE ~(i <= Inline)
      <4>1. i - Inline \in TableSlots  BY <1>1, <3>3 DEF TableSlots
      <4>2. Slot(t, m, i) = Zero  BY <1>3, <1>6, <3>3 DEF Slot
      <4>3. Slot(r.tel, r.mem, i) = Zero  BY <2>2, <2>3, <2>4, <3>3, <4>1 DEF Slot
      <4>. QED  BY <4>2, <4>3
    <3>. QED  BY <3>2, <3>3
  <2>7. TightStruct(r.tel)  BY <1>1, <1>6, <2>2 DEF TightStruct
  <2>. QED  BY <1>2, <1>6, <2>2, <2>3, <2>5, <2>6, <2>7 DEF Appended, r
<1>. QED  BY <1>5, <1>6

\* The last metric of u is written.
LEMMA WriteFacts ==
    ASSUME NEW u, NEW n, NEW x \in Metric, NEW w, Heap(n), Sound(u, n), u.count # 0,
           u.count > Inline => u.table \in DOMAIN n,
           w = Write(u, n, u.count, x)
    PROVE  /\ Sound(w.tel, w.mem) /\ w.tel.count = u.count /\ w.tel.table = u.table
           /\ DOMAIN w.mem = DOMAIN n
           /\ \A a \in DOMAIN n : a # u.table => w.mem[a] = n[a]
           /\ Slot(w.tel, w.mem, u.count) = x
           /\ \A i \in 1..(u.count - 1) : Slot(w.tel, w.mem, i) = Slot(u, n, i)
<1>1. /\ u \in Telemetry /\ u.count \in 1..MaxMetrics /\ Inline \in Nat /\ MaxMetrics \in Nat
      /\ u.inline \in [1..Inline -> Metric]
      BY OwnershipAssumption DEF Sound, Telemetry
<1>2. CASE u.count <= Inline
  <2>1. w.tel = [u EXCEPT !.inline[u.count] = x] /\ w.mem = n
        BY <1>2 DEF Write
  <2>2. /\ w.tel.count = u.count /\ w.tel.table = u.table /\ w.tel \in Telemetry
        /\ w.tel.inline = [u.inline EXCEPT ![u.count] = x]
        BY <1>1, <2>1 DEF Telemetry
  <2>3. Sound(w.tel, w.mem)  BY <2>1, <2>2 DEF Sound
  <2>4. Slot(w.tel, w.mem, u.count) = x  BY <1>1, <1>2, <2>2 DEF Slot
  <2>5. \A i \in 1..(u.count - 1) : Slot(w.tel, w.mem, i) = Slot(u, n, i)
        BY <1>1, <1>2, <2>1, <2>2 DEF Slot
  <2>. QED  BY <2>1, <2>2, <2>3, <2>4, <2>5
<1>3. CASE ~(u.count <= Inline)
  <2>1. w.tel = u /\ w.mem = [n EXCEPT ![u.table][u.count - Inline] = x]
        BY <1>3 DEF Write
  <2>2. u.table \in DOMAIN n /\ n[u.table] \in Table /\ u.count - Inline \in TableSlots
        BY <1>1, <1>3 DEF Sound, TableSlots
  <2>3. /\ DOMAIN w.mem = DOMAIN n
        /\ \A a \in DOMAIN n : a # u.table => w.mem[a] = n[a]
        /\ w.mem[u.table] = [n[u.table] EXCEPT ![u.count - Inline] = x]
        BY <2>1, <2>2
  <2>4. /\ w.mem[u.table] \in Table
        /\ w.mem[u.table][u.count - Inline] = x
        /\ \A j \in TableSlots : j # u.count - Inline => w.mem[u.table][j] = n[u.table][j]
        BY <2>2, <2>3 DEF Table
  <2>5. Sound(w.tel, w.mem)  BY <1>1, <2>1, <2>4 DEF Sound
  <2>6. Slot(w.tel, w.mem, u.count) = x  BY <1>3, <2>1, <2>2, <2>3, <2>4 DEF Slot
  <2>7. \A i \in 1..(u.count - 1) : Slot(w.tel, w.mem, i) = Slot(u, n, i)
    <3>1. SUFFICES ASSUME NEW i \in 1..(u.count - 1), ~(i <= Inline)
                   PROVE  w.mem[u.table][i - Inline] = n[u.table][i - Inline]
          BY <2>1, <2>2, <2>3 DEF Slot
    <3>2. i - Inline \in TableSlots /\ i - Inline # u.count - Inline
          BY <1>1, <3>1 DEF TableSlots
    <3>. QED  BY <2>4, <3>2
  <2>. QED  BY <2>1, <2>3, <2>5, <2>6, <2>7
<1>. QED  BY <1>2, <1>3

\* A struct t that becomes u gets the new blocks of F and may write into its own table.
Grown(t, u, m, n, F) ==
    /\ Heap(n) /\ Sound(u, n)
    /\ \A a \in DOMAIN m : a \in DOMAIN n /\ (a # t.table => n[a] = m[a])
    /\ t.table \in DOMAIN m => n[t.table] \in Table
    /\ Pointers(u, n) = Pointers(t, m) \cup F
    /\ \A p \in F : p[2] \in DOMAIN n \ DOMAIN m
    /\ \A p, q \in F : p[2] = q[2] => p = q
    /\ \A a \in DOMAIN n : a \in DOMAIN m \/ \E p \in F : p[2] = a

LEMMA GrowOwn ==
    ASSUME NEW K, NEW L, NEW m, NEW n, NEW F, NEW s \in DOMAIN K, s[1] = "struct",
           Own(K, m), AllLive(K, m), Heap(m), DOMAIN L = DOMAIN K,
           \A g \in DOMAIN K \ {s} : L[g] = K[g],
           Grown(K[s], L[s], m, n, F)
    PROVE  /\ Own(L, n) /\ AllLive(L, n)
           /\ \A g \in DOMAIN K \ {s} : Untouched(K[g], m, n)
<1>1. NULL \notin DOMAIN m /\ NULL \notin DOMAIN n /\ Heap(n)
      BY OwnershipAssumption DEF Heap, Grown
<1>5. /\ \A a \in DOMAIN m : a \in DOMAIN n /\ (a # K[s].table => n[a] = m[a])
      /\ K[s].table \in DOMAIN m => n[K[s].table] \in Table
      BY DEF Grown
<1>2. ASSUME NEW g \in DOMAIN K \ {s} PROVE Untouched(K[g], m, n) /\ Sound(K[g], n)
  <2>1. Sound(K[g], m) /\ Live(K[g], m)  BY DEF Own, AllSound, AllLive
  <2>2. K[g].table # NULL => K[g].table \in DOMAIN m
    <3>1. K[g].table # NULL => <<0, K[g].table>> \in Pointers(K[g], m)  BY PointerPlaces
    <3>. QED  BY <2>1, <3>1 DEF Live
  <2>3. \A j \in BlobSlots(K[g], m) : Slot(K[g], m, j).val \in DOMAIN m
    <3>1. \A j \in BlobSlots(K[g], m) : <<j, Slot(K[g], m, j).val>> \in Pointers(K[g], m)  BY PointerPlaces
    <3>. QED  BY <2>1, <3>1 DEF Live
  <2>4. K[s].table # NULL =>
           /\ K[g].count > Inline => K[g].table # K[s].table
           /\ \A i \in BlobSlots(K[g], m) : Slot(K[g], m, i).val # K[s].table
    <3>1. K[s].table # NULL => <<0, K[s].table>> \in Pointers(K[s], m)  BY PointerPlaces
    <3>2. \A p \in Pointers(K[s], m) :
             /\ K[g].count > Inline => K[g].table # p[2]
             /\ \A i \in BlobSlots(K[g], m) : Slot(K[g], m, i).val # p[2]
          BY Apart
    <3>. QED  BY <3>1, <3>2
  <2>5. K[g].count > Inline /\ K[g].table # NULL =>
           K[g].table \in DOMAIN n /\ n[K[g].table] = m[K[g].table]
        BY <1>5, <2>2, <2>4
  <2>6. \A i \in BlobSlots(K[g], m) : /\ Slot(K[g], m, i).val \in DOMAIN n
                                      /\ n[Slot(K[g], m, i).val] = m[Slot(K[g], m, i).val]
        BY <1>1, <1>5, <2>3, <2>4
  <2>7. Untouched(K[g], m, n)  BY <1>1, <2>1, <2>5, <2>6, UsesUntouched
  <2>8. Sound(K[g], n)  BY <1>1, <1>5, <2>1, <2>2 DEF Sound
  <2>. QED  BY <2>7, <2>8
<1>3. \A g \in DOMAIN K \ {s} : /\ L[g] = K[g]
                                /\ Pointers(K[g], n) = Pointers(K[g], m)
                                /\ Sound(K[g], n)
      BY <1>2, Frame DEF Sound
<1>4. Extended(K, L, m, n, F, s)  BY <1>3 DEF Grown, Extended
<1>6. Own(L, n) /\ AllLive(L, n)  BY <1>4, ExtendOwn
<1>. QED  BY <1>2, <1>6

\* The new pointers of a struct that grew from t to u: the table, if it is new, and
\* a blob in the last slot, if there is one.
NewPointers(t, u, x) ==
    (IF t.table = u.table THEN {} ELSE {<<0, u.table>>})
      \cup (IF x.kind = "blob" /\ x.val # NULL THEN {<<u.count, x.val>>} ELSE {})

LEMMA GrownPointers ==
    ASSUME NEW t, NEW u, NEW m, NEW n, NEW x, t.count \in Nat, u.count = t.count + 1,
           t.table = u.table \/ (t.table = NULL /\ u.table # NULL),
           \A i \in 1..t.count : Slot(u, n, i) = Slot(t, m, i),
           Slot(u, n, u.count) = x
    PROVE  Pointers(u, n) = Pointers(t, m) \cup NewPointers(t, u, x)
<1>1. \A i \in 1..t.count : i \in BlobSlots(u, n) <=> i \in BlobSlots(t, m)
      BY DEF BlobSlots
<1>2. u.count \in BlobSlots(u, n) <=> x.kind = "blob" /\ x.val # NULL
      BY DEF BlobSlots
<1>3. /\ \A i \in BlobSlots(u, n) : i \in 1..t.count \/ i = u.count
      /\ \A i \in BlobSlots(t, m) : i \in 1..t.count
      BY DEF BlobSlots
<1>4. \A p : p \in Pointers(t, m) <=>
         \/ \E i \in BlobSlots(t, m) : p = <<i, Slot(t, m, i).val>>
         \/ t.table # NULL /\ p = <<0, t.table>>
      BY PointerPlaces
<1>5. \A p : p \in Pointers(u, n) <=>
         \/ \E i \in BlobSlots(u, n) : p = <<i, Slot(u, n, i).val>>
         \/ u.table # NULL /\ p = <<0, u.table>>
      BY PointerPlaces
<1>6. \A p : (\E i \in BlobSlots(u, n) : p = <<i, Slot(u, n, i).val>>) <=>
         \/ \E i \in BlobSlots(t, m) : p = <<i, Slot(t, m, i).val>>
         \/ x.kind = "blob" /\ x.val # NULL /\ p = <<u.count, x.val>>
      BY <1>1, <1>2, <1>3
<1>. QED  BY <1>4, <1>5, <1>6 DEF NewPointers

\* aetus_telemetry_add_*: n is the heap with the table, and with the new blob if the
\* metric x has one.
LEMMA AddOwn ==
    ASSUME NEW K, NEW L, NEW m, NEW n, NEW r, NEW x \in Metric, NEW w,
           NEW s \in DOMAIN K, s[1] = "struct",
           Own(K, m), AllLive(K, m), Heap(m), DOMAIN L = DOMAIN K,
           \A g \in DOMAIN K \ {s} : L[g] = K[g],
           K[s].count < MaxMetrics, r = AppendMetric(K[s], m),
           Heap(n), \A a \in DOMAIN r.mem : a \in DOMAIN n /\ n[a] = r.mem[a],
           \A a \in DOMAIN n : a \in DOMAIN r.mem \/ (x.kind = "blob" /\ a = x.val),
           x.kind = "blob" /\ x.val # NULL => x.val \in DOMAIN n \ DOMAIN r.mem,
           w = Write(r.tel, n, r.tel.count, x), L[s] = w.tel
    PROVE  /\ Own(L, w.mem) /\ AllLive(L, w.mem)
           /\ TightStruct(K[s]) => TightStruct(w.tel)
           /\ Heap(w.mem) /\ w.tel \in Telemetry
           /\ \A g \in DOMAIN K \ {s} : Untouched(K[g], m, w.mem)
<1> DEFINE t == K[s]
           F == NewPointers(t, w.tel, x)
<1>1. Sound(t, m) /\ Live(t, m)  BY DEF Own, AllSound, AllLive
<1>2. Appended(r, t, m)  BY <1>1, AppendFacts
<1>3. t.count \in Nat /\ Inline \in Nat  BY <1>1, OwnershipAssumption DEF Sound, Telemetry
<1>4. NULL \notin DOMAIN m /\ NULL \notin DOMAIN n /\ NULL \notin DOMAIN r.mem
      BY <1>2, OwnershipAssumption DEF Heap, Appended
<1>5. r.tel.table # NULL => r.tel.table \in DOMAIN r.mem
  <2>1. t.table # NULL => <<0, t.table>> \in Pointers(t, m)  BY PointerPlaces
  <2>2. t.table # NULL => t.table \in DOMAIN m  BY <1>1, <2>1 DEF Live
  <2>. QED  BY <1>2, <2>2 DEF Appended
<1>6. Sound(r.tel, n)  BY <1>2, <1>4, <1>5 DEF Appended, Sound
<1>7. /\ Sound(w.tel, w.mem) /\ w.tel.count = r.tel.count /\ w.tel.table = r.tel.table
      /\ DOMAIN w.mem = DOMAIN n
      /\ \A a \in DOMAIN n : a # r.tel.table => w.mem[a] = n[a]
      /\ Slot(w.tel, w.mem, r.tel.count) = x
      /\ \A i \in 1..(r.tel.count - 1) : Slot(w.tel, w.mem, i) = Slot(r.tel, n, i)
  <2>1. r.tel.count # 0  BY <1>2, <1>3 DEF Appended
  <2>2. r.tel.count > Inline => r.tel.table \in DOMAIN n  BY <1>2 DEF Appended
  <2>. QED  BY <1>6, <2>1, <2>2, WriteFacts
<1>8. r.tel.count = t.count + 1 /\ r.tel.count - 1 = t.count  BY <1>2, <1>3 DEF Appended
<1>9. \A i \in 1..t.count : Slot(w.tel, w.mem, i) = Slot(t, m, i)
  <2>1. \A i \in 1..t.count : Slot(r.tel, n, i) = Slot(r.tel, r.mem, i)
        BY <1>4, <1>5 DEF Slot
  <2>2. \A i \in 1..t.count : Slot(r.tel, r.mem, i) = Slot(t, m, i)  BY <1>2 DEF Appended
  <2>. QED  BY <1>7, <1>8, <2>1, <2>2
<1>10. t.table = w.tel.table \/ (t.table = NULL /\ w.tel.table \in DOMAIN r.mem \ DOMAIN m)
       BY <1>2, <1>7 DEF Appended
<1>11. Pointers(w.tel, w.mem) = Pointers(t, m) \cup F
       BY <1>3, <1>4, <1>7, <1>8, <1>9, <1>10, GrownPointers
<1>12. Heap(w.mem)  BY <1>7 DEF Heap
<1>13. \A a \in DOMAIN m : a \in DOMAIN w.mem /\ (a # t.table => w.mem[a] = m[a])
       BY <1>2, <1>4, <1>7 DEF Appended
<1>14. t.table \in DOMAIN m => w.mem[t.table] \in Table
       BY <1>2, <1>4, <1>7, <1>13 DEF Sound, Appended
<1>15. \A p \in F : /\ p[2] \in DOMAIN w.mem \ DOMAIN m
                    /\ \/ p = <<0, w.tel.table>> /\ p[2] \in DOMAIN r.mem
                       \/ p = <<w.tel.count, x.val>> /\ p[2] \notin DOMAIN r.mem
       BY <1>2, <1>7, <1>10 DEF NewPointers, Appended
<1>16. \A p, q \in F : p[2] = q[2] => p = q  BY <1>15
<1>17. \A a \in DOMAIN w.mem : a \in DOMAIN m \/ \E p \in F : p[2] = a
  <2>1. SUFFICES ASSUME NEW a \in DOMAIN n, a \notin DOMAIN m PROVE \E p \in F : p[2] = a
        BY <1>7
  <2>2. CASE a \in DOMAIN r.mem
    <3>1. a = w.tel.table /\ t.table = NULL  BY <1>2, <1>7, <2>1, <2>2 DEF Appended
    <3>2. <<0, a>> \in F  BY <1>4, <2>2, <3>1 DEF NewPointers
    <3>. QED  BY <3>2
  <2>3. CASE x.kind = "blob" /\ a = x.val
    <3>1. <<w.tel.count, a>> \in F  BY <1>4, <2>3 DEF NewPointers
    <3>. QED  BY <3>1
  <2>. QED  BY <2>2, <2>3
<1> HIDE DEF F
<1>18. /\ Own(L, w.mem) /\ AllLive(L, w.mem)
       /\ \A g \in DOMAIN K \ {s} : Untouched(K[g], m, w.mem)
  <2>1. Grown(t, L[s], m, w.mem, F)
        BY <1>7, <1>11, <1>12, <1>13, <1>14, <1>15, <1>16, <1>17 DEF Grown
  <2>. QED  BY <2>1, GrowOwn
<1>19. TightStruct(t) => TightStruct(w.tel)  BY <1>2, <1>7 DEF TightStruct, Appended
<1>. QED  BY <1>7, <1>12, <1>18, <1>19 DEF Sound

\* aetus_telemetry_add_string() without memory for the string: only a new table is left.
LEMMA AddFailsOwn ==
    ASSUME NEW K, NEW L, NEW m, NEW r,
           NEW s \in DOMAIN K, s[1] = "struct",
           Own(K, m), AllLive(K, m), Heap(m), DOMAIN L = DOMAIN K,
           \A g \in DOMAIN K \ {s} : L[g] = K[g],
           K[s].count < MaxMetrics, r = AppendMetric(K[s], m),
           L[s] = [K[s] EXCEPT !.table = r.tel.table]
    PROVE  /\ Own(L, r.mem) /\ AllLive(L, r.mem) /\ Heap(r.mem) /\ L[s] \in Telemetry
           /\ \A g \in DOMAIN K \ {s} : Untouched(K[g], m, r.mem)
<1> DEFINE t == K[s]
           u == L[s]
           F == IF t.table = u.table THEN {} ELSE {<<0, u.table>>}
<1>1. Sound(t, m) /\ Live(t, m)  BY DEF Own, AllSound, AllLive
<1>2. Appended(r, t, m)  BY <1>1, AppendFacts
<1>3. t.count \in Nat /\ Inline \in Nat  BY <1>1, OwnershipAssumption DEF Sound, Telemetry
<1>4. NULL \notin DOMAIN m /\ NULL \notin DOMAIN r.mem
      BY <1>2, OwnershipAssumption DEF Heap, Appended
<1>5. u.count = t.count /\ u.inline = t.inline /\ u.table = r.tel.table /\ u \in Telemetry
  <2>1. r.tel \in Telemetry /\ t \in Telemetry  BY <1>1, <1>2 DEF Appended, Sound
  <2>. QED  BY <2>1 DEF Telemetry
<1>6. Sound(u, r.mem)  BY <1>2, <1>5 DEF Appended, Sound
<1>7. \A i \in 1..t.count : Slot(u, r.mem, i) = Slot(t, m, i)
  <2>1. r.tel.inline = t.inline  BY <1>2 DEF Appended
  <2>2. \A i \in 1..t.count : Slot(u, r.mem, i) = Slot(r.tel, r.mem, i)  BY <1>5, <2>1 DEF Slot
  <2>. QED  BY <1>2, <2>2 DEF Appended
<1>8. t.table = u.table \/ (t.table = NULL /\ u.table \in DOMAIN r.mem \ DOMAIN m)
      BY <1>2, <1>5 DEF Appended
<1>9. Pointers(u, r.mem) = Pointers(t, m) \cup F
  <2>1. BlobSlots(u, r.mem) = BlobSlots(t, m)  BY <1>5, <1>7 DEF BlobSlots
  <2>2. \A i \in BlobSlots(t, m) : i \in 1..t.count  BY DEF BlobSlots
  <2>3. \A p : p \in Pointers(t, m) <=>
           \/ \E i \in BlobSlots(t, m) : p = <<i, Slot(t, m, i).val>>
           \/ t.table # NULL /\ p = <<0, t.table>>
        BY PointerPlaces
  <2>4. \A p : p \in Pointers(u, r.mem) <=>
           \/ \E i \in BlobSlots(t, m) : p = <<i, Slot(t, m, i).val>>
           \/ u.table # NULL /\ p = <<0, u.table>>
    <3> HIDE DEF u
    <3>1. \A p : p \in Pointers(u, r.mem) <=>
             \/ \E i \in BlobSlots(u, r.mem) : p = <<i, Slot(u, r.mem, i).val>>
             \/ u.table # NULL /\ p = <<0, u.table>>
          BY PointerPlaces
    <3>2. \A i \in BlobSlots(t, m) : Slot(u, r.mem, i) = Slot(t, m, i)  BY <1>7, <2>2
    <3>. QED  BY <2>1, <3>1, <3>2
  <2>. QED  BY <1>4, <1>8, <2>3, <2>4
<1>10. \A a \in DOMAIN m : a \in DOMAIN r.mem /\ r.mem[a] = m[a]  BY <1>2 DEF Appended
<1>11. /\ \A p \in F : p[2] \in DOMAIN r.mem \ DOMAIN m
       /\ \A p, q \in F : p[2] = q[2] => p = q
       BY <1>8
<1>12. \A a \in DOMAIN r.mem : a \in DOMAIN m \/ \E p \in F : p[2] = a
       BY <1>2, <1>4, <1>5 DEF Appended
<1>13. t.table \in DOMAIN m => r.mem[t.table] \in Table  BY <1>1, <1>10 DEF Sound
<1>14. Heap(r.mem)  BY <1>2 DEF Appended
<1> HIDE DEF F
<1>15. /\ Own(L, r.mem) /\ AllLive(L, r.mem)
       /\ \A g \in DOMAIN K \ {s} : Untouched(K[g], m, r.mem)
  <2>1. Grown(t, u, m, r.mem, F)
        BY <1>6, <1>9, <1>10, <1>11, <1>12, <1>13, <1>14 DEF Grown
  <2>. QED  BY <2>1, GrowOwn
<1>. QED  BY <1>5, <1>14, <1>15

\* What an item uses outlives the release of any other holder.
LEMMA ReleaseUntouched ==
    ASSUME NEW K, NEW m, NEW h \in DOMAIN K, NEW g \in DOMAIN K, g # h, g[1] # "struct",
           Heap(m), Own(K, m), AllLive(K, m)
    PROVE  Untouched(K[g], m, Release(K[h], m))
<1> DEFINE n == Release(K[h], m)
<1>1. /\ Heap(n)
      /\ \A a : a \in DOMAIN n <=> a \in DOMAIN m /\ \A p \in Pointers(K[h], m) : p[2] # a
      /\ \A a \in DOMAIN n : n[a] = m[a]
      BY ReleaseHeap
<1> HIDE DEF n
<1>2. Sound(K[g], m) /\ Live(K[g], m)  BY DEF Own, AllSound, AllLive
<1>3. K[g].table # NULL => K[g].table \in DOMAIN m
  <2>1. K[g].table # NULL => <<0, K[g].table>> \in Pointers(K[g], m)  BY PointerPlaces
  <2>. QED  BY <1>2, <2>1 DEF Live
<1>4. \A j \in BlobSlots(K[g], m) : Slot(K[g], m, j).val \in DOMAIN m
  <2>1. \A j \in BlobSlots(K[g], m) : <<j, Slot(K[g], m, j).val>> \in Pointers(K[g], m)
        BY PointerPlaces
  <2>. QED  BY <1>2, <2>1 DEF Live
<1>5. \A p \in Pointers(K[h], m) :
         /\ K[g].count > Inline => K[g].table # p[2]
         /\ \A i \in BlobSlots(K[g], m) : Slot(K[g], m, i).val # p[2]
      BY Apart
<1>6. K[g].count > Inline /\ K[g].table # NULL =>
         K[g].table \in DOMAIN n /\ n[K[g].table] = m[K[g].table]
      BY <1>1, <1>3, <1>5
<1>7. \A i \in BlobSlots(K[g], m) : /\ Slot(K[g], m, i).val \in DOMAIN n
                                    /\ n[Slot(K[g], m, i).val] = m[Slot(K[g], m, i).val]
      BY <1>1, <1>4, <1>5
<1>8. Untouched(K[g], m, n)  BY <1>1, <1>2, <1>6, <1>7, UsesUntouched
<1>. QED  BY <1>8 DEF n

\* A holder releases its struct and nothing is shared: nobody is left dangling.
LEMMA ReleaseLive ==
    ASSUME NEW K, NEW L, NEW m, NEW h \in DOMAIN K, Heap(m),
           Own(K, m), AllLive(K, m), Tight(K), DOMAIN L = DOMAIN K,
           L[h] = EmptyTelemetry, \A g \in DOMAIN K \ {h} : L[g] = K[g]
    PROVE  AllLive(L, Release(K[h], m)) /\ Tight(L)
<1> DEFINE n == Release(K[h], m)
<1>1. /\ Heap(n)
      /\ \A a : a \in DOMAIN n <=> a \in DOMAIN m /\ \A p \in Pointers(K[h], m) : p[2] # a
      /\ \A a \in DOMAIN n : n[a] = m[a]
      BY ReleaseHeap
<1> HIDE DEF n
<1>2. ASSUME NEW g \in DOMAIN K \ {h} PROVE Live(L[g], n)
  <2>1. Sound(K[g], m) /\ Live(K[g], m)  BY DEF Own, AllSound, AllLive
  <2>2. ASSUME NEW p \in Pointers(K[h], m), NEW q \in Pointers(K[g], m), p[2] = q[2] PROVE FALSE
    <3>1. Shared(K, h, g, p, q)  BY <2>2 DEF Own, Exclusive
    <3>2. /\ IsrSafeEnqueue /\ p[1] = 0 /\ q[1] = 0
          /\ K[h].count <= Inline \/ K[g].count <= Inline
          BY <3>1 DEF Shared, MayShare
    <3>3. K[h].table = NULL \/ K[g].table = NULL  BY <3>2 DEF Tight, TightStruct
    <3>4. ASSUME NEW f \in DOMAIN K, NEW o \in Pointers(K[f], m), o[1] = 0
          PROVE  K[f].table # NULL
      <4>1. (\E i \in BlobSlots(K[f], m) : o = <<i, Slot(K[f], m, i).val>>) \/ K[f].table # NULL
            BY PointerPlaces
      <4>2. \A i \in BlobSlots(K[f], m) : i \in 1..K[f].count  BY DEF BlobSlots
      <4>3. K[f].count \in Nat  BY OwnershipAssumption DEF Own, AllSound, Sound, Telemetry
      <4>. QED  BY <3>4, <4>1, <4>2, <4>3
    <3>5. K[h].table # NULL /\ K[g].table # NULL  BY <3>2, <3>4
    <3>. QED  BY <3>3, <3>5
  <2>3. \A q \in Pointers(K[g], m) : q[2] \in DOMAIN n /\ n[q[2]] = m[q[2]]
        BY <1>1, <2>1, <2>2 DEF Live
  <2>4. K[g].table # NULL => K[g].table \in DOMAIN n /\ n[K[g].table] = m[K[g].table]
    <3>1. K[g].table # NULL => <<0, K[g].table>> \in Pointers(K[g], m)  BY PointerPlaces
    <3>. QED  BY <2>3, <3>1
  <2>5. \A j \in BlobSlots(K[g], m) : /\ Slot(K[g], m, j).val \in DOMAIN n
                                      /\ n[Slot(K[g], m, j).val] = m[Slot(K[g], m, j).val]
    <3>1. \A j \in BlobSlots(K[g], m) : <<j, Slot(K[g], m, j).val>> \in Pointers(K[g], m)
          BY PointerPlaces
    <3>. QED  BY <2>3, <3>1
  <2>6. Untouched(K[g], m, n)  BY <1>1, <2>1, <2>4, <2>5, UsesUntouched
  <2>7. Pointers(K[g], n) = Pointers(K[g], m)  BY <2>1, <2>6, Frame DEF Sound
  <2>. QED  BY <2>3, <2>7 DEF Live
<1>3. Live(L[h], n) /\ TightStruct(L[h])  BY EmptyHasNone DEF TightStruct
<1>4. AllLive(L, n)  BY <1>2, <1>3 DEF AllLive
<1>5. Tight(L)  BY <1>3 DEF Tight
<1>. QED  BY <1>4, <1>5 DEF n

-------------------------------------------------------------------------------
(* The state: the structs te, the items in hand ha, the queue qu, the item of   *)
(* the uploader it, and the heap m.                                             *)

HoldersOf(qu) ==
    ({"struct", "hand"} \X Structs) \cup ({"queue"} \X DOMAIN qu) \cup {<<"item", 0>>}

\* The struct in a sequence of at most one item.
TelOf(q) == IF q = <<>> THEN EmptyTelemetry ELSE Head(q).tel

KeepingOf(te, ha, qu, it) ==
    [h \in HoldersOf(qu) |->
        IF h[1] = "struct" THEN te[h[2]]
        ELSE IF h[1] = "hand" THEN TelOf(ha[h[2]])
        ELSE IF h[1] = "queue" THEN qu[h[2]].tel
        ELSE TelOf(it)]

ItemsOf(ha, qu, it) == (UNION {Range(ha[s]) : s \in Structs}) \cup Range(qu) \cup Range(it)

Typed(te, ha, qu, it) ==
    /\ te \in [Structs -> Telemetry]
    /\ \E S : ha \in [Structs -> Seq(S)] /\ qu \in Seq(S) /\ it \in Seq(S)
    /\ \A s \in Structs : Len(ha[s]) <= 1
    /\ Len(it) <= 1

\* The inductive invariant.
Good(te, ha, qu, it, m) ==
    /\ Typed(te, ha, qu, it)
    /\ Heap(m)
    /\ AllLive(KeepingOf(te, ha, qu, it), m) => Own(KeepingOf(te, ha, qu, it), m)
    /\ \A x \in ItemsOf(ha, qu, it) : View(x.tel, m) = x.said

\* What holds as long as no allocation fails: nothing dangles, and nothing is shared
\* that could.
Secure(te, ha, qu, it, m) ==
    AllLive(KeepingOf(te, ha, qu, it), m) /\ Tight(KeepingOf(te, ha, qu, it))

\* The holders and what they keep.
Keeping(K, te, ha, qu, it) ==
    /\ DOMAIN K = HoldersOf(qu)
    /\ \A s \in Structs : /\ <<"struct", s>> \in DOMAIN K /\ K[<<"struct", s>>] = te[s]
                          /\ <<"hand", s>> \in DOMAIN K /\ K[<<"hand", s>>] = TelOf(ha[s])
    /\ \A i \in DOMAIN qu : <<"queue", i>> \in DOMAIN K /\ K[<<"queue", i>>] = qu[i].tel
    /\ <<"item", 0>> \in DOMAIN K /\ K[<<"item", 0>>] = TelOf(it)
    /\ \A h \in DOMAIN K :
          \/ \E s \in Structs : h = <<"struct", s>>
          \/ \E s \in Structs : h = <<"hand", s>>
          \/ \E i \in DOMAIN qu : h = <<"queue", i>>
          \/ h = <<"item", 0>>

LEMMA Keeps ==
    ASSUME NEW te, NEW ha, NEW qu, NEW it
    PROVE  Keeping(KeepingOf(te, ha, qu, it), te, ha, qu, it)
<1> DEFINE K == KeepingOf(te, ha, qu, it)
<1>1. DOMAIN K = HoldersOf(qu)  BY DEF KeepingOf
<1>2. \A s \in Structs : <<"struct", s>> \in HoldersOf(qu) /\ <<"hand", s>> \in HoldersOf(qu)
      BY DEF HoldersOf
<1>3. \A i \in DOMAIN qu : <<"queue", i>> \in HoldersOf(qu)  BY DEF HoldersOf
<1>4. <<"item", 0>> \in HoldersOf(qu)  BY DEF HoldersOf
<1>5. \A h \in HoldersOf(qu) :
         \/ \E s \in Structs : h = <<"struct", s>>
         \/ \E s \in Structs : h = <<"hand", s>>
         \/ \E i \in DOMAIN qu : h = <<"queue", i>>
         \/ h = <<"item", 0>>
      BY DEF HoldersOf
<1>6. \A s \in Structs : K[<<"struct", s>>] = te[s] /\ K[<<"hand", s>>] = TelOf(ha[s])
      BY <1>2 DEF KeepingOf
<1>7. \A i \in DOMAIN qu : K[<<"queue", i>>] = qu[i].tel
      BY <1>3 DEF KeepingOf
<1>8. K[<<"item", 0>>] = TelOf(it)
      BY <1>4 DEF KeepingOf
<1> HIDE DEF K
<1>9. Keeping(K, te, ha, qu, it)
      BY <1>1, <1>2, <1>3, <1>4, <1>5, <1>6, <1>7, <1>8 DEF Keeping
<1>. QED  BY <1>9 DEF K

\* The element of a sequence of at most one.
LEMMA AtMostOne ==
    ASSUME NEW S, NEW q \in Seq(S), Len(q) <= 1, NEW x
    PROVE  x \in Range(q) <=> q # <<>> /\ x = Head(q)
<1>1. CASE q = <<>>
  <2>1. DOMAIN q = {}  BY <1>1
  <2>. QED  BY <1>1, <2>1 DEF Range
<1>2. CASE q # <<>>
  <2>1. Len(q) \in Nat /\ Len(q) # 0  BY <1>2
  <2>2. Len(q) = 1
    <3>1. \A n \in Nat : n # 0 /\ n <= 1 => n = 1  OBVIOUS
    <3>. QED  BY <2>1, <3>1
  <2>3. DOMAIN q = {1}  BY <2>2
  <2>4. Head(q) = q[1]  BY <1>2
  <2>. QED  BY <1>2, <2>3, <2>4 DEF Range
<1>. QED  BY <1>1, <1>2

\* The items are the first elements of hand[s] and of item, and those of the queue.
IsItem(x, ha, qu, it) ==
    \/ \E s \in Structs : ha[s] # <<>> /\ x = Head(ha[s])
    \/ \E i \in DOMAIN qu : x = qu[i]
    \/ it # <<>> /\ x = Head(it)

LEMMA ItemPlaces ==
    ASSUME NEW te, NEW ha, NEW qu, NEW it, Typed(te, ha, qu, it), NEW x
    PROVE  x \in ItemsOf(ha, qu, it) <=> IsItem(x, ha, qu, it)
<1>1. PICK S : ha \in [Structs -> Seq(S)] /\ qu \in Seq(S) /\ it \in Seq(S)  BY DEF Typed
<1>2. (\A s \in Structs : Len(ha[s]) <= 1) /\ Len(it) <= 1  BY DEF Typed
<1>3. ASSUME NEW s \in Structs PROVE x \in Range(ha[s]) <=> ha[s] # <<>> /\ x = Head(ha[s])
  <2>1. ha[s] \in Seq(S) /\ Len(ha[s]) <= 1  BY <1>1, <1>2
  <2>. QED  BY <2>1, AtMostOne
<1>4. x \in Range(it) <=> it # <<>> /\ x = Head(it)
      BY <1>1, <1>2, AtMostOne
<1>5. x \in Range(qu) <=> \E i \in DOMAIN qu : x = qu[i]
      BY DEF Range
<1>6. x \in ItemsOf(ha, qu, it) <=>
         (\E s \in Structs : x \in Range(ha[s])) \/ x \in Range(qu) \/ x \in Range(it)
  <2> DEFINE T == {Range(ha[s]) : s \in Structs}
             U == UNION T
  <2>1. ASSUME NEW y \in U PROVE \E s \in Structs : y \in Range(ha[s])
    <3>1. PICK R \in T : y \in R  BY <2>1
    <3>. QED  BY <3>1
  <2>2. ASSUME NEW s \in Structs, x \in Range(ha[s]) PROVE x \in U
    <3>1. Range(ha[s]) \in T  OBVIOUS
    <3> HIDE DEF T
    <3>. QED  BY <2>2, <3>1
  <2>3. x \in ItemsOf(ha, qu, it) <=> x \in U \/ x \in Range(qu) \/ x \in Range(it)
    <3>1. ItemsOf(ha, qu, it) = U \cup Range(qu) \cup Range(it)  BY DEF ItemsOf
    <3> HIDE DEF U
    <3>. QED  BY <3>1
  <2> HIDE DEF U
  <2>. QED  BY <2>1, <2>2, <2>3
<1>. QED  BY <1>3, <1>4, <1>5, <1>6 DEF IsItem

\* A holder that is not an empty hand and not an empty item.
Holds(g, ha, it) ==
    /\ g[1] # "struct"
    /\ \A s \in Structs : g = <<"hand", s>> => ha[s] # <<>>
    /\ g = <<"item", 0>> => it # <<>>

\* Every item has a holder.
LEMMA ItemHolder ==
    ASSUME NEW te, NEW ha, NEW qu, NEW it, Typed(te, ha, qu, it), NEW K,
           Keeping(K, te, ha, qu, it), NEW x \in ItemsOf(ha, qu, it)
    PROVE  \E g \in DOMAIN K : Holds(g, ha, it) /\ K[g] = x.tel
<1>0. IsItem(x, ha, qu, it)  BY ItemPlaces
<1>1. CASE \E s \in Structs : ha[s] # <<>> /\ x = Head(ha[s])
  <2>1. PICK s \in Structs : ha[s] # <<>> /\ x = Head(ha[s])  BY <1>1
  <2>2. <<"hand", s>> \in DOMAIN K /\ K[<<"hand", s>>] = x.tel  BY <2>1 DEF Keeping, TelOf
  <2>. QED  BY <2>1, <2>2 DEF Holds
<1>2. CASE \E i \in DOMAIN qu : x = qu[i]
  <2>1. PICK i \in DOMAIN qu : x = qu[i]  BY <1>2
  <2>2. <<"queue", i>> \in DOMAIN K /\ K[<<"queue", i>>] = x.tel  BY <2>1 DEF Keeping
  <2>. QED  BY <2>2 DEF Holds
<1>3. CASE it # <<>> /\ x = Head(it)
  <2>1. <<"item", 0>> \in DOMAIN K /\ K[<<"item", 0>>] = x.tel  BY <1>3 DEF Keeping, TelOf
  <2>. QED  BY <1>3, <2>1 DEF Holds
<1>. QED  BY <1>0, <1>1, <1>2, <1>3 DEF IsItem

\* Nothing dangles exactly if no holder has a pointer that does.
LEMMA IntactIsLive ==
    ASSUME NEW te, NEW ha, NEW qu, NEW it, Typed(te, ha, qu, it), NEW m, NEW K,
           Keeping(K, te, ha, qu, it)
    PROVE  AllLive(K, m) <=>
              /\ \A s \in Structs : Live(te[s], m)
              /\ \A x \in ItemsOf(ha, qu, it) : Live(x.tel, m)
<1>1. ASSUME AllLive(K, m) PROVE \A s \in Structs : Live(te[s], m)
      BY <1>1 DEF AllLive, Keeping
<1>2. ASSUME AllLive(K, m), NEW x \in ItemsOf(ha, qu, it) PROVE Live(x.tel, m)
  <2>1. \E g \in DOMAIN K : K[g] = x.tel  BY ItemHolder
  <2>. QED  BY <1>2, <2>1 DEF AllLive
<1>3. ASSUME \A s \in Structs : Live(te[s], m),
             \A x \in ItemsOf(ha, qu, it) : Live(x.tel, m),
             NEW h \in DOMAIN K
      PROVE  Live(K[h], m)
  <2>0. Live(EmptyTelemetry, m)  BY EmptyHasNone
  <2>1. CASE \E s \in Structs : h = <<"struct", s>>
        BY <1>3, <2>1 DEF Keeping
  <2>2. CASE \E s \in Structs : h = <<"hand", s>>
    <3>1. PICK s \in Structs : h = <<"hand", s>>  BY <2>2
    <3>2. K[h] = TelOf(ha[s])  BY <3>1 DEF Keeping
    <3>3. ha[s] # <<>> => Head(ha[s]) \in ItemsOf(ha, qu, it)  BY ItemPlaces DEF IsItem
    <3>. QED  BY <1>3, <2>0, <3>2, <3>3 DEF TelOf
  <2>3. CASE \E i \in DOMAIN qu : h = <<"queue", i>>
    <3>1. PICK i \in DOMAIN qu : h = <<"queue", i>>  BY <2>3
    <3>2. K[h] = qu[i].tel  BY <3>1 DEF Keeping
    <3>3. qu[i] \in ItemsOf(ha, qu, it)  BY ItemPlaces DEF IsItem
    <3>. QED  BY <1>3, <3>2, <3>3
  <2>4. CASE h = <<"item", 0>>
    <3>2. K[h] = TelOf(it)  BY <2>4 DEF Keeping
    <3>3. it # <<>> => Head(it) \in ItemsOf(ha, qu, it)  BY ItemPlaces DEF IsItem
    <3>. QED  BY <1>3, <2>0, <3>2, <3>3 DEF TelOf
  <2>5. \/ \E s \in Structs : h = <<"struct", s>>
        \/ \E s \in Structs : h = <<"hand", s>>
        \/ \E i \in DOMAIN qu : h = <<"queue", i>>
        \/ h = <<"item", 0>>
        BY DEF Keeping
  <2>. QED  BY <2>1, <2>2, <2>3, <2>4, <2>5
<1>. QED  BY <1>1, <1>2, <1>3 DEF AllLive

\* Who holds an item loses nothing of what it uses.
Spared(K, ha, it, m, n) ==
    \A g \in DOMAIN K : Holds(g, ha, it) => Untouched(K[g], m, n)

\* Items whose holders lose nothing say what they said.
LEMMA ItemsSay ==
    ASSUME NEW te, NEW ha, NEW qu, NEW it, Typed(te, ha, qu, it), NEW K, NEW m, NEW n,
           Keeping(K, te, ha, qu, it), AllSound(K, m),
           Spared(K, ha, it, m, n)
    PROVE  \A x \in ItemsOf(ha, qu, it) : View(x.tel, n) = View(x.tel, m)
<1> TAKE x \in ItemsOf(ha, qu, it)
<1>1. PICK g \in DOMAIN K : Holds(g, ha, it) /\ K[g] = x.tel  BY ItemHolder
<1>2. x.tel \in Telemetry /\ Untouched(x.tel, m, n)  BY <1>1 DEF AllSound, Sound, Spared
<1>. QED  BY <1>2, Frame

\* The holder h, and only h, keeps another struct, u.
Changed(K, L, h, u) ==
    /\ h \in DOMAIN K /\ DOMAIN L = DOMAIN K /\ L[h] = u
    /\ \A g \in DOMAIN K \ {h} : L[g] = K[g]

LEMMA StructChange ==
    ASSUME NEW te \in [Structs -> Telemetry], NEW ha, NEW qu, NEW it, NEW K, NEW L, NEW u,
           NEW s \in Structs, Keeping(K, te, ha, qu, it),
           Keeping(L, [te EXCEPT ![s] = u], ha, qu, it)
    PROVE  Changed(K, L, <<"struct", s>>, u)
<1> DEFINE te2 == [te EXCEPT ![s] = u]
<1>1. te2[s] = u /\ \A r \in Structs : r # s => te2[r] = te[r]  OBVIOUS
<1> HIDE DEF te2
<1>2. Keeping(L, te2, ha, qu, it)  BY DEF te2
<1>3. DOMAIN L = DOMAIN K /\ <<"struct", s>> \in DOMAIN K /\ L[<<"struct", s>>] = u
      BY <1>1, <1>2 DEF Keeping
<1>4. ASSUME NEW g \in DOMAIN K \ {<<"struct", s>>} PROVE L[g] = K[g]
  <2>1. ASSUME NEW r \in Structs, g = <<"struct", r>> PROVE L[g] = K[g]
    <3>1. r # s  BY <2>1
    <3>. QED  BY <1>1, <1>2, <2>1, <3>1 DEF Keeping
  <2>2. \/ \E r \in Structs : g = <<"struct", r>>
        \/ \E r \in Structs : g = <<"hand", r>>
        \/ \E i \in DOMAIN qu : g = <<"queue", i>>
        \/ g = <<"item", 0>>
        BY DEF Keeping
  <2>3. ASSUME NEW r \in Structs, g = <<"hand", r>> PROVE L[g] = K[g]
    <3>1. K[<<"hand", r>>] = TelOf(ha[r])  BY DEF Keeping
    <3>2. L[<<"hand", r>>] = TelOf(ha[r])  BY <1>2 DEF Keeping
    <3>. QED  BY <2>3, <3>1, <3>2
  <2>4. CASE \E i \in DOMAIN qu : g = <<"queue", i>>  BY <1>2, <2>4 DEF Keeping
  <2>5. CASE g = <<"item", 0>>  BY <1>2, <2>5 DEF Keeping
  <2>. QED  BY <2>1, <2>2, <2>3, <2>4, <2>5
<1>. QED  BY <1>3, <1>4 DEF Changed

LEMMA HandChange ==
    ASSUME NEW te, NEW ha, DOMAIN ha = Structs, NEW qu, NEW it, NEW K, NEW L, NEW q,
           NEW s \in Structs, Keeping(K, te, ha, qu, it),
           Keeping(L, te, [ha EXCEPT ![s] = q], qu, it)
    PROVE  Changed(K, L, <<"hand", s>>, TelOf(q))
<1> DEFINE ha2 == [ha EXCEPT ![s] = q]
<1>1. ha2[s] = q /\ \A r \in Structs : r # s => ha2[r] = ha[r]  OBVIOUS
<1> HIDE DEF ha2
<1>2. Keeping(L, te, ha2, qu, it)  BY DEF ha2
<1>3. DOMAIN L = DOMAIN K /\ <<"hand", s>> \in DOMAIN K /\ L[<<"hand", s>>] = TelOf(q)
      BY <1>1, <1>2 DEF Keeping
<1>4. ASSUME NEW g \in DOMAIN K \ {<<"hand", s>>} PROVE L[g] = K[g]
  <2>1. ASSUME NEW r \in Structs, g = <<"hand", r>> PROVE L[g] = K[g]
    <3>1. r # s  BY <2>1
    <3>. QED  BY <1>1, <1>2, <2>1, <3>1 DEF Keeping
  <2>2. \/ \E r \in Structs : g = <<"struct", r>>
        \/ \E r \in Structs : g = <<"hand", r>>
        \/ \E i \in DOMAIN qu : g = <<"queue", i>>
        \/ g = <<"item", 0>>
        BY DEF Keeping
  <2>3. ASSUME NEW r \in Structs, g = <<"struct", r>> PROVE L[g] = K[g]
    <3>1. K[<<"struct", r>>] = te[r]  BY DEF Keeping
    <3>2. L[<<"struct", r>>] = te[r]  BY <1>2 DEF Keeping
    <3>. QED  BY <2>3, <3>1, <3>2
  <2>4. CASE \E i \in DOMAIN qu : g = <<"queue", i>>  BY <1>2, <2>4 DEF Keeping
  <2>5. CASE g = <<"item", 0>>  BY <1>2, <2>5 DEF Keeping
  <2>. QED  BY <2>1, <2>2, <2>3, <2>4, <2>5
<1>. QED  BY <1>3, <1>4 DEF Changed

LEMMA ItemChange ==
    ASSUME NEW te, NEW ha, NEW qu, NEW it, NEW K, NEW L, NEW q,
           Keeping(K, te, ha, qu, it), Keeping(L, te, ha, qu, q)
    PROVE  Changed(K, L, <<"item", 0>>, TelOf(q))
<1>1. DOMAIN L = DOMAIN K /\ <<"item", 0>> \in DOMAIN K /\ L[<<"item", 0>>] = TelOf(q)
      BY DEF Keeping
<1>2. ASSUME NEW g \in DOMAIN K \ {<<"item", 0>>} PROVE L[g] = K[g]
  <2>2. \/ \E r \in Structs : g = <<"struct", r>>
        \/ \E r \in Structs : g = <<"hand", r>>
        \/ \E i \in DOMAIN qu : g = <<"queue", i>>
        BY DEF Keeping
  <2>3. ASSUME NEW r \in Structs
        PROVE  L[<<"struct", r>>] = K[<<"struct", r>>] /\ L[<<"hand", r>>] = K[<<"hand", r>>]
    <3>1. K[<<"struct", r>>] = te[r] /\ K[<<"hand", r>>] = TelOf(ha[r])
          BY DEF Keeping
    <3>2. L[<<"struct", r>>] = te[r] /\ L[<<"hand", r>>] = TelOf(ha[r])
          BY DEF Keeping
    <3>. QED  BY <3>1, <3>2
  <2>4. ASSUME NEW i \in DOMAIN qu PROVE L[<<"queue", i>>] = K[<<"queue", i>>]
        BY DEF Keeping
  <2>. QED  BY <2>2, <2>3, <2>4
<1>. QED  BY <1>1, <1>2 DEF Changed

\* A step that changes one holder, not one that holds an item afterwards, and leaves
\* what the items use.
LEMMA ChangeGood ==
    ASSUME NEW te, NEW ha, NEW qu, NEW it, NEW K, NEW m, Good(te, ha, qu, it, m),
           K = KeepingOf(te, ha, qu, it), AllLive(K, m),
           NEW te2, NEW ha2, NEW it2, NEW L, NEW n, Typed(te2, ha2, qu, it2),
           L = KeepingOf(te2, ha2, qu, it2), Heap(n), AllLive(L, n) => Own(L, n),
           NEW h, NEW u, Changed(K, L, h, u), ~Holds(h, ha2, it2),
           ItemsOf(ha2, qu, it2) \subseteq ItemsOf(ha, qu, it),
           \A g \in DOMAIN K \ {h} : g[1] # "struct" => Untouched(K[g], m, n)
    PROVE  Good(te2, ha2, qu, it2, n)
<1>1. ASSUME NEW x \in ItemsOf(ha2, qu, it2) PROVE View(x.tel, n) = x.said
  <2>1. Keeping(L, te2, ha2, qu, it2)  BY Keeps
  <2>2. PICK g \in DOMAIN L : Holds(g, ha2, it2) /\ L[g] = x.tel  BY <2>1, ItemHolder
  <2>3. g \in DOMAIN K \ {h} /\ g[1] # "struct" /\ K[g] = x.tel  BY <2>2 DEF Changed, Holds
  <2>4. Untouched(x.tel, m, n)  BY <2>3
  <2>5. Own(K, m)  BY DEF Good
  <2>6. x.tel \in Telemetry  BY <2>3, <2>5 DEF Own, AllSound, Sound
  <2>7. View(x.tel, n) = View(x.tel, m)  BY <2>4, <2>6, Frame
  <2>8. View(x.tel, m) = x.said  BY DEF Good
  <2>. QED  BY <2>7, <2>8
<1>. QED  BY <1>1 DEF Good

-------------------------------------------------------------------------------
(* The actions.                                                                 *)

Keep == KeepingOf(tel, hand, queue, item)

Inv == Good(tel, hand, queue, item, mem)

\* In a state of the invariant, Intact says that no holder has a dangling pointer.
LEMMA IntactHolders ==
    ASSUME Inv
    PROVE  /\ Typed(tel, hand, queue, item) /\ Heap(mem)
           /\ Keeping(Keep, tel, hand, queue, item)
           /\ Intact <=> AllLive(Keep, mem)
           /\ Intact => Own(Keep, mem)
<1>1. Typed(tel, hand, queue, item) /\ Heap(mem)  BY DEF Inv, Good
<1>2. Keeping(Keep, tel, hand, queue, item)  BY Keeps DEF Keep
<1>3. Items = ItemsOf(hand, queue, item)  BY DEF Items, ItemsOf
<1>4. AllLive(Keep, mem) <=>
         /\ \A s \in Structs : Live(tel[s], mem)
         /\ \A x \in ItemsOf(hand, queue, item) : Live(x.tel, mem)
      BY <1>1, <1>2, IntactIsLive
<1>5. Intact <=> AllLive(Keep, mem)  BY <1>3, <1>4 DEF Intact
<1>6. AllLive(Keep, mem) => Own(Keep, mem)  BY DEF Inv, Good, Keep
<1>. QED  BY <1>1, <1>2, <1>5, <1>6

\* The caller's struct is changed.
LEMMA StructTyped ==
    ASSUME Typed(tel, hand, queue, item), NEW s \in Structs, NEW u \in Telemetry
    PROVE  Typed([tel EXCEPT ![s] = u], hand, queue, item)
BY DEF Typed

\* The common part of the caller's actions: one struct changes, no item does.
LEMMA CallerGood ==
    ASSUME Inv, Intact, NEW s \in Structs, NEW u \in Telemetry, NEW n, NEW L,
           L = KeepingOf([tel EXCEPT ![s] = u], hand, queue, item), Heap(n),
           AllLive(L, n) => Own(L, n),
           \A g \in DOMAIN Keep \ {<<"struct", s>>} :
              g[1] # "struct" => Untouched(Keep[g], mem, n)
    PROVE  Good([tel EXCEPT ![s] = u], hand, queue, item, n)
<1> DEFINE te2 == [tel EXCEPT ![s] = u]
           h == <<"struct", s>>
<1>1. Typed(te2, hand, queue, item)  BY IntactHolders, StructTyped
<1>2. Keeping(Keep, tel, hand, queue, item) /\ AllLive(Keep, mem)  BY IntactHolders
<1>3. Keeping(L, te2, hand, queue, item)  BY Keeps
<1>4. tel \in [Structs -> Telemetry]  BY IntactHolders DEF Typed
<1>5. Changed(Keep, L, h, u)  BY <1>2, <1>3, <1>4, StructChange
<1>6. ~Holds(h, hand, item)  BY DEF Holds
<1>7. Good(tel, hand, queue, item, mem)  BY DEF Inv
<1>8. Keep = KeepingOf(tel, hand, queue, item)  BY DEF Keep
<1>9. L = KeepingOf(te2, hand, queue, item)  OBVIOUS
<1> HIDE DEF te2, h
<1>10. \A g \in DOMAIN Keep \ {h} : g[1] # "struct" => Untouched(Keep[g], mem, n)
       BY DEF h
<1>11. Good(te2, hand, queue, item, n)
       BY <1>1, <1>2, <1>5, <1>6, <1>7, <1>8, <1>9, <1>10, ChangeGood
<1>. QED  BY <1>11 DEF te2

\* aetus_telemetry_add_*: m is the heap with the table and the new blob.
LEMMA AddMetricGood ==
    ASSUME Inv, Intact, NEW s \in Structs, tel[s].count < MaxMetrics,
           NEW kind, NEW v, NEW m, NEW r, r = AppendMetric(tel[s], mem),
           [kind |-> kind, val |-> v] \in Metric, Heap(m),
           \A a \in DOMAIN r.mem : a \in DOMAIN m /\ m[a] = r.mem[a],
           \A a \in DOMAIN m : a \in DOMAIN r.mem \/ (kind = "blob" /\ a = v),
           kind = "blob" /\ v # NULL => v \in DOMAIN m \ DOMAIN r.mem,
           AddMetric(s, m, kind, v)
    PROVE  /\ Good(tel', hand', queue', item', mem')
           /\ Tight(Keep) => Secure(tel', hand', queue', item', mem')
<1> DEFINE x == [kind |-> kind, val |-> v]
           w == Write(r.tel, m, r.tel.count, x)
           h == <<"struct", s>>
           L == KeepingOf([tel EXCEPT ![s] = w.tel], hand, queue, item)
<1>1. /\ tel' = [tel EXCEPT ![s] = w.tel] /\ mem' = w.mem
      /\ hand' = hand /\ queue' = queue /\ item' = item
      BY DEF AddMetric
<1>2. x \in Metric /\ x.kind = kind /\ x.val = v  OBVIOUS
<1>3. Keeping(Keep, tel, hand, queue, item) /\ AllLive(Keep, mem) /\ Own(Keep, mem) /\ Heap(mem)
      BY IntactHolders
<1>4. tel \in [Structs -> Telemetry]  BY IntactHolders DEF Typed
<1>5. Keeping(L, [tel EXCEPT ![s] = w.tel], hand, queue, item)  BY Keeps
<1> HIDE DEF x, L
<1>6. Changed(Keep, L, h, w.tel)  BY <1>3, <1>4, <1>5, StructChange
<1>7. h \in DOMAIN Keep /\ Keep[h] = tel[s] /\ h[1] = "struct"  BY <1>3 DEF Keeping
<1>8. DOMAIN L = DOMAIN Keep /\ L[h] = w.tel /\ \A g \in DOMAIN Keep \ {h} : L[g] = Keep[g]
      BY <1>6 DEF Changed
<1> HIDE DEF h, w
<1>9. w = Write(r.tel, m, r.tel.count, x)  BY DEF w
<1>10. /\ Own(L, w.mem) /\ AllLive(L, w.mem)
       /\ TightStruct(Keep[h]) => TightStruct(w.tel)
       /\ Heap(w.mem) /\ w.tel \in Telemetry
       /\ \A g \in DOMAIN Keep \ {h} : Untouched(Keep[g], mem, w.mem)
  <2>1. Keep[h].count < MaxMetrics /\ r = AppendMetric(Keep[h], mem)  BY <1>7
  <2>2. /\ \A a \in DOMAIN m : a \in DOMAIN r.mem \/ (x.kind = "blob" /\ a = x.val)
        /\ x.kind = "blob" /\ x.val # NULL => x.val \in DOMAIN m \ DOMAIN r.mem
        BY <1>2
  <2>. QED  BY <1>2, <1>3, <1>7, <1>8, <1>9, <2>1, <2>2, AddOwn
<1>11. Good([tel EXCEPT ![s] = w.tel], hand, queue, item, w.mem)
       BY <1>10, CallerGood DEF L, h
<1>12. Tight(Keep) => Tight(L)  BY <1>7, <1>8, <1>10 DEF Tight
<1>13. Tight(Keep) => Secure([tel EXCEPT ![s] = w.tel], hand, queue, item, w.mem)
       BY <1>10, <1>12 DEF Secure, L
<1>. QED  BY <1>1, <1>11, <1>13

LEMMA AppendedNow ==
    ASSUME Inv, Intact, NEW s \in Structs, tel[s].count < MaxMetrics
    PROVE  Appended(AppendMetric(tel[s], mem), tel[s], mem)
<1>1. Keeping(Keep, tel, hand, queue, item) /\ AllLive(Keep, mem) /\ Own(Keep, mem) /\ Heap(mem)
      BY IntactHolders
<1>2. <<"struct", s>> \in DOMAIN Keep /\ Keep[<<"struct", s>>] = tel[s]  BY <1>1 DEF Keeping
<1>3. Sound(tel[s], mem) /\ Live(tel[s], mem)  BY <1>1, <1>2 DEF Own, AllSound, AllLive
<1>. QED  BY <1>1, <1>3, AppendFacts

LEMMA AddScalarGood ==
    ASSUME Inv, NEW s \in Structs, NEW v \in Values, AddScalar(s, v)
    PROVE  /\ Good(tel', hand', queue', item', mem')
           /\ Tight(Keep) => Secure(tel', hand', queue', item', mem')
<1> DEFINE r == AppendMetric(tel[s], mem)
<1>1. Intact /\ tel[s].count < MaxMetrics /\ AddMetric(s, r.mem, "scalar", v)
      BY DEF AddScalar, Ready
<1>2. Heap(r.mem)  BY <1>1, AppendedNow DEF Appended
<1>3. [kind |-> "scalar", val |-> v] \in Metric  BY DEF Metric
<1>4. r = AppendMetric(tel[s], mem)  OBVIOUS
<1> HIDE DEF r
<1>. QED  BY <1>1, <1>2, <1>3, <1>4, AddMetricGood

LEMMA AddEmptyBytesGood ==
    ASSUME Inv, NEW s \in Structs, AddEmptyBytes(s)
    PROVE  /\ Good(tel', hand', queue', item', mem')
           /\ Tight(Keep) => Secure(tel', hand', queue', item', mem')
<1> DEFINE r == AppendMetric(tel[s], mem)
<1>1. Intact /\ tel[s].count < MaxMetrics /\ AddMetric(s, r.mem, "blob", NULL)
      BY DEF AddEmptyBytes, Ready
<1>2. Heap(r.mem)  BY <1>1, AppendedNow DEF Appended
<1>3. [kind |-> "blob", val |-> NULL] \in Metric  BY DEF Metric
<1>4. r = AppendMetric(tel[s], mem)  OBVIOUS
<1> HIDE DEF r
<1>. QED  BY <1>1, <1>2, <1>3, <1>4, AddMetricGood

\* The heap n is m with the block x at a.
Added(n, m, a, x) ==
    /\ Heap(n) /\ DOMAIN n = DOMAIN m \cup {a} /\ n[a] = x
    /\ \A b \in DOMAIN m : n[b] = m[b]

LEMMA BlockAdded ==
    ASSUME NEW m, Heap(m), NEW a \in Nat \ {0}, a \notin DOMAIN m, NEW x
    PROVE  Added(With(m, Block(a, x)), m, a, x)
<1> DEFINE n == With(m, Block(a, x))
<1>1. /\ Heap(n) /\ DOMAIN n = DOMAIN m \cup {a} /\ n[a] = x
      /\ \A b \in DOMAIN m : n[b] = m[b]
      BY WithBlock
<1>. QED  BY <1>1 DEF Added

LEMMA AddBlobGood ==
    ASSUME Inv, NEW s \in Structs, NEW v \in Values, AddBlob(s, v)
    PROVE  /\ Good(tel', hand', queue', item', mem')
           /\ Tight(Keep) => Secure(tel', hand', queue', item', mem')
<1> DEFINE r == AppendMetric(tel[s], mem)
           a == Address(r.mem, 1)
           m == With(r.mem, Block(a, v))
<1>1. Intact /\ tel[s].count < MaxMetrics /\ AddMetric(s, m, "blob", a)
      BY DEF AddBlob, Ready
<1>2. Heap(r.mem)  BY <1>1, AppendedNow DEF Appended
<1>3. r = AppendMetric(tel[s], mem)  OBVIOUS
<1> HIDE DEF r
<1>4. a \in Nat \ {0} /\ a \notin DOMAIN r.mem  BY <1>2, AddressIsNew
<1> HIDE DEF a
<1>5. Added(m, r.mem, a, v)  BY <1>2, <1>4, BlockAdded
<1>6. [kind |-> "blob", val |-> a] \in Metric  BY <1>4 DEF Metric
<1> HIDE DEF m
<1>7. /\ \A b \in DOMAIN r.mem : b \in DOMAIN m /\ m[b] = r.mem[b]
      /\ \A b \in DOMAIN m : b \in DOMAIN r.mem \/ b = a
      /\ a \in DOMAIN m \ DOMAIN r.mem
      BY <1>4, <1>5 DEF Added
<1>8. Heap(m)  BY <1>5 DEF Added
<1>. QED  BY <1>1, <1>3, <1>6, <1>7, <1>8, AddMetricGood

LEMMA AddBlobFailsGood ==
    ASSUME Inv, NEW s \in Structs, AddBlobFails(s)
    PROVE  /\ Good(tel', hand', queue', item', mem')
           /\ ~IsrSafeEnqueue => Secure(tel', hand', queue', item', mem')
<1> DEFINE r == AppendMetric(tel[s], mem)
           u == [tel[s] EXCEPT !.table = r.tel.table]
           h == <<"struct", s>>
           L == KeepingOf([tel EXCEPT ![s] = u], hand, queue, item)
<1>1. /\ Intact /\ tel[s].count < MaxMetrics
      /\ tel' = [tel EXCEPT ![s].table = r.tel.table] /\ mem' = r.mem
      /\ hand' = hand /\ queue' = queue /\ item' = item
      BY DEF AddBlobFails, Ready
<1>2. tel \in [Structs -> Telemetry]  BY IntactHolders DEF Typed
<1>3. tel' = [tel EXCEPT ![s] = u]  BY <1>1
<1>4. Keeping(Keep, tel, hand, queue, item) /\ AllLive(Keep, mem) /\ Own(Keep, mem) /\ Heap(mem)
      BY <1>1, IntactHolders
<1>5. Keeping(L, [tel EXCEPT ![s] = u], hand, queue, item)  BY Keeps
<1>6. r = AppendMetric(tel[s], mem)  OBVIOUS
<1> HIDE DEF L, r
<1>7. Changed(Keep, L, h, u)  BY <1>2, <1>4, <1>5, StructChange
<1>8. h \in DOMAIN Keep /\ Keep[h] = tel[s] /\ h[1] = "struct"  BY <1>4 DEF Keeping
<1>9. DOMAIN L = DOMAIN Keep /\ L[h] = u /\ \A g \in DOMAIN Keep \ {h} : L[g] = Keep[g]
      BY <1>7 DEF Changed
<1> HIDE DEF h
<1>10. /\ Own(L, r.mem) /\ AllLive(L, r.mem) /\ Heap(r.mem) /\ L[h] \in Telemetry
       /\ \A g \in DOMAIN Keep \ {h} : Untouched(Keep[g], mem, r.mem)
  <2>1. Keep[h].count < MaxMetrics /\ r = AppendMetric(Keep[h], mem)
        BY <1>1, <1>6, <1>8
  <2>2. L[h] = [Keep[h] EXCEPT !.table = r.tel.table]  BY <1>8, <1>9
  <2>. QED  BY <1>4, <1>8, <1>9, <2>1, <2>2, AddFailsOwn
<1> HIDE DEF u
<1>11. Good([tel EXCEPT ![s] = u], hand, queue, item, r.mem)
       BY <1>1, <1>9, <1>10, CallerGood DEF L, h
<1>12. ~IsrSafeEnqueue => Secure([tel EXCEPT ![s] = u], hand, queue, item, r.mem)
       BY <1>10 DEF Secure, Tight, L
<1>. QED  BY <1>1, <1>3, <1>11, <1>12

LEMMA DeinitGood ==
    ASSUME Inv, NEW s \in Structs, Deinit(s)
    PROVE  /\ Good(tel', hand', queue', item', mem')
           /\ Tight(Keep) => Secure(tel', hand', queue', item', mem')
<1> DEFINE h == <<"struct", s>>
           n == Release(tel[s], mem)
           L == KeepingOf([tel EXCEPT ![s] = EmptyTelemetry], hand, queue, item)
<1>1. /\ Intact /\ tel' = [tel EXCEPT ![s] = EmptyTelemetry] /\ mem' = n
      /\ hand' = hand /\ queue' = queue /\ item' = item
      BY DEF Deinit, Ready
<1>2. tel \in [Structs -> Telemetry]  BY IntactHolders DEF Typed
<1>3. Keeping(Keep, tel, hand, queue, item) /\ AllLive(Keep, mem) /\ Own(Keep, mem) /\ Heap(mem)
      BY <1>1, IntactHolders
<1>4. Keeping(L, [tel EXCEPT ![s] = EmptyTelemetry], hand, queue, item)  BY Keeps
<1> HIDE DEF L
<1>5. Changed(Keep, L, h, EmptyTelemetry)  BY <1>2, <1>3, <1>4, StructChange
<1>6. h \in DOMAIN Keep /\ Keep[h] = tel[s]  BY <1>3 DEF Keeping
<1>7. /\ DOMAIN L = DOMAIN Keep /\ L[h] = EmptyTelemetry
      /\ \A g \in DOMAIN Keep \ {h} : L[g] = Keep[g]
      BY <1>5 DEF Changed
<1>8. EmptyTelemetry \in Telemetry  BY EmptyHasNone
<1> HIDE DEF h, n
<1>9. n = Release(Keep[h], mem)  BY <1>6 DEF n
<1>10. Heap(n)  BY <1>3, ReleaseHeap DEF n
<1>11. AllLive(L, n) => Own(L, n)  BY <1>3, <1>6, <1>7, <1>9, ReleaseOwn
<1>12. \A g \in DOMAIN Keep \ {h} : g[1] # "struct" => Untouched(Keep[g], mem, n)
       BY <1>3, <1>6, <1>9, ReleaseUntouched
<1>13. Good([tel EXCEPT ![s] = EmptyTelemetry], hand, queue, item, n)
       BY <1>1, <1>8, <1>10, <1>11, <1>12, CallerGood DEF L, h
<1>14. Tight(Keep) => AllLive(L, n) /\ Tight(L)
       BY <1>3, <1>6, <1>7, <1>9, ReleaseLive
<1>15. Tight(Keep) => Secure([tel EXCEPT ![s] = EmptyTelemetry], hand, queue, item, n)
       BY <1>14 DEF Secure, L
<1>. QED  BY <1>1, <1>13, <1>15

\* hand[s] is set to a sequence of at most one item.
LEMMA HandTyped ==
    ASSUME NEW te, NEW ha, NEW qu, NEW it, Typed(te, ha, qu, it), NEW s \in Structs,
           NEW T, NEW q \in Seq(T), Len(q) <= 1
    PROVE  Typed(te, [ha EXCEPT ![s] = q], qu, it)
<1> DEFINE ha2 == [ha EXCEPT ![s] = q]
<1>1. PICK S : ha \in [Structs -> Seq(S)] /\ qu \in Seq(S) /\ it \in Seq(S)  BY DEF Typed
<1>2. \A p : p \in Seq(S) \/ p \in Seq(T) => p \in Seq(S \cup T)
  <2>1. SUFFICES ASSUME NEW p, p \in Seq(S) \/ p \in Seq(T) PROVE p \in Seq(S \cup T)
        OBVIOUS
  <2>2. CASE p \in Seq(S)  BY <2>2
  <2>3. CASE p \in Seq(T)  BY <2>3
  <2>. QED  BY <2>1, <2>2, <2>3
<1>3. ha2 \in [Structs -> Seq(S \cup T)]  BY <1>1, <1>2
<1>4. qu \in Seq(S \cup T) /\ it \in Seq(S \cup T)  BY <1>1, <1>2
<1>5. \A r \in Structs : Len(ha2[r]) <= 1  BY <1>1 DEF Typed
<1> HIDE DEF ha2
<1>6. Typed(te, ha2, qu, it)  BY <1>3, <1>4, <1>5 DEF Typed
<1>. QED  BY <1>6 DEF ha2

LEMMA HandItems ==
    ASSUME NEW te, NEW ha, NEW qu, NEW it, Typed(te, ha, qu, it), NEW s \in Structs,
           NEW T, NEW q \in Seq(T), Len(q) <= 1,
           NEW x \in ItemsOf([ha EXCEPT ![s] = q], qu, it)
    PROVE  x \in ItemsOf(ha, qu, it) \/ (q # <<>> /\ x = Head(q))
<1> DEFINE ha2 == [ha EXCEPT ![s] = q]
<1>1. DOMAIN ha = Structs  BY DEF Typed
<1>2. ha2[s] = q /\ \A r \in Structs : r # s => ha2[r] = ha[r]  BY <1>1
<1>3. Typed(te, ha2, qu, it)  BY HandTyped
<1> HIDE DEF ha2
<1>4. IsItem(x, ha2, qu, it)  BY <1>3, ItemPlaces DEF ha2
<1>5. IsItem(x, ha, qu, it) \/ (q # <<>> /\ x = Head(q))  BY <1>2, <1>4 DEF IsItem
<1>. QED  BY <1>5, ItemPlaces

LEMMA SendTimeoutGood ==
    ASSUME Inv, NEW s \in Structs, SendTimeout(s)
    PROVE  /\ Good(tel', hand', queue', item', mem')
           /\ Tight(Keep) => Secure(tel', hand', queue', item', mem')
<1> DEFINE h == <<"hand", s>>
           n == Release(Head(hand[s]).tel, mem)
           ha2 == [hand EXCEPT ![s] = <<>>]
           L == KeepingOf(tel, ha2, queue, item)
<1>1. /\ Intact /\ hand[s] # <<>> /\ hand' = ha2 /\ mem' = n
      /\ tel' = tel /\ queue' = queue /\ item' = item
      BY DEF SendTimeout
<1>2. /\ Typed(tel, hand, queue, item)
      /\ Keeping(Keep, tel, hand, queue, item) /\ AllLive(Keep, mem) /\ Own(Keep, mem) /\ Heap(mem)
      BY <1>1, IntactHolders
<1>3. Keeping(L, tel, ha2, queue, item)  BY Keeps
<1>4. L = KeepingOf(tel, ha2, queue, item)  OBVIOUS
<1> HIDE DEF L
<1>5. <<>> \in Seq({}) /\ Len(<<>>) <= 1  OBVIOUS
<1>6. Typed(tel, ha2, queue, item)  BY <1>2, <1>5, HandTyped
<1>7. ItemsOf(ha2, queue, item) \subseteq ItemsOf(hand, queue, item)
      BY <1>2, <1>5, HandItems
<1>8. DOMAIN hand = Structs  BY <1>2 DEF Typed
<1>9. Changed(Keep, L, h, TelOf(<<>>))  BY <1>2, <1>3, <1>8, HandChange
<1>10. TelOf(<<>>) = EmptyTelemetry  BY DEF TelOf
<1>11. ~Holds(h, ha2, item)  BY <1>8 DEF Holds
<1>12. h \in DOMAIN Keep /\ Keep[h] = TelOf(hand[s])  BY <1>2 DEF Keeping
<1>13. n = Release(Keep[h], mem)  BY <1>1, <1>12 DEF TelOf
<1> HIDE DEF h, n, ha2
<1>14. /\ DOMAIN L = DOMAIN Keep /\ L[h] = EmptyTelemetry
       /\ \A g \in DOMAIN Keep \ {h} : L[g] = Keep[g]
      BY <1>9, <1>10 DEF Changed
<1>15. Heap(n)  BY <1>2, ReleaseHeap DEF n
<1>16. AllLive(L, n) => Own(L, n)  BY <1>2, <1>12, <1>13, <1>14, ReleaseOwn
<1>17. \A g \in DOMAIN Keep \ {h} : g[1] # "struct" => Untouched(Keep[g], mem, n)
       BY <1>2, <1>12, <1>13, ReleaseUntouched
<1>18. Good(tel, hand, queue, item, mem) /\ Keep = KeepingOf(tel, hand, queue, item)
       BY DEF Inv, Keep
<1>19. Good(tel, ha2, queue, item, n)
       BY <1>2, <1>4, <1>6, <1>7, <1>9, <1>11, <1>15, <1>16, <1>17, <1>18, ChangeGood
<1>20. Tight(Keep) => AllLive(L, n) /\ Tight(L)
       BY <1>2, <1>12, <1>13, <1>14, ReleaseLive
<1>21. Tight(Keep) => Secure(tel, ha2, queue, item, n)  BY <1>4, <1>20 DEF Secure
<1>. QED  BY <1>1, <1>19, <1>21

\* item becomes empty.
LEMMA NoItem ==
    ASSUME NEW te, NEW ha, NEW qu, NEW it, Typed(te, ha, qu, it)
    PROVE  /\ Typed(te, ha, qu, <<>>)
           /\ ItemsOf(ha, qu, <<>>) \subseteq ItemsOf(ha, qu, it)
<1>1. PICK S : ha \in [Structs -> Seq(S)] /\ qu \in Seq(S) /\ it \in Seq(S)  BY DEF Typed
<1>2. <<>> \in Seq(S) /\ Len(<<>>) <= 1  OBVIOUS
<1>3. Typed(te, ha, qu, <<>>)  BY <1>1, <1>2 DEF Typed
<1>4. ASSUME NEW x \in ItemsOf(ha, qu, <<>>) PROVE x \in ItemsOf(ha, qu, it)
  <2>1. IsItem(x, ha, qu, <<>>)  BY <1>3, ItemPlaces
  <2>2. IsItem(x, ha, qu, it)  BY <2>1 DEF IsItem
  <2>. QED  BY <2>2, ItemPlaces
<1>. QED  BY <1>3, <1>4

LEMMA ReleaseItemGood ==
    ASSUME Inv, ReleaseItem
    PROVE  /\ Good(tel', hand', queue', item', mem')
           /\ Tight(Keep) => Secure(tel', hand', queue', item', mem')
<1> DEFINE h == <<"item", 0>>
           n == Release(Head(item).tel, mem)
           L == KeepingOf(tel, hand, queue, <<>>)
<1>1. /\ Intact /\ item # <<>> /\ item' = <<>> /\ mem' = n
      /\ tel' = tel /\ queue' = queue /\ hand' = hand
      BY DEF ReleaseItem
<1>2. /\ Typed(tel, hand, queue, item)
      /\ Keeping(Keep, tel, hand, queue, item) /\ AllLive(Keep, mem) /\ Own(Keep, mem) /\ Heap(mem)
      BY <1>1, IntactHolders
<1>3. Keeping(L, tel, hand, queue, <<>>)  BY Keeps
<1>4. L = KeepingOf(tel, hand, queue, <<>>)  OBVIOUS
<1> HIDE DEF L
<1>6. /\ Typed(tel, hand, queue, <<>>)
      /\ ItemsOf(hand, queue, <<>>) \subseteq ItemsOf(hand, queue, item)
      BY <1>2, NoItem
<1>9. Changed(Keep, L, h, TelOf(<<>>))  BY <1>2, <1>3, ItemChange
<1>10. TelOf(<<>>) = EmptyTelemetry  BY DEF TelOf
<1>11. ~Holds(h, hand, <<>>)  BY DEF Holds
<1>12. h \in DOMAIN Keep /\ Keep[h] = TelOf(item)  BY <1>2 DEF Keeping
<1>13. n = Release(Keep[h], mem)  BY <1>1, <1>12 DEF TelOf
<1> HIDE DEF h, n
<1>14. /\ DOMAIN L = DOMAIN Keep /\ L[h] = EmptyTelemetry
       /\ \A g \in DOMAIN Keep \ {h} : L[g] = Keep[g]
      BY <1>9, <1>10 DEF Changed
<1>15. Heap(n)  BY <1>2, ReleaseHeap DEF n
<1>16. AllLive(L, n) => Own(L, n)  BY <1>2, <1>12, <1>13, <1>14, ReleaseOwn
<1>17. \A g \in DOMAIN Keep \ {h} : g[1] # "struct" => Untouched(Keep[g], mem, n)
       BY <1>2, <1>12, <1>13, ReleaseUntouched
<1>18. Good(tel, hand, queue, item, mem) /\ Keep = KeepingOf(tel, hand, queue, item)
       BY DEF Inv, Keep
<1>19. Good(tel, hand, queue, <<>>, n)
       BY <1>2, <1>4, <1>6, <1>9, <1>11, <1>15, <1>16, <1>17, <1>18, ChangeGood
<1>20. Tight(Keep) => AllLive(L, n) /\ Tight(L)
       BY <1>2, <1>12, <1>13, <1>14, ReleaseLive
<1>21. Tight(Keep) => Secure(tel, hand, queue, <<>>, n)  BY <1>4, <1>20 DEF Secure
<1>. QED  BY <1>1, <1>19, <1>21

-------------------------------------------------------------------------------
(* Items that move between the caller, the queue and the uploader.              *)

Moved(K, L, from) ==
    /\ \A h \in DOMAIN L :
          \/ L[h] = EmptyTelemetry
          \/ /\ from[h] \in DOMAIN K
             /\ L[h] = K[from[h]]
             /\ h[1] = "struct" <=> from[h][1] = "struct"
             /\ \A g \in DOMAIN L : L[g] # EmptyTelemetry /\ from[g] = from[h] => g = h
    /\ \A g \in DOMAIN K :
          K[g] = EmptyTelemetry \/ \E h \in DOMAIN L : from[h] = g /\ L[h] = K[g]

LEMMA MoveGood ==
    ASSUME NEW te, NEW ha, NEW qu, NEW it, NEW K, NEW m, Good(te, ha, qu, it, m),
           K = KeepingOf(te, ha, qu, it), AllLive(K, m),
           NEW ha2, NEW qu2, NEW it2, NEW L, Typed(te, ha2, qu2, it2),
           L = KeepingOf(te, ha2, qu2, it2), NEW from, Moved(K, L, from),
           ItemsOf(ha2, qu2, it2) \subseteq ItemsOf(ha, qu, it)
    PROVE  /\ Good(te, ha2, qu2, it2, m)
           /\ Tight(K) => Secure(te, ha2, qu2, it2, m)
<1>1. Own(K, m) /\ Heap(m)  BY DEF Good
<1>2. Own(L, m)  BY <1>1, MoveOwn DEF Moved
<1>3. \A x \in ItemsOf(ha2, qu2, it2) : View(x.tel, m) = x.said  BY DEF Good
<1>4. Live(EmptyTelemetry, m) /\ TightStruct(EmptyTelemetry)
      BY EmptyHasNone DEF TightStruct
<1>5. AllLive(L, m)  BY <1>4 DEF AllLive, Moved
<1>6. Tight(K) => Tight(L)  BY <1>4 DEF Tight, Moved
<1>. QED  BY <1>1, <1>2, <1>3, <1>5, <1>6 DEF Good, Secure

\* A sequence of exactly one item.
LEMMA JustOne ==
    ASSUME NEW S, NEW q \in Seq(S), Len(q) <= 1, q # <<>>
    PROVE  Len(q) = 1 /\ q[1] = Head(q) /\ q[1] \in S
<1>1. Len(q) \in Nat /\ Len(q) # 0  OBVIOUS
<1>2. Len(q) = 1
  <2>1. \A n \in Nat : n # 0 /\ n <= 1 => n = 1  OBVIOUS
  <2>. QED  BY <1>1, <2>1
<1>3. 1 \in DOMAIN q  BY <1>2
<1>. QED  BY <1>2, <1>3

LEMMA Concatenation ==
    ASSUME NEW S, NEW p \in Seq(S), NEW q \in Seq(S)
    PROVE  /\ p \o q \in Seq(S) /\ DOMAIN (p \o q) = 1..(Len(p) + Len(q))
           /\ Len(p) \in Nat /\ Len(q) \in Nat
           /\ DOMAIN p = 1..Len(p) /\ DOMAIN q = 1..Len(q)
           /\ \A i \in 1..Len(p) : (p \o q)[i] = p[i]
           /\ \A i \in 1..Len(q) : (p \o q)[Len(p) + i] = q[i]
OBVIOUS

\* The queue gets the item of hand[s] at its end.
Sent(ha, qu, ha2, qu2, s) ==
    /\ ha[s] # <<>> /\ ha2[s] = <<>>
    /\ \A r \in Structs : r # s => ha2[r] = ha[r]
    /\ Len(qu) \in Nat
    /\ DOMAIN qu = 1..Len(qu) /\ DOMAIN qu2 = 1..(Len(qu) + 1)
    /\ \A i \in DOMAIN qu : qu2[i] = qu[i]
    /\ qu2[Len(qu) + 1] = Head(ha[s])

LEMMA SendFacts ==
    ASSUME NEW te, NEW ha, NEW qu, NEW it, Typed(te, ha, qu, it), NEW s \in Structs,
           ha[s] # <<>>
    PROVE  /\ Typed(te, [ha EXCEPT ![s] = <<>>], qu \o ha[s], it)
           /\ Sent(ha, qu, [ha EXCEPT ![s] = <<>>], qu \o ha[s], s)
<1> DEFINE ha2 == [ha EXCEPT ![s] = <<>>]
           qu2 == qu \o ha[s]
<1>1. PICK S : ha \in [Structs -> Seq(S)] /\ qu \in Seq(S) /\ it \in Seq(S)  BY DEF Typed
<1>2. ha[s] \in Seq(S) /\ Len(ha[s]) <= 1  BY <1>1 DEF Typed
<1>3. Len(ha[s]) = 1 /\ ha[s][1] = Head(ha[s])  BY <1>2, JustOne
<1>4. /\ qu2 \in Seq(S) /\ DOMAIN qu2 = 1..(Len(qu) + 1)
      /\ Len(qu) \in Nat /\ DOMAIN qu = 1..Len(qu)
      /\ \A i \in 1..Len(qu) : qu2[i] = qu[i]
      /\ qu2[Len(qu) + 1] = ha[s][1]
      BY <1>1, <1>2, <1>3, Concatenation
<1>5. <<>> \in Seq(S) /\ Len(<<>>) <= 1  OBVIOUS
<1>6. ha2 \in [Structs -> Seq(S)] /\ \A r \in Structs : Len(ha2[r]) <= 1
      BY <1>1, <1>5 DEF Typed
<1>7. ha2[s] = <<>> /\ \A r \in Structs : r # s => ha2[r] = ha[r]  BY <1>1
<1> HIDE DEF ha2, qu2
<1>8. Typed(te, ha2, qu2, it)  BY <1>1, <1>4, <1>6 DEF Typed
<1>9. Sent(ha, qu, ha2, qu2, s)  BY <1>3, <1>4, <1>7 DEF Sent
<1>. QED  BY <1>8, <1>9 DEF ha2, qu2

LEMMA SendItems ==
    ASSUME NEW te, NEW ha, NEW qu, NEW it, Typed(te, ha, qu, it), NEW s \in Structs,
           NEW ha2, NEW qu2, Typed(te, ha2, qu2, it), Sent(ha, qu, ha2, qu2, s)
    PROVE  ItemsOf(ha2, qu2, it) \subseteq ItemsOf(ha, qu, it)
<1> SUFFICES ASSUME NEW x \in ItemsOf(ha2, qu2, it) PROVE IsItem(x, ha, qu, it)
    BY ItemPlaces
<1>1. IsItem(x, ha2, qu2, it)  BY ItemPlaces
<1>2. CASE \E r \in Structs : ha2[r] # <<>> /\ x = Head(ha2[r])
      BY <1>2 DEF IsItem, Sent
<1>3. CASE \E i \in DOMAIN qu2 : x = qu2[i]
  <2>1. PICK i \in 1..(Len(qu) + 1) : x = qu2[i]  BY <1>3 DEF Sent
  <2>2. i \in DOMAIN qu \/ i = Len(qu) + 1  BY <2>1 DEF Sent
  <2>. QED  BY <2>1, <2>2 DEF IsItem, Sent
<1>4. CASE it # <<>> /\ x = Head(it)  BY <1>4 DEF IsItem
<1>. QED  BY <1>1, <1>2, <1>3, <1>4 DEF IsItem

LEMMA SendMoves ==
    ASSUME NEW te, NEW ha, NEW qu, NEW it, NEW s \in Structs, NEW ha2, NEW qu2,
           Sent(ha, qu, ha2, qu2, s), NEW K, NEW L,
           Keeping(K, te, ha, qu, it), Keeping(L, te, ha2, qu2, it)
    PROVE  \E from : Moved(K, L, from)
<1> DEFINE e == <<"queue", Len(qu) + 1>>
           h == <<"hand", s>>
           from == [g \in DOMAIN L |-> IF g = e THEN h ELSE g]
<1>1. DOMAIN qu = 1..Len(qu) /\ DOMAIN qu2 = 1..(Len(qu) + 1) /\ Len(qu) \in Nat  BY DEF Sent
<1>2. e \in DOMAIN L /\ L[e] = TelOf(ha[s])  BY <1>1 DEF Sent, Keeping, TelOf
<1>3. h \in DOMAIN K /\ K[h] = TelOf(ha[s])  BY DEF Keeping
<1>4. h \in DOMAIN L /\ L[h] = EmptyTelemetry  BY DEF Keeping, Sent, TelOf
<1>5. e \notin DOMAIN K
  <2>1. ~(Len(qu) + 1 \in DOMAIN qu)  BY <1>1
  <2>. QED  BY <2>1 DEF Keeping
<1>6. e # h /\ e[1] = "queue" /\ h[1] = "hand"  OBVIOUS
<1>7. ASSUME NEW g \in DOMAIN L, g # e, g # h PROVE g \in DOMAIN K /\ L[g] = K[g]
  <2>1. CASE \E r \in Structs : g = <<"struct", r>>
    <3>1. PICK r \in Structs : g = <<"struct", r>>  BY <2>1
    <3>2. g \in DOMAIN K /\ K[g] = te[r]  BY <3>1 DEF Keeping
    <3>3. L[g] = te[r]  BY <3>1 DEF Keeping
    <3>. QED  BY <3>2, <3>3
  <2>2. CASE \E r \in Structs : g = <<"hand", r>>
    <3>1. PICK r \in Structs : g = <<"hand", r>>  BY <2>2
    <3>2. r # s  BY <1>7, <3>1
    <3>3. g \in DOMAIN K /\ K[g] = TelOf(ha[r])  BY <3>1 DEF Keeping
    <3>4. L[g] = TelOf(ha2[r])  BY <3>1 DEF Keeping
    <3>. QED  BY <3>2, <3>3, <3>4 DEF Sent
  <2>3. CASE \E i \in DOMAIN qu2 : g = <<"queue", i>>
    <3>1. PICK i \in 1..(Len(qu) + 1) : g = <<"queue", i>>  BY <1>1, <2>3
    <3>2. i \in DOMAIN qu  BY <1>1, <1>7, <3>1
    <3>3. g \in DOMAIN K /\ K[g] = qu[i].tel  BY <3>1, <3>2 DEF Keeping
    <3>4. L[g] = qu2[i].tel  BY <1>1, <3>1 DEF Keeping
    <3>. QED  BY <3>2, <3>3, <3>4 DEF Sent
  <2>4. CASE g = <<"item", 0>>  BY <2>4 DEF Keeping
  <2>5. \/ \E r \in Structs : g = <<"struct", r>>
        \/ \E r \in Structs : g = <<"hand", r>>
        \/ \E i \in DOMAIN qu2 : g = <<"queue", i>>
        \/ g = <<"item", 0>>
        BY DEF Keeping
  <2>. QED  BY <2>1, <2>2, <2>3, <2>4, <2>5
<1>8. DOMAIN K \subseteq DOMAIN L
  <2>1. HoldersOf(qu) \subseteq HoldersOf(qu2)  BY <1>1 DEF HoldersOf
  <2>. QED  BY <2>1 DEF Keeping
<1> HIDE DEF e, h
<1>9. ASSUME NEW g \in DOMAIN L
      PROVE  \/ L[g] = EmptyTelemetry
             \/ /\ from[g] \in DOMAIN K
                /\ L[g] = K[from[g]]
                /\ g[1] = "struct" <=> from[g][1] = "struct"
                /\ \A f \in DOMAIN L : L[f] # EmptyTelemetry /\ from[f] = from[g] => f = g
  <2>1. CASE g = h  BY <1>4, <2>1
  <2>2. CASE g = e
    <3>1. from[g] = h  BY <2>2
    <3>2. \A f \in DOMAIN L : L[f] # EmptyTelemetry /\ from[f] = h => f = e
          BY <1>4
    <3>. QED  BY <1>2, <1>3, <1>6, <2>2, <3>1, <3>2
  <2>3. CASE g # h /\ g # e
    <3>1. from[g] = g  BY <2>3
    <3>2. \A f \in DOMAIN L : L[f] # EmptyTelemetry /\ from[f] = g => f = g  BY <2>3
    <3>. QED  BY <1>7, <2>3, <3>1, <3>2
  <2>. QED  BY <2>1, <2>2, <2>3
<1>10. ASSUME NEW g \in DOMAIN K
       PROVE  \E f \in DOMAIN L : from[f] = g /\ L[f] = K[g]
  <2>1. CASE g = h  BY <1>2, <1>3, <2>1
  <2>2. CASE g # h
    <3>1. g # e /\ g \in DOMAIN L  BY <1>5, <1>8
    <3>2. from[g] = g /\ L[g] = K[g]  BY <1>7, <2>2, <3>1
    <3>. QED  BY <3>1, <3>2
  <2>. QED  BY <2>1, <2>2
<1> HIDE DEF from
<1>11. Moved(K, L, from)  BY <1>9, <1>10 DEF Moved
<1>. QED  BY <1>11

LEMMA SendGood ==
    ASSUME Inv, NEW s \in Structs, Send(s)
    PROVE  /\ Good(tel', hand', queue', item', mem')
           /\ Tight(Keep) => Secure(tel', hand', queue', item', mem')
<1> DEFINE ha2 == [hand EXCEPT ![s] = <<>>]
           qu2 == queue \o hand[s]
           L == KeepingOf(tel, ha2, qu2, item)
<1>1. /\ Intact /\ hand[s] # <<>> /\ hand' = ha2 /\ queue' = qu2
      /\ tel' = tel /\ item' = item /\ mem' = mem
      BY DEF Send
<1>2. /\ Typed(tel, hand, queue, item)
      /\ Keeping(Keep, tel, hand, queue, item) /\ AllLive(Keep, mem)
      BY <1>1, IntactHolders
<1>3. Keeping(L, tel, ha2, qu2, item)  BY Keeps
<1>4. L = KeepingOf(tel, ha2, qu2, item)  OBVIOUS
<1>5. Typed(tel, ha2, qu2, item) /\ Sent(hand, queue, ha2, qu2, s)  BY <1>1, <1>2, SendFacts
<1> HIDE DEF L, ha2, qu2
<1>6. ItemsOf(ha2, qu2, item) \subseteq ItemsOf(hand, queue, item)
      BY <1>2, <1>5, SendItems
<1>7. PICK from : Moved(Keep, L, from)  BY <1>2, <1>3, <1>5, SendMoves
<1>8. Good(tel, hand, queue, item, mem) /\ Keep = KeepingOf(tel, hand, queue, item)
      BY DEF Inv, Keep
<1>9. /\ Good(tel, ha2, qu2, item, mem)
      /\ Tight(Keep) => Secure(tel, ha2, qu2, item, mem)
      BY <1>2, <1>4, <1>5, <1>6, <1>7, <1>8, MoveGood
<1>. QED  BY <1>1, <1>9

\* The first item of the queue becomes the item of the uploader; read backwards, the
\* item of the uploader becomes the first of the queue.
Taken(qu, it, qu2, it2) ==
    /\ it = <<>> /\ it2 # <<>> /\ Head(it2) = qu[1]
    /\ Len(qu) \in Nat \ {0}
    /\ DOMAIN qu = 1..Len(qu) /\ DOMAIN qu2 = 1..(Len(qu) - 1)
    /\ \A i \in DOMAIN qu2 : qu2[i] = qu[i + 1]

LEMMA TakenItems ==
    ASSUME NEW te, NEW ha, NEW qu, NEW it, NEW qu2, NEW it2, Typed(te, ha, qu, it),
           Typed(te, ha, qu2, it2), Taken(qu, it, qu2, it2)
    PROVE  ItemsOf(ha, qu2, it2) = ItemsOf(ha, qu, it)
<1>1. ASSUME NEW x, IsItem(x, ha, qu2, it2) PROVE IsItem(x, ha, qu, it)
  <2>1. CASE \E s \in Structs : ha[s] # <<>> /\ x = Head(ha[s])  BY <2>1 DEF IsItem
  <2>2. CASE \E i \in DOMAIN qu2 : x = qu2[i]
    <3>1. PICK i \in DOMAIN qu2 : x = qu2[i]  BY <2>2
    <3>2. i + 1 \in DOMAIN qu /\ x = qu[i + 1]  BY <3>1 DEF Taken
    <3>. QED  BY <3>2 DEF IsItem
  <2>3. CASE it2 # <<>> /\ x = Head(it2)
    <3>1. 1 \in DOMAIN qu /\ x = qu[1]  BY <2>3 DEF Taken
    <3>. QED  BY <3>1 DEF IsItem
  <2>. QED  BY <1>1, <2>1, <2>2, <2>3 DEF IsItem
<1>2. ASSUME NEW x, IsItem(x, ha, qu, it) PROVE IsItem(x, ha, qu2, it2)
  <2>1. CASE \E s \in Structs : ha[s] # <<>> /\ x = Head(ha[s])  BY <2>1 DEF IsItem
  <2>2. CASE \E i \in DOMAIN qu : x = qu[i]
    <3>1. PICK i \in DOMAIN qu : x = qu[i]  BY <2>2
    <3>2. CASE i = 1  BY <3>1, <3>2 DEF IsItem, Taken
    <3>3. CASE i # 1
      <4>1. i - 1 \in DOMAIN qu2 /\ (i - 1) + 1 = i  BY <3>1, <3>3 DEF Taken
      <4>2. qu2[i - 1] = qu[i]  BY <4>1 DEF Taken
      <4>. QED  BY <3>1, <4>1, <4>2 DEF IsItem
    <3>. QED  BY <3>2, <3>3
  <2>. QED  BY <1>2, <2>1, <2>2 DEF IsItem, Taken
<1>3. \A x : x \in ItemsOf(ha, qu2, it2) <=> IsItem(x, ha, qu2, it2)  BY ItemPlaces
<1>4. \A x : x \in ItemsOf(ha, qu, it) <=> IsItem(x, ha, qu, it)  BY ItemPlaces
<1>. QED  BY <1>1, <1>2, <1>3, <1>4

\* fwd and back are the two directions of a move; only the holder e is left out.
TwoWays(K, L, fwd, back, e) ==
    /\ \A g \in DOMAIN L : /\ fwd[g] \in DOMAIN K /\ L[g] = K[fwd[g]] /\ back[fwd[g]] = g
                           /\ g[1] = "struct" <=> fwd[g][1] = "struct"
    /\ \A g \in DOMAIN K \ {e} : /\ back[g] \in DOMAIN L /\ K[g] = L[back[g]] /\ fwd[back[g]] = g
                                 /\ g[1] = "struct" <=> back[g][1] = "struct"
    /\ e \in DOMAIN K /\ K[e] = EmptyTelemetry

LEMMA BothWays ==
    ASSUME NEW K, NEW L, NEW fwd, NEW back, NEW e, TwoWays(K, L, fwd, back, e)
    PROVE  Moved(K, L, fwd) /\ Moved(L, K, back)
<1>1. ASSUME NEW h \in DOMAIN L
      PROVE  /\ fwd[h] \in DOMAIN K
             /\ L[h] = K[fwd[h]]
             /\ h[1] = "struct" <=> fwd[h][1] = "struct"
             /\ \A g \in DOMAIN L : fwd[g] = fwd[h] => g = h
      BY DEF TwoWays
<1>2. ASSUME NEW h \in DOMAIN K, h # e
      PROVE  /\ back[h] \in DOMAIN L
             /\ K[h] = L[back[h]]
             /\ h[1] = "struct" <=> back[h][1] = "struct"
             /\ \A g \in DOMAIN K : K[g] # EmptyTelemetry /\ back[g] = back[h] => g = h
  <2>1. ASSUME NEW g \in DOMAIN K, K[g] # EmptyTelemetry, back[g] = back[h] PROVE g = h
    <3>1. g # e  BY <2>1 DEF TwoWays
    <3>2. fwd[back[g]] = g /\ fwd[back[h]] = h  BY <1>2, <2>1, <3>1 DEF TwoWays
    <3>. QED  BY <2>1, <3>2
  <2>. QED  BY <1>2, <2>1 DEF TwoWays
<1>3. \A g \in DOMAIN K : K[g] = EmptyTelemetry \/ \E h \in DOMAIN L : fwd[h] = g /\ L[h] = K[g]
      BY DEF TwoWays
<1>4. \A g \in DOMAIN L : \E h \in DOMAIN K : back[h] = g /\ K[h] = L[g]
      BY DEF TwoWays
<1>5. Moved(K, L, fwd)  BY <1>1, <1>3 DEF Moved
<1>6. \A h \in DOMAIN K : h = e => K[h] = EmptyTelemetry  BY DEF TwoWays
<1>7. Moved(L, K, back)  BY <1>2, <1>4, <1>6 DEF Moved
<1>. QED  BY <1>5, <1>7

LEMMA TakeMoves ==
    ASSUME NEW te, NEW ha, NEW qu, NEW it, NEW qu2, NEW it2, Taken(qu, it, qu2, it2),
           NEW K, NEW L, Keeping(K, te, ha, qu, it), Keeping(L, te, ha, qu2, it2)
    PROVE  (\E from : Moved(K, L, from)) /\ (\E from : Moved(L, K, from))
<1> DEFINE e == <<"item", 0>>
           o == <<"queue", 1>>
           fwd == [g \in DOMAIN L |-> IF g = e THEN o
                                      ELSE IF g[1] = "queue" THEN <<"queue", g[2] + 1>> ELSE g]
           back == [g \in DOMAIN K |-> IF g = o THEN e
                                       ELSE IF g[1] = "queue" THEN <<"queue", g[2] - 1>> ELSE g]
<1>1. /\ Len(qu) \in Nat \ {0} /\ DOMAIN qu = 1..Len(qu) /\ DOMAIN qu2 = 1..(Len(qu) - 1)
      /\ 1 \in DOMAIN qu
      BY DEF Taken
<1>2. e \in DOMAIN K /\ K[e] = EmptyTelemetry  BY DEF Keeping, Taken, TelOf
<1>3. o \in DOMAIN K /\ e \in DOMAIN L /\ L[e] = K[o]
  <2>1. o \in DOMAIN K /\ K[o] = qu[1].tel  BY <1>1 DEF Keeping
  <2>2. e \in DOMAIN L /\ L[e] = TelOf(it2)  BY DEF Keeping
  <2>. QED  BY <2>1, <2>2 DEF Taken, TelOf
<1>4. fwd[e] = o /\ back[o] = e /\ e # o /\ e[1] # "struct" /\ o[1] # "struct"  BY <1>3
<1>5. ASSUME NEW i \in DOMAIN qu2
      PROVE  /\ <<"queue", i>> \in DOMAIN L /\ <<"queue", i + 1>> \in DOMAIN K
             /\ L[<<"queue", i>>] = K[<<"queue", i + 1>>]
             /\ fwd[<<"queue", i>>] = <<"queue", i + 1>>
             /\ back[<<"queue", i + 1>>] = <<"queue", i>>
  <2>1. i + 1 \in DOMAIN qu /\ i + 1 # 1 /\ (i + 1) - 1 = i  BY <1>1
  <2>2. <<"queue", i>> \in DOMAIN L /\ L[<<"queue", i>>] = qu2[i].tel  BY DEF Keeping
  <2>3. <<"queue", i + 1>> \in DOMAIN K /\ K[<<"queue", i + 1>>] = qu[i + 1].tel
        BY <2>1 DEF Keeping
  <2>4. qu2[i] = qu[i + 1]  BY DEF Taken
  <2>. QED  BY <2>1, <2>2, <2>3, <2>4
<1>6. ASSUME NEW g, g[1] = "struct" \/ g[1] = "hand",
             \E r \in Structs : g = <<"struct", r>> \/ g = <<"hand", r>>
      PROVE  /\ g \in DOMAIN L /\ g \in DOMAIN K
             /\ L[g] = K[g]
             /\ fwd[g] = g /\ back[g] = g
  <2>1. PICK r \in Structs : g = <<"struct", r>> \/ g = <<"hand", r>>  BY <1>6
  <2>2. /\ <<"struct", r>> \in DOMAIN K /\ <<"hand", r>> \in DOMAIN K
        /\ K[<<"struct", r>>] = te[r] /\ K[<<"hand", r>>] = TelOf(ha[r])
        BY DEF Keeping
  <2>3. /\ <<"struct", r>> \in DOMAIN L /\ <<"hand", r>> \in DOMAIN L
        /\ L[<<"struct", r>>] = te[r] /\ L[<<"hand", r>>] = TelOf(ha[r])
        BY DEF Keeping
  <2>4. g \in DOMAIN L /\ g \in DOMAIN K /\ L[g] = K[g]  BY <2>1, <2>2, <2>3
  <2>5. g # e /\ g # o /\ g[1] # "queue"  BY <2>1
  <2>. QED  BY <2>4, <2>5
<1>7. \A g \in DOMAIN L : \/ \E r \in Structs : g = <<"struct", r>> \/ g = <<"hand", r>>
                          \/ \E i \in DOMAIN qu2 : g = <<"queue", i>>
                          \/ g = e
      BY DEF Keeping
<1>8. \A g \in DOMAIN K : \/ \E r \in Structs : g = <<"struct", r>> \/ g = <<"hand", r>>
                          \/ \E i \in DOMAIN qu2 : g = <<"queue", i + 1>>
                          \/ g = o \/ g = e
  <2>1. \A i \in DOMAIN qu : i # 1 => i - 1 \in DOMAIN qu2 /\ (i - 1) + 1 = i  BY <1>1
  <2>2. \A g \in DOMAIN K : \/ \E r \in Structs : g = <<"struct", r>> \/ g = <<"hand", r>>
                            \/ \E i \in DOMAIN qu : g = <<"queue", i>>
                            \/ g = e
        BY DEF Keeping
  <2>. QED  BY <2>1, <2>2
<1> HIDE DEF fwd, back
<1>9. ASSUME NEW g \in DOMAIN L
      PROVE  /\ fwd[g] \in DOMAIN K /\ L[g] = K[fwd[g]] /\ back[fwd[g]] = g
             /\ g[1] = "struct" <=> fwd[g][1] = "struct"
  <2>1. CASE \E r \in Structs : g = <<"struct", r>> \/ g = <<"hand", r>>
        BY <1>6, <2>1
  <2>2. CASE \E i \in DOMAIN qu2 : g = <<"queue", i>>
    <3>1. PICK i \in DOMAIN qu2 : g = <<"queue", i>>  BY <2>2
    <3>2. /\ <<"queue", i>> \in DOMAIN L /\ <<"queue", i + 1>> \in DOMAIN K
          /\ L[<<"queue", i>>] = K[<<"queue", i + 1>>]
          /\ fwd[<<"queue", i>>] = <<"queue", i + 1>>
          /\ back[<<"queue", i + 1>>] = <<"queue", i>>
          BY <1>5
    <3>. QED  BY <3>1, <3>2
  <2>3. CASE g = e  BY <1>3, <1>4, <2>3
  <2>. QED  BY <1>7, <2>1, <2>2, <2>3
<1>10. ASSUME NEW g \in DOMAIN K \ {e}
       PROVE  /\ back[g] \in DOMAIN L /\ K[g] = L[back[g]] /\ fwd[back[g]] = g
              /\ g[1] = "struct" <=> back[g][1] = "struct"
  <2>1. CASE \E r \in Structs : g = <<"struct", r>> \/ g = <<"hand", r>>
        BY <1>6, <2>1
  <2>2. CASE \E i \in DOMAIN qu2 : g = <<"queue", i + 1>>
    <3>1. PICK i \in DOMAIN qu2 : g = <<"queue", i + 1>>  BY <2>2
    <3>2. /\ <<"queue", i>> \in DOMAIN L /\ <<"queue", i + 1>> \in DOMAIN K
          /\ L[<<"queue", i>>] = K[<<"queue", i + 1>>]
          /\ fwd[<<"queue", i>>] = <<"queue", i + 1>>
          /\ back[<<"queue", i + 1>>] = <<"queue", i>>
          BY <1>5
    <3>. QED  BY <3>1, <3>2
  <2>3. CASE g = o  BY <1>3, <1>4, <2>3
  <2>. QED  BY <1>8, <2>1, <2>2, <2>3
<1> HIDE DEF e, o
<1>11. TwoWays(K, L, fwd, back, e)  BY <1>2, <1>9, <1>10 DEF TwoWays
<1>. QED  BY <1>11, BothWays

\* A typed state in which the uploader takes the first item.
LEMMA ReceiveFacts ==
    ASSUME NEW te, NEW ha, NEW qu, Typed(te, ha, qu, <<>>), qu # <<>>
    PROVE  /\ Typed(te, ha, Tail(qu), <<Head(qu)>>)
           /\ Taken(qu, <<>>, Tail(qu), <<Head(qu)>>)
<1>1. PICK S : ha \in [Structs -> Seq(S)] /\ qu \in Seq(S)  BY DEF Typed
<1>2. /\ Len(qu) \in Nat \ {0} /\ DOMAIN qu = 1..Len(qu) /\ Head(qu) = qu[1]
      /\ Tail(qu) \in Seq(S) /\ DOMAIN Tail(qu) = 1..(Len(qu) - 1)
      BY <1>1
<1>3. \A i \in DOMAIN Tail(qu) : Tail(qu)[i] = qu[i + 1]  BY <1>1, <1>2
<1>4. Head(qu) \in S  BY <1>1, <1>2
<1>5. <<Head(qu)>> \in Seq(S) /\ Len(<<Head(qu)>>) <= 1 /\ <<Head(qu)>> # <<>>
      BY <1>4
<1>6. Head(<<Head(qu)>>) = Head(qu)  OBVIOUS
<1>7. Typed(te, ha, Tail(qu), <<Head(qu)>>)  BY <1>1, <1>2, <1>5 DEF Typed
<1>8. Taken(qu, <<>>, Tail(qu), <<Head(qu)>>)  BY <1>2, <1>3, <1>5, <1>6 DEF Taken
<1>. QED  BY <1>7, <1>8

LEMMA RequeueFacts ==
    ASSUME NEW te, NEW ha, NEW qu, NEW it, Typed(te, ha, qu, it), it # <<>>
    PROVE  /\ Typed(te, ha, it \o qu, <<>>)
           /\ Taken(it \o qu, <<>>, qu, it)
<1> DEFINE q == it \o qu
<1>1. PICK S : ha \in [Structs -> Seq(S)] /\ qu \in Seq(S) /\ it \in Seq(S)  BY DEF Typed
<1>2. Len(it) = 1 /\ it[1] = Head(it)  BY <1>1, JustOne DEF Typed
<1>3. /\ q \in Seq(S) /\ DOMAIN q = 1..(1 + Len(qu)) /\ Len(qu) \in Nat
      /\ DOMAIN qu = 1..Len(qu)
      /\ \A i \in 1..1 : q[i] = it[i]
      /\ \A i \in 1..Len(qu) : q[1 + i] = qu[i]
      BY <1>1, <1>2, Concatenation
<1>4. Len(q) = 1 + Len(qu)
  <2>1. Len(q) = Len(it) + Len(qu)  BY <1>1
  <2>. QED  BY <1>2, <2>1
<1>5. <<>> \in Seq(S) /\ Len(<<>>) <= 1  OBVIOUS
<1> HIDE DEF q
<1>6. Typed(te, ha, q, <<>>)  BY <1>1, <1>3, <1>5 DEF Typed
<1>7. q[1] = Head(it)  BY <1>2, <1>3
<1>8. Len(q) - 1 = Len(qu) /\ Len(q) \in Nat \ {0}  BY <1>3, <1>4
<1>9. \A i \in DOMAIN qu : qu[i] = q[i + 1]
  <2>1. \A i \in 1..Len(qu) : 1 + i = i + 1  BY <1>3
  <2>. QED  BY <1>3, <2>1
<1>10. DOMAIN q = 1..Len(q) /\ DOMAIN qu = 1..(Len(q) - 1)  BY <1>3, <1>4, <1>8
<1>11. Taken(q, <<>>, qu, it)  BY <1>7, <1>8, <1>9, <1>10 DEF Taken
<1>. QED  BY <1>6, <1>11 DEF q

LEMMA ReceiveGood ==
    ASSUME Inv, Receive
    PROVE  /\ Good(tel', hand', queue', item', mem')
           /\ Tight(Keep) => Secure(tel', hand', queue', item', mem')
<1> DEFINE qu2 == Tail(queue)
           it2 == <<Head(queue)>>
           L == KeepingOf(tel, hand, qu2, it2)
<1>1. /\ Intact /\ item = <<>> /\ queue # <<>> /\ item' = it2 /\ queue' = qu2
      /\ tel' = tel /\ hand' = hand /\ mem' = mem
      BY DEF Receive
<1>2. /\ Typed(tel, hand, queue, item)
      /\ Keeping(Keep, tel, hand, queue, item) /\ AllLive(Keep, mem)
      BY <1>1, IntactHolders
<1>3. Keeping(L, tel, hand, qu2, it2)  BY Keeps
<1>4. L = KeepingOf(tel, hand, qu2, it2)  OBVIOUS
<1>5. Typed(tel, hand, qu2, it2) /\ Taken(queue, item, qu2, it2)
      BY <1>1, <1>2, ReceiveFacts
<1> HIDE DEF L, qu2, it2
<1>6. ItemsOf(hand, qu2, it2) = ItemsOf(hand, queue, item)  BY <1>2, <1>5, TakenItems
<1>7. PICK from : Moved(Keep, L, from)  BY <1>2, <1>3, <1>5, TakeMoves
<1>8. Good(tel, hand, queue, item, mem) /\ Keep = KeepingOf(tel, hand, queue, item)
      BY DEF Inv, Keep
<1>9. ItemsOf(hand, qu2, it2) \subseteq ItemsOf(hand, queue, item)  BY <1>6
<1>10. /\ Good(tel, hand, qu2, it2, mem)
       /\ Tight(Keep) => Secure(tel, hand, qu2, it2, mem)
      BY <1>2, <1>4, <1>5, <1>7, <1>8, <1>9, MoveGood
<1>. QED  BY <1>1, <1>10

LEMMA RequeueGood ==
    ASSUME Inv, Requeue
    PROVE  /\ Good(tel', hand', queue', item', mem')
           /\ Tight(Keep) => Secure(tel', hand', queue', item', mem')
<1> DEFINE qu2 == item \o queue
           L == KeepingOf(tel, hand, qu2, <<>>)
<1>1. /\ Intact /\ item # <<>> /\ item' = <<>> /\ queue' = qu2
      /\ tel' = tel /\ hand' = hand /\ mem' = mem
      BY DEF Requeue
<1>2. /\ Typed(tel, hand, queue, item)
      /\ Keeping(Keep, tel, hand, queue, item) /\ AllLive(Keep, mem)
      BY <1>1, IntactHolders
<1>3. Keeping(L, tel, hand, qu2, <<>>)  BY Keeps
<1>4. L = KeepingOf(tel, hand, qu2, <<>>)  OBVIOUS
<1>5. Typed(tel, hand, qu2, <<>>) /\ Taken(qu2, <<>>, queue, item)
      BY <1>1, <1>2, RequeueFacts
<1> HIDE DEF L, qu2
<1>6. ItemsOf(hand, queue, item) = ItemsOf(hand, qu2, <<>>)  BY <1>2, <1>5, TakenItems
<1>7. PICK from : Moved(Keep, L, from)  BY <1>2, <1>3, <1>5, TakeMoves
<1>8. Good(tel, hand, queue, item, mem) /\ Keep = KeepingOf(tel, hand, queue, item)
      BY DEF Inv, Keep
<1>9. ItemsOf(hand, qu2, <<>>) \subseteq ItemsOf(hand, queue, item)  BY <1>6
<1>10. /\ Good(tel, hand, qu2, <<>>, mem)
       /\ Tight(Keep) => Secure(tel, hand, qu2, <<>>, mem)
      BY <1>2, <1>4, <1>5, <1>7, <1>8, <1>9, MoveGood
<1>. QED  BY <1>1, <1>10

-------------------------------------------------------------------------------
(* The enqueue functions.                                                       *)

LEMMA EnqueueCopyGood ==
    ASSUME Inv, NEW s \in Structs, EnqueueCopy(s)
    PROVE  /\ Good(tel', hand', queue', item', mem')
           /\ Tight(Keep) => Secure(tel', hand', queue', item', mem')
<1> DEFINE h == <<"hand", s>>
           g0 == <<"struct", s>>
           c == CopyTo(tel[s], mem, BlobSlots(tel[s], mem))
           z == ItemOf(c.tel, s)
           ha2 == [hand EXCEPT ![s] = <<z>>]
           L == KeepingOf(tel, ha2, queue, item)
<1>1. /\ Intact /\ hand[s] = <<>> /\ hand' = ha2 /\ mem' = c.mem
      /\ tel' = tel /\ queue' = queue /\ item' = item
      BY DEF EnqueueCopy, Ready
<1>2. /\ Typed(tel, hand, queue, item)
      /\ Keeping(Keep, tel, hand, queue, item) /\ AllLive(Keep, mem) /\ Own(Keep, mem) /\ Heap(mem)
      BY <1>1, IntactHolders
<1>3. z.tel = c.tel /\ z.said = View(tel[s], mem)  BY DEF ItemOf
<1>4. Keeping(L, tel, ha2, queue, item)  BY Keeps
<1>5. L = KeepingOf(tel, ha2, queue, item)  OBVIOUS
<1>6. c = CopyTo(tel[s], mem, BlobSlots(tel[s], mem))  OBVIOUS
<1> HIDE DEF L, c, z
<1>7. <<z>> \in Seq({z}) /\ Len(<<z>>) <= 1 /\ <<z>> # <<>> /\ Head(<<z>>) = z  OBVIOUS
<1>8. Typed(tel, ha2, queue, item)  BY <1>2, <1>7, HandTyped
<1>9. \A x \in ItemsOf(ha2, queue, item) : x \in ItemsOf(hand, queue, item) \/ x = z
      BY <1>2, <1>7, HandItems
<1>10. DOMAIN hand = Structs  BY <1>2 DEF Typed
<1>11. Changed(Keep, L, h, TelOf(<<z>>))  BY <1>2, <1>4, <1>10, HandChange
<1>12. TelOf(<<z>>) = c.tel  BY <1>3, <1>7 DEF TelOf
<1>13. h \in DOMAIN Keep /\ Keep[h] = EmptyTelemetry
  <2>1. h \in DOMAIN Keep /\ Keep[h] = TelOf(hand[s])  BY <1>2 DEF Keeping
  <2>. QED  BY <1>1, <2>1 DEF TelOf
<1>14. g0 \in DOMAIN Keep /\ Keep[g0] = tel[s]  BY <1>2 DEF Keeping
<1> HIDE DEF h, g0, ha2
<1>15. /\ DOMAIN L = DOMAIN Keep /\ L[h] = c.tel
       /\ \A g \in DOMAIN Keep \ {h} : L[g] = Keep[g]
       BY <1>11, <1>12 DEF Changed
<1>16. c = CopyTo(Keep[g0], mem, BlobSlots(Keep[g0], mem))  BY <1>6, <1>14
<1>17. /\ Own(L, c.mem) /\ AllLive(L, c.mem) /\ Heap(c.mem)
       /\ TightStruct(Keep[g0]) => TightStruct(c.tel)
       /\ View(c.tel, c.mem) = View(Keep[g0], mem)
       /\ \A g \in DOMAIN Keep : Untouched(Keep[g], mem, c.mem)
       BY <1>2, <1>13, <1>14, <1>15, <1>16, CopyOwn
<1>18. ASSUME NEW x \in ItemsOf(ha2, queue, item) PROVE View(x.tel, c.mem) = x.said
  <2>1. CASE x = z  BY <1>3, <1>14, <1>17, <2>1
  <2>2. CASE x \in ItemsOf(hand, queue, item)
    <3>1. View(x.tel, mem) = x.said  BY <2>2 DEF Inv, Good
    <3>2. AllSound(Keep, mem)  BY <1>2 DEF Own
    <3>3. Spared(Keep, hand, item, mem, c.mem)  BY <1>17 DEF Spared
    <3>4. \A y \in ItemsOf(hand, queue, item) : View(y.tel, c.mem) = View(y.tel, mem)
          BY <1>2, <3>2, <3>3, ItemsSay
    <3>. QED  BY <2>2, <3>1, <3>4
  <2>. QED  BY <1>9, <2>1, <2>2
<1>19. Good(tel, ha2, queue, item, c.mem)  BY <1>5, <1>8, <1>17, <1>18 DEF Good
<1>20. Tight(Keep) => Tight(L)  BY <1>14, <1>15, <1>17 DEF Tight
<1>21. Tight(Keep) => Secure(tel, ha2, queue, item, c.mem)
       BY <1>5, <1>17, <1>20 DEF Secure
<1>. QED  BY <1>1, <1>19, <1>21

LEMMA EnqueueCopyFailsGood ==
    ASSUME Inv, NEW s \in Structs, EnqueueCopyFails(s)
    PROVE  Good(tel', hand', queue', item', mem')
<1> DEFINE h == <<"struct", s>>
<1>1. Intact /\ tel' = tel /\ hand' = hand /\ queue' = queue /\ item' = item
      BY DEF EnqueueCopyFails, Ready
<1>2. PICK k \in BlobSlots(tel[s], mem) :
         LET c == CopyTo(tel[s], mem, {i \in BlobSlots(tel[s], mem) : i < k})
         IN  mem' = Release(c.tel, c.mem)
      BY DEF EnqueueCopyFails
<1> DEFINE c == CopyTo(tel[s], mem, {i \in BlobSlots(tel[s], mem) : i < k})
           n == Release(c.tel, c.mem)
<1>3. mem' = n  BY <1>2
<1>4. /\ Typed(tel, hand, queue, item)
      /\ Keeping(Keep, tel, hand, queue, item) /\ AllLive(Keep, mem) /\ Own(Keep, mem) /\ Heap(mem)
      BY <1>1, IntactHolders
<1>5. h \in DOMAIN Keep /\ Keep[h] = tel[s] /\ h[1] = "struct"  BY <1>4 DEF Keeping
<1>6. /\ c = CopyTo(Keep[h], mem, {i \in BlobSlots(Keep[h], mem) : i < k})
      /\ k \in BlobSlots(Keep[h], mem)
      BY <1>5
<1> HIDE DEF c, h
<1>7. /\ Heap(n) /\ ~Live(Keep[h], n)
      /\ \A g \in DOMAIN Keep : g[1] # "struct" => Untouched(Keep[g], mem, n)
      BY <1>4, <1>5, <1>6, CopyFailsBreaks
<1> HIDE DEF n
<1>8. ~AllLive(Keep, n)  BY <1>5, <1>7 DEF AllLive
<1>9. ASSUME NEW x \in ItemsOf(hand, queue, item) PROVE View(x.tel, n) = x.said
  <2>1. View(x.tel, mem) = x.said  BY DEF Inv, Good
  <2>2. AllSound(Keep, mem)  BY <1>4 DEF Own
  <2>3. Spared(Keep, hand, item, mem, n)  BY <1>7 DEF Holds, Spared
  <2>4. \A y \in ItemsOf(hand, queue, item) : View(y.tel, n) = View(y.tel, mem)
        BY <1>4, <2>2, <2>3, ItemsSay
  <2>. QED  BY <2>1, <2>4
<1>10. Good(tel, hand, queue, item, n)  BY <1>4, <1>7, <1>8, <1>9 DEF Good, Keep
<1>. QED  BY <1>1, <1>3, <1>10

\* The queue gets another item z at its end, kept by the holder e.
Queued(te, ha, qu, it, z, K, L, e) ==
    /\ Typed(te, ha, Append(qu, z), it)
    /\ \A x \in ItemsOf(ha, Append(qu, z), it) : x \in ItemsOf(ha, qu, it) \/ x = z
    /\ e \notin DOMAIN K /\ e[1] # "struct"
    /\ DOMAIN L = DOMAIN K \cup {e}
    /\ L[e] = z.tel
    /\ \A g \in DOMAIN K : L[g] = K[g]

LEMMA AppendItem ==
    ASSUME NEW te, NEW ha, NEW qu, NEW it, Typed(te, ha, qu, it), NEW z, NEW K, NEW L,
           Keeping(K, te, ha, qu, it), Keeping(L, te, ha, Append(qu, z), it)
    PROVE  \E e : Queued(te, ha, qu, it, z, K, L, e)
<1> DEFINE qu2 == Append(qu, z)
           e == <<"queue", Len(qu) + 1>>
<1>1. PICK S : ha \in [Structs -> Seq(S)] /\ qu \in Seq(S) /\ it \in Seq(S)  BY DEF Typed
<1>2. \A p : p \in Seq(S) => p \in Seq(S \cup {z})  OBVIOUS
<1>3. /\ qu2 \in Seq(S \cup {z}) /\ Len(qu) \in Nat
      /\ DOMAIN qu = 1..Len(qu) /\ DOMAIN qu2 = 1..(Len(qu) + 1)
      /\ \A i \in 1..Len(qu) : qu2[i] = qu[i]
      /\ qu2[Len(qu) + 1] = z
      BY <1>1
<1> HIDE DEF qu2
<1>4. Keeping(L, te, ha, qu2, it)  BY DEF qu2
<1>5. Typed(te, ha, qu2, it)
  <2>1. ha \in [Structs -> Seq(S \cup {z})] /\ it \in Seq(S \cup {z})  BY <1>1, <1>2
  <2>. QED  BY <1>3, <2>1 DEF Typed
<1>6. \A i \in DOMAIN qu2 : i \in DOMAIN qu \/ i = Len(qu) + 1  BY <1>3
<1>7. ASSUME NEW x \in ItemsOf(ha, qu2, it), x # z PROVE x \in ItemsOf(ha, qu, it)
  <2>1. IsItem(x, ha, qu2, it)  BY <1>5, ItemPlaces
  <2>2. IsItem(x, ha, qu, it)  BY <1>3, <1>6, <1>7, <2>1 DEF IsItem
  <2>. QED  BY <2>2, ItemPlaces
<1>8. e \notin DOMAIN K /\ e[1] # "struct"
  <2>1. ~(Len(qu) + 1 \in DOMAIN qu)  BY <1>3
  <2>. QED  BY <2>1 DEF Keeping
<1>9. DOMAIN L = DOMAIN K \cup {e}
  <2>1. DOMAIN qu2 = DOMAIN qu \cup {Len(qu) + 1}  BY <1>3
  <2>2. HoldersOf(qu2) = HoldersOf(qu) \cup {e}  BY <2>1 DEF HoldersOf
  <2>3. DOMAIN L = HoldersOf(qu2) /\ DOMAIN K = HoldersOf(qu)  BY <1>4 DEF Keeping
  <2>. QED  BY <2>2, <2>3
<1>10. L[e] = z.tel
  <2>1. Len(qu) + 1 \in DOMAIN qu2  BY <1>3
  <2>. QED  BY <1>3, <1>4, <2>1 DEF Keeping
<1>11. ASSUME NEW g \in DOMAIN K PROVE L[g] = K[g]
  <2>1. ASSUME NEW r \in Structs
        PROVE  L[<<"struct", r>>] = K[<<"struct", r>>] /\ L[<<"hand", r>>] = K[<<"hand", r>>]
    <3>1. K[<<"struct", r>>] = te[r] /\ K[<<"hand", r>>] = TelOf(ha[r])  BY DEF Keeping
    <3>2. L[<<"struct", r>>] = te[r] /\ L[<<"hand", r>>] = TelOf(ha[r])  BY <1>4 DEF Keeping
    <3>. QED  BY <3>1, <3>2
  <2>2. ASSUME NEW i \in DOMAIN qu PROVE L[<<"queue", i>>] = K[<<"queue", i>>]
    <3>1. i \in DOMAIN qu2 /\ qu2[i] = qu[i]  BY <1>3
    <3>2. L[<<"queue", i>>] = qu2[i].tel  BY <1>4, <3>1 DEF Keeping
    <3>3. K[<<"queue", i>>] = qu[i].tel  BY DEF Keeping
    <3>. QED  BY <3>1, <3>2, <3>3
  <2>3. L[<<"item", 0>>] = K[<<"item", 0>>]  BY <1>4 DEF Keeping
  <2>4. \/ \E r \in Structs : g = <<"struct", r>>
        \/ \E r \in Structs : g = <<"hand", r>>
        \/ \E i \in DOMAIN qu : g = <<"queue", i>>
        \/ g = <<"item", 0>>
        BY DEF Keeping
  <2>. QED  BY <2>1, <2>2, <2>3, <2>4
<1> HIDE DEF e
<1>12. \A x \in ItemsOf(ha, qu2, it) : x \in ItemsOf(ha, qu, it) \/ x = z  BY <1>7
<1>13. Queued(te, ha, qu, it, z, K, L, e)
       BY <1>5, <1>8, <1>9, <1>10, <1>11, <1>12 DEF qu2, Queued
<1>. QED  BY <1>13

LEMMA EnqueueFromIsrGood ==
    ASSUME Inv, NEW s \in Structs, EnqueueFromIsr(s)
    PROVE  /\ Good(tel', hand', queue', item', mem')
           /\ Tight(Keep) => Secure(tel', hand', queue', item', mem')
<1> DEFINE g0 == <<"struct", s>>
           z == ItemOf(tel[s], s)
           qu2 == Append(queue, z)
           L == KeepingOf(tel, hand, qu2, item)
<1>1. /\ Intact /\ IsrSafeEnqueue /\ tel[s].count <= Inline
      /\ \A i \in 1..tel[s].count : tel[s].inline[i].kind # "blob"
      /\ queue' = qu2 /\ tel' = tel /\ hand' = hand /\ item' = item /\ mem' = mem
      BY DEF EnqueueFromIsr
<1>2. /\ Typed(tel, hand, queue, item)
      /\ Keeping(Keep, tel, hand, queue, item) /\ AllLive(Keep, mem) /\ Own(Keep, mem) /\ Heap(mem)
      BY <1>1, IntactHolders
<1>3. z.tel = tel[s] /\ z.said = View(tel[s], mem)  BY DEF ItemOf
<1>4. Keeping(L, tel, hand, qu2, item)  BY Keeps
<1>5. L = KeepingOf(tel, hand, qu2, item)  OBVIOUS
<1> HIDE DEF L, z
<1>6. g0 \in DOMAIN Keep /\ Keep[g0] = tel[s] /\ g0[1] = "struct"  BY <1>2 DEF Keeping
<1>7. BlobSlots(tel[s], mem) = {}
  <2>1. tel[s] \in Telemetry  BY <1>2 DEF Typed
  <2>2. tel[s].count \in Nat /\ Inline \in Nat  BY <2>1, OwnershipAssumption DEF Telemetry
  <2>3. \A i \in 1..tel[s].count : i <= Inline  BY <1>1, <2>2
  <2>4. \A i \in 1..tel[s].count : Slot(tel[s], mem, i) = tel[s].inline[i]  BY <2>3 DEF Slot
  <2>. QED  BY <1>1, <2>4 DEF BlobSlots
<1>8. PICK e : Queued(tel, hand, queue, item, z, Keep, L, e)
      BY <1>2, <1>4, AppendItem
<1>9. /\ Typed(tel, hand, qu2, item)
      /\ \A x \in ItemsOf(hand, qu2, item) : x \in ItemsOf(hand, queue, item) \/ x = z
      BY <1>8 DEF Queued
<1> HIDE DEF g0, qu2
<1>10. Own(L, mem)
  <2>1. L[e] = Keep[g0] /\ Keep[g0].count <= Inline /\ BlobSlots(Keep[g0], mem) = {}
        BY <1>1, <1>3, <1>6, <1>7, <1>8 DEF Queued
  <2>2. /\ e \notin DOMAIN Keep /\ e[1] # "struct" /\ DOMAIN L = DOMAIN Keep \cup {e}
        /\ \A g \in DOMAIN Keep : L[g] = Keep[g]
        BY <1>8 DEF Queued
  <2>. QED  BY <1>1, <1>2, <1>6, <2>1, <2>2, ShareOwn
<1>11. ASSUME NEW x \in ItemsOf(hand, qu2, item) PROVE View(x.tel, mem) = x.said
  <2>1. CASE x = z  BY <1>3, <2>1
  <2>2. CASE x \in ItemsOf(hand, queue, item)  BY <2>2 DEF Inv, Good
  <2>. QED  BY <1>9, <2>1, <2>2
<1>12. Good(tel, hand, qu2, item, mem)  BY <1>2, <1>5, <1>9, <1>10, <1>11 DEF Good
<1>13. \A g \in DOMAIN L : \E f \in DOMAIN Keep : L[g] = Keep[f]
       BY <1>3, <1>6, <1>8 DEF Queued
<1>14. AllLive(L, mem)  BY <1>2, <1>13 DEF AllLive
<1>15. Tight(Keep) => Tight(L)  BY <1>13 DEF Tight
<1>16. Tight(Keep) => Secure(tel, hand, qu2, item, mem)  BY <1>5, <1>14, <1>15 DEF Secure
<1>. QED  BY <1>1, <1>12, <1>16

-------------------------------------------------------------------------------
(* The theorems.                                                                *)

\* At first every holder keeps an empty struct.
LEMMA InitKeep ==
    ASSUME Init
    PROVE  \A h \in DOMAIN Keep : Keep[h] = EmptyTelemetry
<1>1. /\ tel = [s \in Structs |-> EmptyTelemetry] /\ hand = [s \in Structs |-> <<>>]
      /\ queue = <<>> /\ item = <<>>
      BY DEF Init
<1>6. Keeping(Keep, tel, hand, queue, item)  BY Keeps DEF Keep
<1>7. ASSUME NEW h \in DOMAIN Keep PROVE Keep[h] = EmptyTelemetry
  <2>1. ASSUME NEW s \in Structs
        PROVE  Keep[<<"struct", s>>] = EmptyTelemetry /\ Keep[<<"hand", s>>] = EmptyTelemetry
    <3>1. Keep[<<"struct", s>>] = tel[s] /\ Keep[<<"hand", s>>] = TelOf(hand[s])
          BY <1>6 DEF Keeping
    <3>. QED  BY <1>1, <3>1 DEF TelOf
  <2>2. Keep[<<"item", 0>>] = EmptyTelemetry  BY <1>1, <1>6 DEF Keeping, TelOf
  <2>3. DOMAIN queue = {}  BY <1>1
  <2>4. \/ \E s \in Structs : h = <<"struct", s>>
        \/ \E s \in Structs : h = <<"hand", s>>
        \/ h = <<"item", 0>>
        BY <1>6, <2>3 DEF Keeping
  <2>5. CASE \E s \in Structs : h = <<"struct", s>>
    <3>1. PICK s \in Structs : h = <<"struct", s>>  BY <2>5
    <3>. QED  BY <2>1, <3>1
  <2>6. CASE \E s \in Structs : h = <<"hand", s>>
    <3>1. PICK s \in Structs : h = <<"hand", s>>  BY <2>6
    <3>. QED  BY <2>1, <3>1
  <2>. QED  BY <2>2, <2>4, <2>5, <2>6
<1>. QED  BY <1>7

LEMMA InitGood == Init => Inv
<1> SUFFICES ASSUME Init PROVE Inv
    OBVIOUS
<1>1. /\ tel = [s \in Structs |-> EmptyTelemetry] /\ hand = [s \in Structs |-> <<>>]
      /\ queue = <<>> /\ item = <<>> /\ DOMAIN mem = {}
      BY DEF Init
<1>2. EmptyTelemetry \in Telemetry  BY EmptyHasNone
<1>3. <<>> \in Seq({}) /\ Len(<<>>) <= 1  OBVIOUS
<1>4. Typed(tel, hand, queue, item)
  <2>1. tel \in [Structs -> Telemetry]  BY <1>1, <1>2
  <2>2. hand \in [Structs -> Seq({})] /\ queue \in Seq({}) /\ item \in Seq({})  BY <1>1, <1>3
  <2>3. (\A s \in Structs : Len(hand[s]) <= 1) /\ Len(item) <= 1  BY <1>1, <1>3
  <2>. QED  BY <2>1, <2>2, <2>3 DEF Typed
<1>5. Heap(mem)  BY <1>1, FS_EmptySet DEF Heap
<1>6. Keeping(Keep, tel, hand, queue, item)  BY Keeps DEF Keep
<1>7. \A h \in DOMAIN Keep : Keep[h] = EmptyTelemetry  BY InitKeep
<1>8. Own(Keep, mem)
  <2>1. Sound(EmptyTelemetry, mem) /\ Pointers(EmptyTelemetry, mem) = {}
        BY <1>1, <1>2, EmptyHasNone DEF Sound
  <2>. QED  BY <1>1, <1>7, <2>1 DEF Own, AllSound, Covered, Exclusive
<1>9. ASSUME NEW x \in ItemsOf(hand, queue, item) PROVE FALSE
  <2>1. IsItem(x, hand, queue, item)  BY <1>4, ItemPlaces
  <2>2. DOMAIN queue = {}  BY <1>1
  <2>. QED  BY <1>1, <2>1, <2>2 DEF IsItem
<1>. QED  BY <1>4, <1>5, <1>8, <1>9 DEF Inv, Good, Keep

LEMMA NextGood == Inv /\ [Next]_vars => Inv'
<1> SUFFICES ASSUME Inv, [Next]_vars PROVE Good(tel', hand', queue', item', mem')
    BY DEF Inv
<1>1. ASSUME NEW s \in Structs, NEW v \in Values, AddScalar(s, v) \/ AddBlob(s, v)
      PROVE  Good(tel', hand', queue', item', mem')
      BY <1>1, AddScalarGood, AddBlobGood
<1>2. ASSUME NEW s \in Structs, AddEmptyBytes(s) \/ AddBlobFails(s) \/ Deinit(s)
      PROVE  Good(tel', hand', queue', item', mem')
      BY <1>2, AddEmptyBytesGood, AddBlobFailsGood, DeinitGood
<1>3. ASSUME NEW s \in Structs, EnqueueCopy(s) \/ EnqueueCopyFails(s) \/ EnqueueFromIsr(s)
      PROVE  Good(tel', hand', queue', item', mem')
      BY <1>3, EnqueueCopyGood, EnqueueCopyFailsGood, EnqueueFromIsrGood
<1>4. ASSUME NEW s \in Structs, Send(s) \/ SendTimeout(s)
      PROVE  Good(tel', hand', queue', item', mem')
      BY <1>4, SendGood, SendTimeoutGood
<1>5. CASE Receive \/ Requeue \/ ReleaseItem
      BY <1>5, ReceiveGood, RequeueGood, ReleaseItemGood
<1>6. CASE UNCHANGED vars  BY <1>6 DEF vars, Inv
<1>. QED  BY <1>1, <1>2, <1>3, <1>4, <1>5, <1>6 DEF Next

\* The inductive invariant of the ownership specification: as long as nothing
\* dangles the blocks are owned, and every item says what was enqueued.
THEOREM OwnershipInvariant == Spec => []Inv
BY InitGood, NextGood, PTL DEF Spec

\* The allocations that a message can survive: those of the copy never fail, and
\* those of a blob only where the ISR path is not compiled in.
Survivable == "copyBlob" \notin MallocFails /\ (IsrSafeEnqueue => "blob" \notin MallocFails)

LEMMA NextSecure ==
    Survivable /\ Inv /\ Secure(tel, hand, queue, item, mem) /\ [Next]_vars
      => Secure(tel', hand', queue', item', mem')
<1> SUFFICES ASSUME Survivable, Inv, Secure(tel, hand, queue, item, mem), [Next]_vars
             PROVE  Secure(tel', hand', queue', item', mem')
    OBVIOUS
<1>0. Tight(Keep)  BY DEF Secure, Keep
<1>1. ASSUME NEW s \in Structs, NEW v \in Values, AddScalar(s, v) \/ AddBlob(s, v)
      PROVE  Secure(tel', hand', queue', item', mem')
      BY <1>0, <1>1, AddScalarGood, AddBlobGood
<1>2. ASSUME NEW s \in Structs, AddEmptyBytes(s) \/ AddBlobFails(s) \/ Deinit(s)
      PROVE  Secure(tel', hand', queue', item', mem')
  <2>1. AddBlobFails(s) => ~IsrSafeEnqueue  BY DEF AddBlobFails, Survivable
  <2>. QED  BY <1>0, <1>2, <2>1, AddEmptyBytesGood, AddBlobFailsGood, DeinitGood
<1>3. ASSUME NEW s \in Structs, EnqueueCopy(s) \/ EnqueueCopyFails(s) \/ EnqueueFromIsr(s)
      PROVE  Secure(tel', hand', queue', item', mem')
  <2>1. ~EnqueueCopyFails(s)  BY DEF EnqueueCopyFails, Survivable
  <2>. QED  BY <1>0, <1>3, <2>1, EnqueueCopyGood, EnqueueFromIsrGood
<1>4. ASSUME NEW s \in Structs, Send(s) \/ SendTimeout(s)
      PROVE  Secure(tel', hand', queue', item', mem')
      BY <1>0, <1>4, SendGood, SendTimeoutGood
<1>5. CASE Receive \/ Requeue \/ ReleaseItem
      BY <1>0, <1>5, ReceiveGood, RequeueGood, ReleaseItemGood
<1>6. CASE UNCHANGED vars  BY <1>6 DEF vars
<1>. QED  BY <1>1, <1>2, <1>3, <1>4, <1>5, <1>6 DEF Next

\* If the blobs of a copy can always be allocated, and those of a new metric too
\* unless there is no ISR path, then no pointer of a struct or of an item ever
\* dangles: aetus_telemetry_deinit and the releases of items free nothing that
\* somebody else still points at.  The failing allocations are all that can break
\* the promise that a caller may go on using its struct.
THEOREM IntactTheorem ==
    ASSUME Survivable
    PROVE  Spec => [](Intact /\ StructsStayValid)
<1> DEFINE Safe == Inv /\ Secure(tel, hand, queue, item, mem)
<1>1. Init => Safe
  <2>1. SUFFICES ASSUME Init PROVE Secure(tel, hand, queue, item, mem)
        BY InitGood
  <2>2. \A h \in DOMAIN Keep : Keep[h] = EmptyTelemetry  BY <2>1, InitKeep
  <2>3. Live(EmptyTelemetry, mem) /\ TightStruct(EmptyTelemetry)
        BY EmptyHasNone DEF TightStruct
  <2>4. AllLive(Keep, mem) /\ Tight(Keep)  BY <2>2, <2>3 DEF AllLive, Tight
  <2>. QED  BY <2>4 DEF Secure, Keep
<1>2. Safe /\ [Next]_vars => Safe'
  <2>1. SUFFICES ASSUME Safe, [Next]_vars PROVE Safe'
        OBVIOUS
  <2>2. Inv'  BY <2>1, NextGood
  <2>3. Secure(tel', hand', queue', item', mem')  BY <2>1, NextSecure
  <2>. QED  BY <2>2, <2>3
<1>3. Safe => Intact /\ StructsStayValid
  <2>1. SUFFICES ASSUME Safe PROVE Intact /\ StructsStayValid
        OBVIOUS
  <2>2. Intact  BY <2>1, IntactHolders DEF Secure, Keep
  <2>. QED  BY <2>2 DEF Intact, StructsStayValid
<1> HIDE DEF Safe
<1>. QED  BY <1>1, <1>2, <1>3, PTL DEF Spec

\* The holders of the specification are those of Keep.
LEMMA KeptIs ==
    Holders = DOMAIN Keep /\ \A h \in DOMAIN Keep : Kept(h) = Keep[h]
<1>1. Keeping(Keep, tel, hand, queue, item)  BY Keeps DEF Keep
<1>2. Holders = DOMAIN Keep
  <2>1. DOMAIN Keep = HoldersOf(queue)  BY <1>1 DEF Keeping
  <2>. QED  BY <2>1 DEF Holders, HoldersOf
<1>3. ASSUME NEW h \in DOMAIN Keep PROVE Kept(h) = Keep[h]
  <2>1. ASSUME NEW s \in Structs, h = <<"struct", s>> PROVE Kept(h) = Keep[h]
    <3>1. Keep[h] = tel[s]  BY <1>1, <2>1 DEF Keeping
    <3>. QED  BY <2>1, <3>1 DEF Kept
  <2>2. ASSUME NEW s \in Structs, h = <<"hand", s>> PROVE Kept(h) = Keep[h]
    <3>1. Keep[h] = TelOf(hand[s])  BY <1>1, <2>2 DEF Keeping
    <3>. QED  BY <2>2, <3>1 DEF Kept, TelOf
  <2>3. ASSUME NEW i \in DOMAIN queue, h = <<"queue", i>> PROVE Kept(h) = Keep[h]
    <3>1. Keep[h] = queue[i].tel  BY <1>1, <2>3 DEF Keeping
    <3>. QED  BY <2>3, <3>1 DEF Kept
  <2>4. ASSUME h = <<"item", 0>> PROVE Kept(h) = Keep[h]
    <3>1. Keep[h] = TelOf(item)  BY <1>1, <2>4 DEF Keeping
    <3>. QED  BY <2>4, <3>1 DEF Kept, TelOf
  <2>5. \/ \E s \in Structs : h = <<"struct", s>>
        \/ \E s \in Structs : h = <<"hand", s>>
        \/ \E i \in DOMAIN queue : h = <<"queue", i>>
        \/ h = <<"item", 0>>
        BY <1>1 DEF Keeping
  <2>. QED  BY <2>1, <2>2, <2>3, <2>4, <2>5
<1>. QED  BY <1>2, <1>3

\* The references of the specification are the pointers of the holders.
LEMMA ReferencesAre ==
    ASSUME NEW r
    PROVE  r \in References <=>
              \E h \in DOMAIN Keep : \E p \in Pointers(Keep[h], mem) : r = <<h, p>>
<1>1. Holders = DOMAIN Keep /\ \A h \in Holders : Kept(h) = Keep[h]  BY KeptIs
<1> DEFINE R(h) == {<<h, p>> : p \in Pointers(Kept(h), mem)}
           T == {R(h) : h \in Holders}
<1>3. References = UNION T  BY DEF References
<1>4. ASSUME r \in UNION T
      PROVE  \E h \in Holders : \E p \in Pointers(Kept(h), mem) : r = <<h, p>>
  <2>1. PICK X \in T : r \in X  BY <1>4
  <2>2. PICK h \in Holders : X = R(h)  BY <2>1
  <2>. QED  BY <2>1, <2>2
<1>5. ASSUME NEW h \in Holders, NEW p \in Pointers(Kept(h), mem), r = <<h, p>>
      PROVE  r \in UNION T
  <2>1. R(h) \in T  OBVIOUS
  <2>2. r \in R(h)  BY <1>5
  <2> HIDE DEF T, R
  <2>. QED  BY <2>1, <2>2
<1> HIDE DEF T, R
<1>. QED  BY <1>1, <1>3, <1>4, <1>5

\* Every block of the heap is pointed at from one place, apart from a table that
\* the ISR path has copied along with the struct and that at most one of the two
\* uses (append_metric, the copies, the releases and aetus_telemetry_deinit), for
\* any number of structs, metrics and items and whatever allocations fail.
THEOREM OneOwnerTheorem == Spec => []BlocksHaveOneOwner
<1>1. Inv => BlocksHaveOneOwner
  <2>1. SUFFICES ASSUME Inv, Intact
                 PROVE  /\ DOMAIN mem \subseteq {r[2][2] : r \in References}
                        /\ \A q, r \in References :
                              q # r /\ q[2][2] = r[2][2] =>
                                 /\ q[2][1] = 0 /\ r[2][1] = 0
                                 /\ Kept(q[1]).count <= Inline \/ Kept(r[1]).count <= Inline
        BY DEF BlocksHaveOneOwner
  <2>2. Own(Keep, mem)  BY <2>1, IntactHolders
  <2>3. ASSUME NEW a \in DOMAIN mem PROVE \E r \in References : r[2][2] = a
    <3>1. PICK h \in DOMAIN Keep : \E p \in Pointers(Keep[h], mem) : p[2] = a
          BY <2>2 DEF Own, Covered
    <3>2. PICK p \in Pointers(Keep[h], mem) : p[2] = a  BY <3>1
    <3>3. <<h, p>> \in References  BY <3>2, ReferencesAre
    <3>. QED  BY <3>2, <3>3
  <2>4. ASSUME NEW q \in References, NEW r \in References, q # r, q[2][2] = r[2][2]
        PROVE  /\ q[2][1] = 0 /\ r[2][1] = 0
               /\ Kept(q[1]).count <= Inline \/ Kept(r[1]).count <= Inline
    <3>1. PICK h \in DOMAIN Keep : \E p \in Pointers(Keep[h], mem) : q = <<h, p>>
          BY ReferencesAre
    <3>2. PICK p \in Pointers(Keep[h], mem) : q = <<h, p>>  BY <3>1
    <3>3. PICK g \in DOMAIN Keep : \E o \in Pointers(Keep[g], mem) : r = <<g, o>>
          BY ReferencesAre
    <3>4. PICK o \in Pointers(Keep[g], mem) : r = <<g, o>>  BY <3>3
    <3>5. p[2] = o[2] /\ (h # g \/ p # o)  BY <2>4, <3>2, <3>4
    <3>6. Shared(Keep, h, g, p, o)  BY <2>2, <3>5 DEF Own, Exclusive
    <3>7. p[1] = 0 /\ o[1] = 0 /\ (Keep[h].count <= Inline \/ Keep[g].count <= Inline)
          BY <3>6 DEF Shared, MayShare
    <3>8. Kept(h) = Keep[h] /\ Kept(g) = Keep[g]  BY KeptIs
    <3>. QED  BY <3>2, <3>4, <3>7, <3>8
  <2>. QED  BY <2>3, <2>4
<1>. QED  BY <1>1, OwnershipInvariant, PTL

\* An item in a caller's hand, in the queue or with the uploader says what the struct
\* said when it was enqueued, until it is released: whatever is done to the struct,
\* and even after a failed copy has freed blobs of that struct.
THEOREM SnapshotTheorem == Spec => []QueuedIsSnapshot
<1>1. Inv => QueuedIsSnapshot
  <2>1. Items = ItemsOf(hand, queue, item)  BY DEF Items, ItemsOf
  <2>. QED  BY <2>1 DEF Inv, Good, QueuedIsSnapshot
<1>. QED  BY <1>1, OwnershipInvariant, PTL

=============================================================================
