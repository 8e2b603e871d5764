----------------------------- MODULE MCAetusUpload -----------------------------
(* Instances of AetusUpload for TLC.                                       *)
EXTENDS AetusUpload, FiniteSetsExt, TLC

CONSTANT g1   \* one of the signal frames

\* The sizes of the two signal frames differ so that bytes tell them apart.
MCSize == [m \in Signals |-> IF m = g1 THEN 1 ELSE 2]

\* Producer tasks, and flushing tasks, are interchangeable.
Symmetry == Permutations(Producers) \cup Permutations(Flushers)

\* Bound of upload_flush: flushes that overlap are explored with the telemetry
\* message and without late requests, messages that wait behind others without
\* flushes; so the run has both and stays small.
FlushOrQueue ==
    \/ used \subseteq Telemetry /\ late = {}
    \/ \A f \in Flushers : fpc[f] = "idle" /\ round[f] = 0

BoundedLiveSpec ==
    Init /\ [][Next /\ FlushOrQueue']_vars /\ Fairness /\ ServerFairness

\* The blocks whose allocation is noted and whose release is not.
Noted == (heap \ {pmsg[p] : p \in {q \in Producers : ppc[q] = "noteAlloc"}})
           \cup {pmsg[p] : p \in {q \in Producers : ppc[q] = "noteRelease"}}
           \cup (IF upc = "noteRelease" THEN {item} ELSE {})

BytesExact ==
    /\ stats.allocated_bytes = MapThenSumSet(LAMBDA m : Size[m], Noted)
    /\ stats.peak_allocated_bytes >= stats.allocated_bytes

\* The statistics of the sample pool add up, up to the critical sections that are
\* still to come: allocated_blocks is the number of blocks on the heap and never
\* saturates, allocated_bytes the sum of their sizes with the peak never below
\* it, and every release is counted under exactly one of its four reasons.
PoolStatisticsExact == BlocksExact /\ BytesExact /\ ReleasesHaveAReason
===============================================================================
