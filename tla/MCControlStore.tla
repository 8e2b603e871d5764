--------------------------- MODULE MCControlStore ---------------------------
(***************************************************************************)
(* Two requests for one hardware id, and one for the "seed-" hardware id   *)
(* of a seed whose device id collides with a generated one; environments   *)
(* that list two seeds in either order.                                    *)
(***************************************************************************)
EXTENDS ControlStore

CONSTANTS r3, p1, p2, p3

MCPrefix == [h \in Hardware |-> IF h = "esp-a" THEN "esp" ELSE "seed"]
MCHardwareOf == [r \in Requests |-> IF r = r3 THEN "seed-1" ELSE "esp-a"]
MCSeeds == {<<"esp", "-", 1>>, <<"lab", "-", 1>>}
MCSeedHardware == [d \in Seeds |-> IF d[1] = "esp" THEN "seed-1" ELSE "seed-2"]
MCEnvAllowlists == {<<"esp-a">>}
MCEnvTokens ==
    {<<>>,
     <<<<"esp", "-", 1>>, <<"lab", "-", 1>>>>, <<<<"lab", "-", 1>>, <<"esp", "-", 1>>>>}

\* Processes are alike: the first of those that are down is started.
InOrder(p) == \A i, j \in 1..3 : <<p1, p2, p3>>[j] = p /\ i < j => pod[<<p1, p2, p3>>[i]] # "down"

\* Bound: a request fails, or its process stops, while no other has failed.
Healthy == \A r \in Requests : req[r].pc \notin {"error", "unsure", "lost"}

\* Bound: three requests at one process, two and a second start, or one and three.
Room == Cardinality({r \in Requests : req[r].pc # "idle"}) + starts < 4

BoundedNext ==
    \/ \E r \in Requests :
          (Room /\ Arrive(r)) \/ Handle(r) \/ (Healthy /\ (CommitUnanswered(r) \/ StatementFails(r)))
    \/ \E p \in Pods : (Room /\ InOrder(p) /\ Start(p)) \/ Seed(p) \/ (Healthy /\ Crash(p))

BoundedFairSpec == Init /\ [][BoundedNext]_vars /\ Fairness

=============================================================================
