---------------------------- MODULE MCAnomalyOutbox ----------------------------
(***************************************************************************)
(* Small instances of AnomalyOutbox for TLC.                               *)
(***************************************************************************)
EXTENDS AnomalyOutbox, TLC

CONSTANTS w1, w2, d1, d2, e1, e2, v1, v2

OneWorker == {w1}
TwoWorkers == {w1, w2}
OneDispatcher == {d1}
TwoDispatchers == {d1, d2}
OneEndpoint == {e1}
TwoEndpoints == {e1, e2}
OneEvent == {v1}
TwoEvents == {v1, v2}

\* Processes, endpoints and events are interchangeable.
Symmetry == Permutations(Workers) \cup Permutations(Dispatchers)
              \cup Permutations(Endpoints) \cup Permutations(Events)
===============================================================================
