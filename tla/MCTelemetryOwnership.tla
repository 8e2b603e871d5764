------------------------- MODULE MCTelemetryOwnership -------------------------
(* Instances of TelemetryOwnership for TLC.                                *)
EXTENDS TelemetryOwnership

\* A state up to the renaming of heap addresses, which no action and no property
\* tells apart: what every holder says, which pointers are equal, which dangle,
\* and how many blocks there are.
Shape ==
    LET place(r) == <<r[1], r[2][1]>>
    IN  <<[h \in Holders |-> <<Kept(h).count, Kept(h).table = NULL, View(Kept(h), mem)>>],
          [s \in Structs |-> [i \in DOMAIN hand[s] |-> hand[s][i].said]],
          [i \in DOMAIN queue |-> queue[i].said],
          [i \in DOMAIN item |-> item[i].said],
          {<<place(q), place(r)>> : <<q, r>> \in
              {x \in References \X References : x[1] # x[2] /\ x[1][2][2] = x[2][2][2]}},
          {place(r) : r \in {q \in References : q[2][2] \notin DOMAIN mem}},
          Cardinality(DOMAIN mem)>>
===============================================================================
