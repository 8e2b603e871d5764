------------------------------ MODULE FifoUplink ------------------------------
(***************************************************************************)
(* What the upload runtime promises its callers, whatever the tasks, the   *)
(* radio and the server do: a bounded first-in-first-out line.  A message  *)
(* that was taken in leaves it once, from the front, and is then either    *)
(* acknowledged by the server or given up; nothing overtakes, nothing is   *)
(* taken in twice, nothing disappears.                                     *)
(***************************************************************************)
EXTENDS Naturals, Sequences

CONSTANTS Messages,   \* what can be enqueued
          Capacity    \* the places of the line

VARIABLES pending,    \* taken in, fate open, oldest first
          acked,      \* acknowledged, in order
          lost        \* given up

Init == pending = <<>> /\ acked = <<>> /\ lost = {}

Enqueue(m) ==
    /\ Len(pending) < Capacity
    /\ \A i \in DOMAIN pending : pending[i] # m
    /\ \A i \in DOMAIN acked : acked[i] # m
    /\ m \notin lost
    /\ pending' = Append(pending, m)
    /\ UNCHANGED <<acked, lost>>

Acknowledge ==
    /\ pending # <<>>
    /\ acked' = Append(acked, Head(pending))
    /\ pending' = Tail(pending)
    /\ UNCHANGED lost

GiveUp ==
    /\ pending # <<>>
    /\ lost' = lost \cup {Head(pending)}
    /\ pending' = Tail(pending)
    /\ UNCHANGED acked

Next == (\E m \in Messages : Enqueue(m)) \/ Acknowledge \/ GiveUp

Spec == Init /\ [][Next]_<<pending, acked, lost>>
===============================================================================
