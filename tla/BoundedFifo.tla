----------------------------- MODULE BoundedFifo -----------------------------
(***************************************************************************)
(* What MPSCQueue promises: a queue of bounded length that hands its items *)
(* to one consumer in the order in which they were accepted, and refuses   *)
(* the newest item, and only then, when it is full.                        *)
(***************************************************************************)
EXTENDS Integers, Sequences

CONSTANTS
    Items,          \* what may be queued
    Bound           \* the queue's capacity

VARIABLES
    q,              \* accepted and not yet taken, oldest first
    out,            \* taken by the consumer, in order
    refused         \* how many items were refused

vars == <<q, out, refused>>

Init == q = <<>> /\ out = <<>> /\ refused = 0

Accept(v) ==
    /\ Len(q) < Bound
    /\ q' = Append(q, v)
    /\ UNCHANGED <<out, refused>>

Refuse ==
    /\ Len(q) = Bound
    /\ refused' = refused + 1
    /\ UNCHANGED <<q, out>>

Take(n) ==
    /\ out' = out \o SubSeq(q, 1, n)
    /\ q' = SubSeq(q, n + 1, Len(q))
    /\ UNCHANGED refused

Next ==
    \/ \E v \in Items : Accept(v)
    \/ Refuse
    \/ \E n \in 1 .. Len(q) : Take(n)

Spec == Init /\ [][Next]_vars

=============================================================================
