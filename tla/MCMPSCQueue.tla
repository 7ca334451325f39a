---------------------------- MODULE MCMPSCQueue ----------------------------
(***************************************************************************)
(* MPSCQueue for TLC: two producers and four items around a ring of two    *)
(* slots, so that the ring fills, wraps and overflows; drains of one item, *)
(* so that a drain can stop short.                                         *)
(***************************************************************************)
EXTENDS MPSCQueue

=============================================================================
