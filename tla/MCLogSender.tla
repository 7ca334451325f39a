---------------------------- MODULE MCLogSender -----------------------------
(***************************************************************************)
(* LogSender for TLC: two threads log three messages into a queue of two,  *)
(* so that one can be dropped.  A batch is one message, and with a drop    *)
(* report before it a round sends two: enough to cross the high-water mark *)
(* in one round and for the round to fail between them.  Two connections   *)
(* may be lost.                                                            *)
(***************************************************************************)
EXTENDS LogSender
=============================================================================
