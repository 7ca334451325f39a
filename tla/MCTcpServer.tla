---------------------------- MODULE MCTcpServer -----------------------------
(***************************************************************************)
(* TcpServer for TLC: zero, one or two subLoops; two descriptors for four  *)
(* connections, so that a number is reused while the removal of its former *)
(* owner is still queued.                                                  *)
(***************************************************************************)
EXTENDS TcpServer

=============================================================================
