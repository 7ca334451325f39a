---------------------------- MODULE MCTcpClient -----------------------------
(***************************************************************************)
(* TcpClient for TLC: three sockets, so that a connection can be closed    *)
(* and replaced inside its own callback; up to three retry timers, so that *)
(* stale ones outnumber the one that counts; delays 1, 2, 3, so that the   *)
(* last doubling is cut off as 16 s to 30 s is.                            *)
(***************************************************************************)
EXTENDS TcpClient
=============================================================================
