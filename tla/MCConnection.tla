---------------------------- MODULE MCConnection ----------------------------
(***************************************************************************)
(* Connection for TLC: a send buffer of one byte and three bytes to send,  *)
(* so that writes are partial and the mark of two is crossed from below;   *)
(* two bytes to receive, so that one can arrive while another is read.     *)
(***************************************************************************)
EXTENDS Connection

=============================================================================
