---------------------------- MODULE MCEventLoop ----------------------------
(***************************************************************************)
(* EventLoop for TLC.  The constants are given as model values in the      *)
(* configurations: two foreign threads race for one loop, one I/O channel  *)
(* competes with the wakeup channel for the events[] array.                *)
(***************************************************************************)
EXTENDS EventLoop

=============================================================================
