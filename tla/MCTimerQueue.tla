---------------------------- MODULE MCTimerQueue ----------------------------
(***************************************************************************)
(* TimerQueue for TLC: three timers, so that one batch can hold two while  *)
(* a third is added or cancelled; delays of 0 and 2, so that deadlines are *)
(* both immediate and ahead, and one due later can be created earlier.     *)
(***************************************************************************)
EXTENDS TimerQueue

=============================================================================
