----------------------------- MODULE MCLogFile ------------------------------
(***************************************************************************)
(* LogFile for TLC: three lines of five bytes, on two days, into files of  *)
(* three: a line ends in another file than it began in, of the same day or *)
(* the next, and a process that is started again finds files that are      *)
(* empty, half full, exactly full and over full.                           *)
(***************************************************************************)
EXTENDS LogFile
=============================================================================
