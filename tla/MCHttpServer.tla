---------------------------- MODULE MCHttpServer ----------------------------
(***************************************************************************)
(* HttpServer for TLC.  Five lines are enough for two requests, the first  *)
(* or the second with a header, for a request behind one that closes the   *)
(* connection, and for a refused line in either state.                     *)
(***************************************************************************)
EXTENDS HttpServer
=============================================================================
