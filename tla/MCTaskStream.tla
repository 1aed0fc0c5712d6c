---------------------------- MODULE MCTaskStream ----------------------------
(***************************************************************************)
(* Instance of TaskStream for TLC: two coroutines poll one stream.          *)
(***************************************************************************)
EXTENDS TaskStream
=============================================================================
