-------------------------- MODULE MCCompletionQueue --------------------------
(***************************************************************************)
(* Instance of CompletionQueue for TLC: two JVM threads, each of which may   *)
(* poll either of two pollers.  No symmetry, as liveness is checked too.     *)
(***************************************************************************)
EXTENDS CompletionQueue
=============================================================================
