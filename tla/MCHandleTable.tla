--------------------------- MODULE MCHandleTable ---------------------------
(***************************************************************************)
(* Model-checking instance of HandleTable: two threads, few objects, and a  *)
(* generation counter small enough to wrap within them.                     *)
(***************************************************************************)
EXTENDS HandleTable, TLC

ThreadSymmetry == Permutations(Threads)
=============================================================================
