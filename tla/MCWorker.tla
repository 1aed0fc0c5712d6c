------------------------------ MODULE MCWorker ------------------------------
(***************************************************************************)
(* Instance of Worker for TLC: two streams, which behave alike, stand for the *)
(* three of the code.  No symmetry, as liveness is checked too.             *)
(***************************************************************************)
EXTENDS Worker
=============================================================================
