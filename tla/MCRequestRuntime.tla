-------------------------- MODULE MCRequestRuntime --------------------------
(***************************************************************************)
(* Instance of RequestRuntime for TLC: two calls that may use the same       *)
(* request id.  No symmetry, as liveness is checked too.                    *)
(***************************************************************************)
EXTENDS RequestRuntime
=============================================================================
