------------------------------- MODULE MCPump -------------------------------
(***************************************************************************)
(* Instance of Pump for TLC: one request under NonCancellable, as worker     *)
(* completions are, and one that may be cancelled.  No symmetry.            *)
(***************************************************************************)
EXTENDS Pump
=============================================================================
