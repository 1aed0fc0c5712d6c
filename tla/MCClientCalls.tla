---------------------------- MODULE MCClientCalls ----------------------------
(***************************************************************************)
(* Instance of ClientCalls for TLC: no timeout, one shorter and one longer than *)
(* Core's default for an attempt.                                           *)
(***************************************************************************)
EXTENDS ClientCalls
=============================================================================
