-------------------------- MODULE MCServerRegistry --------------------------
(***************************************************************************)
(* Instance of ServerRegistry for TLC: one JVM with two servers, and two       *)
(* others that reap.                                                       *)
(***************************************************************************)
EXTENDS ServerRegistry, TLC

RegistrySymmetry == Permutations(Servers) \cup Permutations(Reapers)
=============================================================================
