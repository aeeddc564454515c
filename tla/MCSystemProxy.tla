---------------------------- MODULE MCSystemProxy ----------------------------
(* Instance of SystemProxy for TLC: callers, services and addresses are     *)
(* alike.                                                                   *)
EXTENDS SystemProxy, TLC

Alike == Permutations(Callers) \cup Permutations(Services) \cup Permutations(Addresses)
=============================================================================
