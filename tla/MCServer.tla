------------------------------- MODULE MCServer -------------------------------
(* Instances of Server for TLC. *)
EXTENDS Server, TLC

Symmetric == Permutations(Conn) \cup Permutations(Tid)
===============================================================================
