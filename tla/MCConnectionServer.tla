-------------------------- MODULE MCConnectionServer --------------------------
(***************************************************************************)
(* Model-checking instances of the connection server.                      *)
(***************************************************************************)
EXTENDS ConnectionServer, TLC

Symmetry == Permutations(Connections) \cup Permutations(Stoppers)
=============================================================================
