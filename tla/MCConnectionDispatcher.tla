------------------------ MODULE MCConnectionDispatcher ------------------------
(***************************************************************************)
(* Instances of ConnectionDispatcher for TLC.                               *)
(***************************************************************************)
EXTENDS DispatcherRefinement, TLC

\* Connections, workers and producers are interchangeable.
Symmetry ==
  Permutations(Connections) \cup Permutations(Workers) \cup Permutations(Producers)
=============================================================================
