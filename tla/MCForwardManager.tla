-------------------------- MODULE MCForwardManager --------------------------
(***************************************************************************)
(* ForwardManager on small instances.                                      *)
(***************************************************************************)
EXTENDS ForwardManager, TLC

\* Calls and connections of one kind are interchangeable.
Symmetry == Permutations(Gens) \cup Permutations(Conns) \cup Permutations(Stops)
=============================================================================
