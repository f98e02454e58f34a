------------------------ MODULE MCResourceMutation ------------------------
(***************************************************************************)
(* Instances of ResourceMutation for TLC.                                  *)
(***************************************************************************)
EXTENDS ResourceMutation, TLC

Symmetry == Permutations(Runs) \cup Permutations(Calls) \cup Permutations(Files)
=============================================================================
