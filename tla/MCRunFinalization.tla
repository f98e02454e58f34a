------------------------- MODULE MCRunFinalization -------------------------
(***************************************************************************)
(* Instances of RunFinalization for TLC.                                   *)
(***************************************************************************)
EXTENDS RunFinalization, TLC

\* Streams and workstreams are interchangeable; runs are numbered in order.
Symmetry == Permutations(Streams) \cup Permutations(Workstreams)
=============================================================================
