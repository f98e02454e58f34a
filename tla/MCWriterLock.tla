---------------------------- MODULE MCWriterLock ----------------------------
(***************************************************************************)
(* Instances of WriterLock for TLC.                                        *)
(***************************************************************************)
EXTENDS WriterLock, TLC

Symmetry == Permutations(Daemon) \cup Permutations(Pid)
=============================================================================
