------------------------------ MODULE MCObjects ------------------------------
(* An instance of Objects for TLC.                                             *)
EXTENDS Objects

Symmetric ==
  UNION {Permutations(S) : S \in {Threads, Buffers, Kernels, Addresses}}
=============================================================================
