---------------------------- MODULE MCKernelCache ----------------------------
(* Instances of KernelCache for TLC: three actors in one process and one in      *)
(* another, or one actor.                                                      *)
EXTENDS KernelCache, TLC

CONSTANTS a1, a2, a3, a4, p1, p2

TwoProcesses == (a1 :> p1) @@ (a2 :> p1) @@ (a3 :> p1) @@ (a4 :> p2)
OneProcess == a1 :> p1
OnceEach == [cached |-> 3, includes |-> 2, off |-> 2]
Again == [includes |-> 2]
=============================================================================
