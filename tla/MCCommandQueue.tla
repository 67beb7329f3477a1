---------------------------- MODULE MCCommandQueue ----------------------------
(* Instances of CommandQueue for TLC: one host thread calling on every queue,  *)
(* or two threads that share every queue or have queues of their own.          *)
EXTENDS CommandQueue, TLC

CONSTANTS t1, t2, q1, q2, q3

Shared == [t \in Threads |-> Queues]
Private == (t1 :> {q1, q2}) @@ (t2 :> {q3})

\* Sound where one thread may call on both.
QueueSymmetry == Permutations({q1, q2})
=============================================================================
