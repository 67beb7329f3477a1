----------------------------- MODULE BufferHeap -----------------------------
(***************************************************************************)
(* What a device's buffer allocator promises: buffers that are aligned and *)
(* share no byte, wherever it puts them, and nothing about fragmentation.  *)
(***************************************************************************)
EXTENDS Integers

CONSTANTS
  Alignment,
  Sizes,      \* the sizes that are asked for
  Memory      \* the addresses buffers may occupy

VARIABLE buffers   \* the buffers in use, as [start, size]

Disjoint(b, d) == b.start + b.size <= d.start \/ d.start + d.size <= b.start

Allocate(b) ==
  /\ b.start % Alignment = 0
  /\ b.start..(b.start + b.size - 1) \subseteq Memory
  /\ \A d \in buffers : Disjoint(b, d)
  /\ buffers' = buffers \cup {b}

Free(b) ==
  /\ b \in buffers
  /\ buffers' = buffers \ {b}

Init == buffers = {}

Next == \/ \E start \in Memory, size \in Sizes : Allocate([start |-> start, size |-> size])
        \/ \E b \in buffers : Free(b)

Spec == Init /\ [][Next]_buffers
=============================================================================
