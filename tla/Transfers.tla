------------------------------ MODULE Transfers ------------------------------
(***************************************************************************)
(* The checks of a copy between buffers before it is enqueued: the ranges  *)
(* lie in their buffers, and do not overlap where the buffers share        *)
(* memory.  size_t wraps at Modulus.                                       *)
(***************************************************************************)
EXTENDS Integers

CONSTANTS
  Modulus,  \* 2^64
  NoParent

\* A sum and a difference of two values of size_t, either of which wraps at
\* most once.
Plus(m, n) == IF m + n < Modulus THEN m + n ELSE m + n - Modulus
Minus(m, n) == IF n <= m THEN m - n ELSE m - n + Modulus

\* A buffer: size, parent, and host, its mem_host_ptr; parentHost is that of
\* its parent.
InBounds(buffer, offset, size) ==
  offset <= buffer.size /\ size <= buffer.size /\ Plus(offset, size) <= buffer.size

\* b lies in the range of the given size that starts at a.
LiesInside(b, a, size) == a <= b /\ b <= Minus(Plus(a, size), 1)
Overlap(a, b, size) == LiesInside(b, a, size) \/ LiesInside(a, b, size)
InParent(buffer, offset) == Plus(Minus(buffer.host, buffer.parentHost), offset)

\* pocl_buffers_overlap; same says that both are the same buffer.
BuffersOverlap(same, src, dst, from, to, size) ==
  \/ same /\ Overlap(from, to, size)
  \/ /\ src.parent # NoParent /\ src.parent = dst.parent
     /\ Overlap(InParent(src, from), InParent(dst, to), size)

\* clEnqueueCopyBuffer goes on to enqueue the command.
CopyAccepted(same, src, dst, from, to, size) ==
  /\ size # 0
  /\ InBounds(src, from, size) /\ InBounds(dst, to, size)
  /\ ~BuffersOverlap(same, src, dst, from, to, size)
=============================================================================
