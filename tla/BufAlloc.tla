------------------------------ MODULE BufAlloc ------------------------------
(***************************************************************************)
(* The region allocator of the pthread device (devices/bufalloc.c and      *)
(* allocate_aligned_buffer in devices/pthread/pthread.c, when pocl is      *)
(* built with CUSTOM_BUFFER_ALLOCATOR).                                    *)
(*                                                                         *)
(* A region is a list of chunks in address order; its last chunk, the      *)
(* sentinel, is the free space at its end.  Allocating holds one lock      *)
(* throughout, and a region's own lock for each of its steps; freeing      *)
(* holds only the region's lock, so any number of buffers may be freed     *)
(* between two steps of an allocation.                                     *)
(***************************************************************************)
EXTENDS Integers, Sequences, SequencesExt

CONSTANTS
  Alignment,      \* MAX_EXTENDED_ALIGNMENT
  MaxChunks,      \* MAX_CHUNKS_IN_REGION: 64
  MinRegion,      \* NEW_REGION_MIN_MB: 10
  ExtraSize,      \* ADDITIONAL_ALLOCATION_MAX_MB: 100
  Multiple,       \* ALLOCATION_MULTIPLE: 32
  Modulus,        \* size_t wraps here: 2^32 on the Zynq
  Sizes,          \* bound: the sizes clCreateBuffer lets through, never 0
  MaxRegions,     \* bound: regions
  Stride          \* where posix_memalign puts regions: multiples of this

ASSUME RegionAssumption ==
  /\ {Alignment, Stride, ExtraSize, MinRegion, Modulus} \subseteq Nat \ {0}
  /\ {MaxChunks, Multiple} \subseteq Nat \ {0, 1}
  /\ Sizes \subseteq Nat \ {0} /\ MaxRegions \in Nat
  /\ Stride % Alignment = 0

VARIABLES
  region,   \* region[r]: its memory, chunks, and count of unused chunk_infos
  job,      \* the allocation in progress; job.at = "none" if there is none
  buffers,  \* the buffers the program has, as [start, size]
  failed,   \* the assert of allocate_aligned_buffer failed
  nextReadFirst   \* whether the compiler evaluates chunk->next before the inner
                  \* call of coalesce_chunks: C leaves it open, a build fixes it

vars == <<region, job, buffers, failed, nextReadFirst>>

Min2(x, y) == IF x < y THEN x ELSE y
Max2(x, y) == IF x < y THEN y ELSE x

NoJob == [at |-> "none"]
Step(s, r, size, fresh) == [at |-> s, r |-> r, size |-> size, fresh |-> fresh]
At(s) == job.at = s /\ ~failed

Chunk(start, size, allocated) == [start |-> start, size |-> size, allocated |-> allocated]
End(c) == c.start + c.size
RoundUp(address) == ((address + Alignment - 1) \div Alignment) * Alignment
-----------------------------------------------------------------------------
\* Mutant: the alignment is forgotten.
FitsUnaligned(c, size) == End(c) > c.start + size
\* chunk_slack: an exact fit does not count.
Fits(c, size) == End(c) > RoundUp(c.start) + size

\* append_new_chunk: the chunk is cut off the front of the sentinel.
Appended(chunks, size) ==
  LET sentinel == Last(chunks)
      start == RoundUp(sentinel.start)
  IN  Front(chunks) \o <<Chunk(start, size, TRUE),
                         Chunk(start + size, End(sentinel) - (start + size), FALSE)>>

\* Mutant: the allocated flag is not looked at.
ReusableAny(chunks, size) == {i \in 1..(Len(chunks) - 1) : Fits(chunks[i], size)}
\* The unallocated chunks before the sentinel that are large enough.
Reusable(chunks, size) ==
  {i \in 1..(Len(chunks) - 1) : ~chunks[i].allocated /\ Fits(chunks[i], size)}

\* Mutant: an allocated neighbour is merged as well.
CoalesceAllocated(chunks, i, j) ==
  IF chunks[i].start <= chunks[j].start
  THEN RemoveAt([chunks EXCEPT ![i].size = End(chunks[j]) - chunks[i].start], j)
  ELSE chunks
\* coalesce_chunks of the chunks at positions i and j: the second one goes.
Coalesce(chunks, i, j) ==
  IF ~chunks[i].allocated /\ ~chunks[j].allocated /\ chunks[i].start <= chunks[j].start
  THEN RemoveAt([chunks EXCEPT ![i].size = End(chunks[j]) - chunks[i].start], j)
  ELSE chunks

\* Mutant: only the chunk before is merged.
FreedBackward(chunks, i) ==
  LET s == [chunks EXCEPT ![i].allocated = FALSE]
  IN  Coalesce(s, IF i = 1 THEN Len(s) ELSE i - 1, i)
\* The chunks once the i-th is free: merged with the one before (prev of the
\* head is the sentinel), then with the one after.  The link to the one after
\* is lost if it is read once the chunk has been merged away.
Freed(chunks, i) ==
  LET s == [chunks EXCEPT ![i].allocated = FALSE]
      back == Coalesce(s, IF i = 1 THEN Len(s) ELSE i - 1, i)
      merged == Len(back) < Len(s)
  IN  CASE merged /\ nextReadFirst  -> Coalesce(back, i - 1, i)
        [] merged /\ ~nextReadFirst -> back
        [] OTHER                    -> Coalesce(back, i, i + 1)
-----------------------------------------------------------------------------
\* The steps of allocate_aligned_buffer, which holds mem_regions_lock.
Finish(b) == buffers' = buffers \cup {b} /\ job' = NoJob

Malloc(size) ==
  /\ At("none")
  /\ job' = IF region = <<>> THEN Step("grow", 0, size, FALSE) ELSE Step("append", 1, size, FALSE)
  /\ UNCHANGED <<region, buffers, failed, nextReadFirst>>

\* Mutant: the descriptor stays in the free list.
AppendKeepsDescriptor ==
  /\ At("append")
  /\ LET r == job.r
         chunks == region[r].chunks
     IN  IF Fits(Last(chunks), job.size) /\ region[r].spare > 0
         THEN /\ region' = [region EXCEPT ![r].chunks = Appended(@, job.size)]
              /\ Finish([start |-> RoundUp(Last(chunks).start), size |-> job.size])
         ELSE job' = [job EXCEPT !.at = "reuse"] /\ UNCHANGED <<region, buffers>>
  /\ UNCHANGED <<failed, nextReadFirst>>
\* alloc_buffer_from_region: first at the end of the region, ...
Append_New_Chunk ==
  /\ At("append")
  /\ LET r == job.r
         chunks == region[r].chunks
     IN  IF Fits(Last(chunks), job.size) /\ region[r].spare > 0
         THEN /\ region' = [region EXCEPT ![r].chunks = Appended(@, job.size), ![r].spare = @ - 1]
              /\ Finish([start |-> RoundUp(Last(chunks).start), size |-> job.size])
         ELSE job' = [job EXCEPT !.at = "reuse"] /\ UNCHANGED <<region, buffers>>
  /\ UNCHANGED <<failed, nextReadFirst>>

\* ... then the first chunk that was freed and is large enough; it is not cut.
Reuse(i) ==
  /\ At("reuse")
  /\ LET reusable == Reusable(region[job.r].chunks, job.size)
     IN  i \in reusable /\ \A j \in reusable : i <= j
  /\ region' = [region EXCEPT ![job.r].chunks[i].allocated = TRUE]
  /\ Finish([start |-> region[job.r].chunks[i].start, size |-> job.size])
  /\ UNCHANGED <<failed, nextReadFirst>>

\* The region has no room: alloc_buffer goes to the next one; after the last
\* one a region is created, and a new region must have room.
NoRoom ==
  /\ At("reuse")
  /\ Reusable(region[job.r].chunks, job.size) = {}
  /\ IF job.fresh
     THEN failed' = TRUE /\ UNCHANGED job
     ELSE /\ job' = IF job.r < Len(region) THEN [job EXCEPT !.at = "append", !.r = @ + 1]
                                           ELSE [job EXCEPT !.at = "grow"]
          /\ UNCHANGED failed
  /\ UNCHANGED <<region, buffers, nextReadFirst>>

\* Mutant: no margin.
RegionSizeTight(size) == Max2(size, MinRegion)
\* In size_t: "Fallback to the minimum size in case of overflow."
RegionSize(size) ==
  Max2(Max2(Min2((size + ExtraSize) % Modulus, (size * Multiple) % Modulus), size), MinRegion)
\* The size that is asked for overflows.
Overflows(size) == size + ExtraSize >= Modulus \/ size * Multiple >= Modulus

\* posix_memalign never hands out memory twice: regions fit between multiples
\* of Stride.
ASSUME PlacementAssumption == \A size \in Sizes : RegionSize(size) <= Stride

\* No address and size add up to Modulus in chunk_slack: the top of the address
\* space is the kernel's, and a buffer is at most a quarter of the memory.
ASSUME AddressAssumption == \A size \in Sizes : (MaxRegions + 1) * Stride + size < Modulus

\* A region is created; if there is no memory for a large one, then for one
\* of the buffer's size.
Grow(size) ==
  /\ At("grow")
  /\ Len(region) < MaxRegions
  /\ size \in {RegionSize(job.size), job.size}
  /\ LET base == (Len(region) + 1) * Stride
     IN  region' = Append(region, [base |-> base, size |-> size, spare |-> MaxChunks - 1,
                                   chunks |-> <<Chunk(base, size, FALSE)>>])
  /\ job' = Step("append", Len(region) + 1, job.size, TRUE)
  /\ UNCHANGED <<buffers, failed, nextReadFirst>>

\* There is no memory at all: ENOMEM.
GrowFails ==
  /\ At("grow")
  /\ job' = NoJob
  /\ UNCHANGED <<region, buffers, failed, nextReadFirst>>

\* free_buffer: the first chunk that starts there, whichever region has it.
Free(b) ==
  /\ b \in buffers /\ ~failed
  /\ \E r \in DOMAIN region :
       LET chunks == region[r].chunks
           there == {i \in DOMAIN chunks : chunks[i].start = b.start}
       IN  \E i \in there :
             /\ \A j \in there : i <= j
             /\ LET left == Freed(chunks, i)
                IN  region' = [region EXCEPT ![r].chunks = left,
                                             ![r].spare = @ + (Len(chunks) - Len(left))]
  /\ buffers' = buffers \ {b}
  /\ UNCHANGED <<job, failed, nextReadFirst>>
-----------------------------------------------------------------------------
Init ==
  /\ region = <<>> /\ job = NoJob /\ buffers = {} /\ failed = FALSE
  /\ nextReadFirst \in BOOLEAN

Next ==
  \/ \E size \in Sizes : Malloc(size)
  \/ Append_New_Chunk \/ NoRoom \/ GrowFails
  \/ \E i \in 1..MaxChunks : Reuse(i)
  \/ \E size \in {RegionSize(s) : s \in Sizes} \cup Sizes : Grow(size)
  \/ \E b \in buffers : Free(b)

Spec == Init /\ [][Next]_vars
-----------------------------------------------------------------------------
\* Properties.
TypeOK ==
  /\ region \in Seq([base : Nat, size : Nat, spare : 0..MaxChunks,
                     chunks : Seq([start : Nat, size : Int, allocated : BOOLEAN])])
  /\ job \in {NoJob} \cup [at : {"append", "reuse", "grow"}, r : 0..MaxRegions, size : Sizes,
                           fresh : BOOLEAN]
  /\ buffers \subseteq [start : Nat, size : Sizes]
  /\ {failed, nextReadFirst} \subseteq BOOLEAN

\* The chunks of a region lie in it in address order, with nothing but
\* alignment padding between them; the head is at its base (uninit frees that
\* address), the sentinel is at its end, is never allocated (the assert of
\* append_new_chunk) and always has a byte.
Tiled(m) ==
  /\ m.chunks # <<>>
  /\ m.chunks[1].start = m.base /\ End(Last(m.chunks)) = m.base + m.size
  /\ ~Last(m.chunks).allocated
  /\ \A i \in DOMAIN m.chunks : m.chunks[i].size > 0
  /\ \A i \in 1..(Len(m.chunks) - 1) :
       /\ m.chunks[i].start % Alignment = 0
       /\ m.chunks[i + 1].start - End(m.chunks[i]) \in 0..(Alignment - 1)
  /\ Len(m.chunks) + m.spare = MaxChunks
RegionsTiled == \A r \in DOMAIN region : Tiled(region[r])

\* The allocated chunks are the buffers in use: none leaks, none is shared,
\* and none is smaller than its buffer.
AllocatedChunks ==
  {x \in (DOMAIN region) \X (1..MaxChunks) :
     LET chunks == region[x[1]].chunks IN x[2] \in DOMAIN chunks /\ chunks[x[2]].allocated}
ChunksAreBuffers ==
  /\ \A b \in buffers : \E x \in AllocatedChunks :
       LET c == region[x[1]].chunks[x[2]] IN c.start = b.start /\ c.size >= b.size
  /\ \A x \in AllocatedChunks : \E b \in buffers : b.start = region[x[1]].chunks[x[2]].start

\* free_chunk: "Successive unallocated chunks in the region, if found, are
\* merged to form larger unallocated chunks."  So they are in a build that
\* reads chunk->next first; one that does not leaves the chunk after a merged
\* one apart, but loses no chunk: the other properties hold for both.
FreeChunksMerged == nextReadFirst =>
  \A r \in DOMAIN region : \A i \in 1..(Len(region[r].chunks) - 1) :
    region[r].chunks[i].allocated \/ region[r].chunks[i + 1].allocated

\* A new region has room for the buffer it was created for, unless it is of
\* exactly the buffer's size: since there was no memory for the size the code
\* asks for first, or since that size overflowed.
NewRegionHasRoom ==
  failed => /\ region[Len(region)].size = job.size
            /\ job.size < RegionSize(job.size) \/ Overflows(job.size)

\* The allocator implements the abstract heap.
Heap == INSTANCE BufferHeap WITH Memory <- Stride..((MaxRegions + 1) * Stride - 1)
ImplementsHeap == Heap!Spec
=============================================================================
