--------------------------- MODULE BufAlloc_proofs ---------------------------
(* Proofs about BufAlloc, for any sizes, regions and number of descriptors.    *)
EXTENDS BufAlloc, SequenceTheorems, TLAPS

-----------------------------------------------------------------------------
\* The chunk records.
Chunks == [start : Nat, size : Int, allocated : BOOLEAN]

\* Chunk i and the one after it: aligned, and only padding in between.
Adjoins(c, i) ==
  /\ c[i].start % Alignment = 0
  /\ c[i + 1].start - End(c[i]) \in 0..(Alignment - 1)
\* The chunks c lie in order between base and base + size: what Tiled says, and
\* that no two overlap, near or far, and that the sentinel starts at an aligned
\* address or right after the chunk before.
Laid(c, base, size) ==
  /\ c \in Seq(Chunks) /\ Len(c) >= 1
  /\ c[1].start = base /\ End(c[Len(c)]) = base + size
  /\ ~c[Len(c)].allocated
  /\ \A i \in 1..Len(c) : c[i].size > 0
  /\ \A i \in 1..(Len(c) - 1) : Adjoins(c, i)
  /\ \A i, j \in 1..Len(c) : i < j => End(c[i]) <= c[j].start
  /\ \/ c[Len(c)].start % Alignment = 0
     \/ Len(c) > 1 /\ c[Len(c)].start = End(c[Len(c) - 1])

\* The r-th region.
Regions == [base : Nat, size : Nat, spare : 0..MaxChunks, chunks : Seq(Chunks)]
RegionOK(m, r) ==
  /\ m.base = r * Stride /\ m.size \in 1..Stride
  /\ Len(m.chunks) + m.spare = MaxChunks
  /\ Laid(m.chunks, m.base, m.size)

\* The chunks of c that are in use.
InUse(c) == {c[i] : i \in {j \in 1..Len(c) : c[j].allocated}}

\* The allocation in progress: where it is, and that a new region is untouched
\* until its allocation ends.
JobOK ==
  /\ job \in {NoJob} \cup [at : {"append", "reuse", "grow"}, r : 0..MaxRegions, size : Sizes,
                           fresh : BOOLEAN]
  /\ job.at \in {"append", "reuse"} => job.r \in 1..Len(region)
  /\ job.at # "none" /\ job.fresh =>
       /\ job.r = Len(region) /\ job.at # "grow"
       /\ region[job.r].size \in {RegionSize(job.size), job.size}
       /\ region[job.r].spare = MaxChunks - 1
       /\ region[job.r].chunks = <<Chunk(region[job.r].base, region[job.r].size, FALSE)>>
       /\ job.at = "reuse" => /\ region[job.r].size = job.size
                              /\ job.size < RegionSize(job.size) \/ Overflows(job.size)
  /\ failed => job.at # "none" /\ job.fresh /\ job.at = "reuse"

BuffersOK ==
  /\ buffers \subseteq [start : Nat, size : Sizes]
  /\ \A b, d \in buffers : b.start = d.start => b = d
  /\ \A b \in buffers : \E r \in 1..Len(region) : \E c \in InUse(region[r].chunks) :
       c.start = b.start /\ c.size >= b.size
  /\ \A r \in 1..Len(region) : \A c \in InUse(region[r].chunks) :
       \E b \in buffers : b.start = c.start

RegionsOK ==
  /\ region \in Seq(Regions)
  /\ Len(region) <= MaxRegions
  /\ \A r \in 1..Len(region) : RegionOK(region[r], r)

\* One of two neighbours is in use; and so of all neighbours.
Apart(c, k) == c[k].allocated \/ c[k + 1].allocated
AllApart(c) == \A k \in 1..(Len(c) - 1) : Apart(c, k)
Merged == nextReadFirst => \A r \in 1..Len(region) : AllApart(region[r].chunks)

Inv ==
  /\ {failed, nextReadFirst} \subseteq BOOLEAN
  /\ RegionsOK /\ JobOK /\ BuffersOK /\ Merged
-----------------------------------------------------------------------------
(* Addresses.                                                                  *)

\* Division by a number that is not fixed, as the solver needs to be told it.
LEMMA Division ==
  ASSUME NEW x \in Nat, NEW a \in Nat, a >= 1
  PROVE  /\ x \div a \in Nat /\ x % a \in 0..(a - 1)
         /\ x = (x \div a) * a + (x % a)
OBVIOUS

LEMMA MultipleOf ==
  ASSUME NEW q \in Nat, NEW a \in Nat, a >= 1
  PROVE  q * a \in Nat /\ (q * a) % a = 0 /\ (q * a) \div a = q
OBVIOUS

\* Rounding an address up reaches the next aligned one.
LEMMA RoundUpAligns ==
  ASSUME NEW address \in Nat
  PROVE  /\ RoundUp(address) \in Nat /\ RoundUp(address) % Alignment = 0
         /\ RoundUp(address) \in address..(address + Alignment - 1)
         /\ address % Alignment = 0 => RoundUp(address) = address
<1>1. Alignment \in Nat /\ Alignment >= 1
  BY RegionAssumption
<1> DEFINE n == address + Alignment - 1
           q == n \div Alignment
<1>2. n \in Nat /\ RoundUp(address) = q * Alignment
  BY <1>1 DEF RoundUp
<1> HIDE DEF n
<1>3. q \in Nat /\ n % Alignment \in 0..(Alignment - 1) /\ n = q * Alignment + (n % Alignment)
  BY <1>1, <1>2, Division
<1>4. q * Alignment \in Nat /\ (q * Alignment) % Alignment = 0
  BY <1>1, <1>3, MultipleOf
<1>5. q * Alignment \in address..(address + Alignment - 1)
  BY <1>1, <1>3, <1>4 DEF n
<1>6. ASSUME address % Alignment = 0
      PROVE  q * Alignment = address
  <2> DEFINE p == address \div Alignment
  <2>1. p \in Nat /\ address = p * Alignment
    BY <1>1, <1>6, Division
  <2> HIDE DEF p, q
  <2>2. q * Alignment - p * Alignment = (q - p) * Alignment
    BY <1>1, <1>3, <2>1
  <2>3. (q - p) * Alignment \in 0..(Alignment - 1)
    BY <1>1, <1>5, <1>4, <2>1, <2>2
  <2>4. q - p <= 0
    BY <1>1, <1>3, <2>1, <2>3
  <2>5. q - p >= 0
    BY <1>1, <1>3, <2>1, <2>3
  <2>6. QED
    BY <1>3, <2>1, <2>4, <2>5
<1>7. QED
  BY <1>2, <1>4, <1>5, <1>6

\* Where a region begins: aligned, and beyond the end of those before it.
LEMMA Placement ==
  ASSUME NEW r \in Nat
  PROVE  /\ r * Stride \in Nat /\ (r * Stride) % Alignment = 0
         /\ \A q \in Nat : r < q => r * Stride + Stride <= q * Stride
<1>1. Alignment \in Nat /\ Alignment >= 1 /\ Stride \in Nat /\ Stride % Alignment = 0
  BY RegionAssumption
<1> DEFINE k == Stride \div Alignment
<1>2. k \in Nat /\ Stride = k * Alignment
  BY <1>1, Division
<1> HIDE DEF k
<1>3. r * k \in Nat /\ r * Stride = (r * k) * Alignment
  BY <1>1, <1>2
<1>4. (r * Stride) % Alignment = 0 /\ r * Stride \in Nat
  BY <1>1, <1>3, MultipleOf
<1>5. ASSUME NEW q \in Nat, r < q
      PROVE  r * Stride + Stride <= q * Stride
  <2>1. PICK n \in Nat : q = r + 1 + n
    BY <1>5
  <2>2. q * Stride = r * Stride + Stride + n * Stride /\ n * Stride \in Nat
    BY <1>1, <2>1
  <2>3. QED
    BY <1>1, <1>4, <2>2
<1>6. QED
  BY <1>4, <1>5

-----------------------------------------------------------------------------
(* Lists of chunks.                                                            *)

LEMMA ChunkFields ==
  ASSUME NEW s \in Nat, NEW n \in Int, NEW a \in BOOLEAN
  PROVE  /\ Chunk(s, n, a) \in Chunks /\ Chunk(s, n, a).start = s /\ Chunk(s, n, a).size = n
         /\ Chunk(s, n, a).allocated = a /\ End(Chunk(s, n, a)) = s + n
BY DEF Chunk, Chunks, End

\* What the chunks of a list are.
LEMMA ChunksIn ==
  ASSUME NEW c \in Seq(Chunks), NEW i \in 1..Len(c)
  PROVE  /\ c[i] \in Chunks /\ c[i].start \in Nat /\ c[i].size \in Int /\ c[i].allocated \in BOOLEAN
         /\ End(c[i]) = c[i].start + c[i].size /\ End(c[i]) \in Int
<1>1. c[i] \in Chunks
  BY ElementOfSeq
<1>2. c[i].start \in Nat /\ c[i].size \in Int /\ c[i].allocated \in BOOLEAN
  BY <1>1 DEF Chunks
<1>3. QED
  BY <1>1, <1>2 DEF End

LEMMA ChunkChanged ==
  ASSUME NEW x \in Chunks, NEW n, NEW a
  PROVE  /\ [x EXCEPT !.size = n] = Chunk(x.start, n, x.allocated)
         /\ [x EXCEPT !.allocated = a] = Chunk(x.start, x.size, a)
<1>1. x = [start |-> x.start, size |-> x.size, allocated |-> x.allocated]
  BY DEF Chunks
<1>2. QED
  BY <1>1 DEF Chunk

\* Two neighbours made one.
Merge(c, i) == RemoveAt([c EXCEPT ![i].size = End(c[i + 1]) - c[i].start], i + 1)

LEMMA Removed ==
  ASSUME NEW S, NEW c \in Seq(S), NEW j \in 1..Len(c)
  PROVE  /\ RemoveAt(c, j) \in Seq(S) /\ Len(RemoveAt(c, j)) = Len(c) - 1
         /\ \A k \in 1..(Len(c) - 1) : RemoveAt(c, j)[k] = IF k < j THEN c[k] ELSE c[k + 1]
<1> DEFINE left == SubSeq(c, 1, j - 1)
           right == SubSeq(c, j + 1, Len(c))
<1>0. Len(c) \in Nat
  BY LenProperties
<1>1. left \in Seq(S) /\ Len(left) = j - 1 /\ \A k \in 1..(j - 1) : left[k] = c[k]
  BY <1>0, SubSeqProperties
<1>2. /\ right \in Seq(S) /\ Len(right) = Len(c) - j
      /\ \A k \in 1..(Len(c) - j) : right[k] = c[j + k]
  BY <1>0, SubSeqProperties
<1> HIDE DEF left, right
<1>3. /\ left \o right \in Seq(S) /\ Len(left \o right) = Len(left) + Len(right)
      /\ \A k \in 1..(Len(left) + Len(right)) :
           (left \o right)[k] = IF k <= Len(left) THEN left[k] ELSE right[k - Len(left)]
  BY <1>1, <1>2, ConcatProperties
<1>4. RemoveAt(c, j) = left \o right
  BY DEF RemoveAt, left, right
<1>5. ASSUME NEW k \in 1..(Len(c) - 1)
      PROVE  (left \o right)[k] = IF k < j THEN c[k] ELSE c[k + 1]
  <2>1. CASE k < j
    BY <1>0, <1>1, <1>2, <1>3, <2>1
  <2>2. CASE k >= j
    <3>1. (left \o right)[k] = right[k - (j - 1)]
      BY <1>0, <1>1, <1>2, <1>3, <2>2
    <3>2. k - (j - 1) \in 1..(Len(c) - j)
      BY <1>0, <2>2
    <3>3. right[k - (j - 1)] = c[j + (k - (j - 1))]
      BY <1>2, <3>2
    <3>4. j + (k - (j - 1)) = k + 1
      BY <1>0
    <3>5. QED
      BY <1>0, <2>2, <3>1, <3>3, <3>4
  <2>3. k < j \/ k >= j
    BY <1>0
  <2>4. QED
    BY <2>1, <2>2, <2>3
<1>6. (j - 1) + (Len(c) - j) = Len(c) - 1
  BY <1>0
<1>7. left \o right \in Seq(S) /\ Len(left \o right) = Len(c) - 1
  BY <1>1, <1>2, <1>3, <1>6
<1>8. QED
  BY <1>4, <1>5, <1>7

\* Two neighbours together.
LEMMA Spanned ==
  ASSUME NEW x \in Chunks, NEW y \in Chunks, x.size > 0, y.size > 0, End(x) <= y.start,
         NEW m, m = Chunk(x.start, End(y) - x.start, x.allocated)
  PROVE  m.start = x.start /\ End(m) = End(y) /\ m.size > 0
<1>1. x.start \in Nat /\ x.size \in Int /\ y.start \in Nat /\ y.size \in Int
  BY DEF Chunks
<1>2. m.start = x.start /\ m.size = (y.start + y.size) - x.start
  BY DEF Chunk, End
<1>3. x.start + x.size <= y.start
  BY DEF End
<1>4. m.size > 0 /\ m.start + m.size = y.start + y.size
  BY <1>1, <1>2, <1>3
<1>5. QED
  BY <1>2, <1>4 DEF End

LEMMA MergeFields ==
  ASSUME NEW c \in Seq(Chunks), NEW i \in 1..(Len(c) - 1)
  PROVE  /\ Merge(c, i) \in Seq(Chunks) /\ Len(Merge(c, i)) = Len(c) - 1
         /\ \A k \in 1..(Len(c) - 1) :
              Merge(c, i)[k] = IF k < i THEN c[k]
                               ELSE IF k = i THEN Chunk(c[i].start, End(c[i + 1]) - c[i].start, c[i].allocated)
                               ELSE c[k + 1]
<1>0. Len(c) \in Nat
  BY LenProperties
<1>1. i \in 1..Len(c) /\ i + 1 \in 1..Len(c)
  BY <1>0
<1> DEFINE m == Chunk(c[i].start, End(c[i + 1]) - c[i].start, c[i].allocated)
           s == [c EXCEPT ![i].size = End(c[i + 1]) - c[i].start]
<1>2. m \in Chunks
  BY <1>1, ChunksIn, ChunkFields
<1>3. s = [c EXCEPT ![i] = m]
  <2>1. c[i] \in Chunks
    BY <1>1, ChunksIn
  <2>2. [c[i] EXCEPT !.size = End(c[i + 1]) - c[i].start] = m
    BY <2>1, ChunkChanged
  <2>3. s = [c EXCEPT ![i] = [c[i] EXCEPT !.size = End(c[i + 1]) - c[i].start]]
    OBVIOUS
  <2>4. QED
    BY <2>2, <2>3
<1> HIDE DEF m, s
<1>4. s \in Seq(Chunks) /\ Len(s) = Len(c) /\ \A k \in 1..Len(c) : s[k] = IF k = i THEN m ELSE c[k]
  BY <1>1, <1>2, <1>3, ExceptSeq
<1>5. /\ RemoveAt(s, i + 1) \in Seq(Chunks) /\ Len(RemoveAt(s, i + 1)) = Len(c) - 1
      /\ \A k \in 1..(Len(c) - 1) : RemoveAt(s, i + 1)[k] = IF k < i + 1 THEN s[k] ELSE s[k + 1]
  BY <1>1, <1>4, Removed
<1>6. Merge(c, i) = RemoveAt(s, i + 1)
  BY DEF Merge, s
<1>7. \A k \in 1..(Len(c) - 1) : k \in 1..Len(c) /\ k + 1 \in 1..Len(c) /\ (k >= i + 1 => k + 1 # i)
  BY <1>0
<1>8. \A k \in 1..(Len(c) - 1) : RemoveAt(s, i + 1)[k] = IF k < i THEN c[k] ELSE IF k = i THEN m ELSE c[k + 1]
  BY <1>0, <1>4, <1>5, <1>7
<1>9. QED
  BY <1>5, <1>6, <1>8 DEF m


\* What merging two free neighbours leaves alone.
LEMMA MergeLaid ==
  ASSUME NEW c, NEW base \in Int, NEW size \in Int, Laid(c, base, size), NEW i \in 1..(Len(c) - 1),
         ~c[i].allocated, ~c[i + 1].allocated
  PROVE  Laid(Merge(c, i), base, size)
<1> DEFINE d == Merge(c, i)
           L == Len(c) - 1
           from(k) == IF k <= i THEN k ELSE k + 1
           upto(k) == IF k < i THEN k ELSE k + 1
<1>1. c \in Seq(Chunks) /\ Len(c) \in Nat /\ L \in Nat /\ L >= 1 /\ i \in 1..L /\ Len(c) = L + 1
  BY LenProperties DEF Laid
<1>2. /\ d \in Seq(Chunks) /\ Len(d) = L
      /\ \A k \in 1..L : d[k] = IF k < i THEN c[k]
                                ELSE IF k = i THEN Chunk(c[i].start, End(c[i + 1]) - c[i].start, c[i].allocated)
                                ELSE c[k + 1]
  BY <1>1, MergeFields
<1>3. \A k \in 1..(L + 1) : /\ c[k].start \in Nat /\ c[k].size \in Int /\ End(c[k]) \in Int
                            /\ End(c[k]) = c[k].start + c[k].size /\ c[k].size > 0
  BY <1>1, ChunksIn DEF Laid
<1> HIDE DEF d, L
<1>4. ASSUME NEW k \in 1..L
      PROVE  /\ from(k) \in 1..(L + 1) /\ upto(k) \in 1..(L + 1) /\ from(k) <= upto(k)
             /\ d[k].start = c[from(k)].start /\ End(d[k]) = End(c[upto(k)])
             /\ d[k].size > 0
  <2>1. CASE k < i
    BY <1>1, <1>2, <1>3, <2>1
  <2>2. CASE k > i
    <3>1. d[k] = c[k + 1] /\ from(k) = k + 1 /\ upto(k) = k + 1
      BY <1>1, <1>2, <2>2
    <3>2. k + 1 \in 1..(L + 1)
      BY <1>1
    <3>3. c[k + 1].size > 0
      BY <1>3, <3>2
    <3>4. from(k) \in 1..(L + 1) /\ upto(k) \in 1..(L + 1) /\ from(k) <= upto(k)
      BY <1>1, <3>1, <3>2
    <3>5. d[k].start = c[from(k)].start /\ End(d[k]) = End(c[upto(k)]) /\ d[k].size > 0
      BY <3>1, <3>3
    <3>6. QED
      BY <3>4, <3>5
  <2>3. CASE k = i
    <3>1. i \in 1..(L + 1) /\ i + 1 \in 1..(L + 1)
      BY <1>1
    <3>2. c[i] \in Chunks /\ c[i + 1] \in Chunks /\ c[i].size > 0 /\ c[i + 1].size > 0
      BY <1>1, <1>3, <3>1, ChunksIn
    <3>3. d[k] = Chunk(c[i].start, End(c[i + 1]) - c[i].start, c[i].allocated)
      BY <1>1, <1>2, <2>3
    <3>4. End(c[i]) <= c[i + 1].start
      BY <1>1, <3>1 DEF Laid
    <3>5. d[k].start = c[i].start /\ End(d[k]) = End(c[i + 1]) /\ d[k].size > 0
      BY <3>2, <3>3, <3>4, Spanned
    <3>6. from(k) = i /\ upto(k) = i + 1
      BY <1>1, <2>3
    <3>7. QED
      BY <1>1, <3>1, <3>5, <3>6
  <2>4. k < i \/ k > i \/ k = i
    BY <1>1
  <2>5. QED
    BY <2>1, <2>2, <2>3, <2>4
<1>5. d[1].start = base /\ End(d[L]) = base + size
  <2>1. 1 \in 1..L /\ L \in 1..L /\ from(1) = 1 /\ upto(L) = L + 1
    BY <1>1
  <2>2. QED
    BY <1>1, <1>4, <2>1 DEF Laid
<1>6. ~d[L].allocated
  <2>1. CASE i = L
    <3>1. d[L] = Chunk(c[i].start, End(c[i + 1]) - c[i].start, c[i].allocated)
      BY <1>1, <1>2, <2>1
    <3>2. d[L].allocated = c[i].allocated
      BY <3>1 DEF Chunk
    <3>3. QED
      BY <3>2
  <2>2. CASE i < L
    <3>1. d[L] = c[L + 1]
      BY <1>1, <1>2, <2>2
    <3>2. QED
      BY <1>1, <3>1 DEF Laid
  <2>3. QED
    BY <1>1, <2>1, <2>2
<1>7. ASSUME NEW k \in 1..L, NEW l \in 1..L, k < l
      PROVE  End(d[k]) <= d[l].start
  <2>1. upto(k) < from(l) /\ upto(k) \in 1..(L + 1) /\ from(l) \in 1..(L + 1)
    BY <1>1, <1>4, <1>7
  <2>2. End(c[upto(k)]) <= c[from(l)].start
    BY <1>1, <2>1 DEF Laid
  <2>3. QED
    BY <1>4, <2>2
<1>8. ASSUME NEW k \in 1..(L - 1)
      PROVE  Adjoins(d, k)
  <2>1. k \in 1..L /\ k + 1 \in 1..L /\ from(k) \in 1..L /\ upto(k) \in 1..L /\ from(k + 1) = upto(k) + 1
    BY <1>1
  <2> HIDE DEF from, upto
  <2>2. /\ c[from(k)].start % Alignment = 0
        /\ c[upto(k) + 1].start - End(c[upto(k)]) \in 0..(Alignment - 1)
    <3>1. Adjoins(c, from(k)) /\ Adjoins(c, upto(k))
      BY <1>1, <2>1 DEF Laid
    <3>2. QED
      BY <3>1 DEF Adjoins
  <2>3. /\ d[k].start = c[from(k)].start /\ End(d[k]) = End(c[upto(k)])
        /\ d[k + 1].start = c[upto(k) + 1].start
    BY <1>4, <2>1
  <2>4. QED
    BY <2>2, <2>3 DEF Adjoins
<1>9. d[L].start % Alignment = 0 \/ (L > 1 /\ d[L].start = End(d[L - 1]))
  <2>1. CASE i = L
    <3>1. from(L) = i /\ L \in 1..L
      BY <1>1, <2>1
    <3>2. c[i].start % Alignment = 0
      BY <1>1 DEF Laid, Adjoins
    <3>3. d[L].start = c[from(L)].start
      BY <1>4, <3>1
    <3>4. d[L].start = c[i].start
      BY <3>1, <3>3
    <3>5. QED
      BY <3>2, <3>4
  <2>2. CASE i < L
    <3>1. L > 1 /\ L - 1 \in 1..L /\ L \in 1..L /\ from(L) = L + 1 /\ upto(L - 1) = L
      BY <1>1, <2>2
    <3>2. d[L].start = c[L + 1].start /\ End(d[L - 1]) = End(c[L])
      BY <1>4, <3>1
    <3>3. c[L + 1].start % Alignment = 0 \/ c[L + 1].start = End(c[L])
      <4>1. L + 1 - 1 = L
        BY <1>1
      <4>2. QED
        BY <1>1, <4>1 DEF Laid
    <3>4. QED
      BY <3>1, <3>2, <3>3
  <2>3. QED
    BY <1>1, <2>1, <2>2
<1>10. \A k \in 1..L : d[k].size > 0
  BY <1>4
<1>11. d \in Seq(Chunks) /\ Len(d) >= 1
  BY <1>1, <1>2
<1>12. Laid(d, base, size)
  BY <1>2, <1>5, <1>6, <1>7, <1>8, <1>9, <1>10, <1>11 DEF Laid
<1>13. QED
  BY <1>12 DEF d

LEMMA MergeApart ==
  ASSUME NEW c \in Seq(Chunks), NEW i \in 1..(Len(c) - 1), ~c[i].allocated, ~c[i + 1].allocated
  PROVE  \A k \in 1..(Len(c) - 2) : Apart(Merge(c, i), k) <=> Apart(c, IF k < i THEN k ELSE k + 1)
<1> DEFINE d == Merge(c, i)
<1>1. Len(c) \in Nat
  BY LenProperties
<1>2. ASSUME NEW k \in 1..(Len(c) - 1)
      PROVE  /\ k < i => d[k].allocated = c[k].allocated
             /\ k = i => d[k].allocated = c[i].allocated
             /\ k > i => d[k].allocated = c[k + 1].allocated
  <2>1. d[k] = IF k < i THEN c[k]
               ELSE IF k = i THEN Chunk(c[i].start, End(c[i + 1]) - c[i].start, c[i].allocated)
               ELSE c[k + 1]
    BY MergeFields
  <2>2. /\ k < i => d[k] = c[k]
        /\ k = i => d[k] = Chunk(c[i].start, End(c[i + 1]) - c[i].start, c[i].allocated)
        /\ k > i => d[k] = c[k + 1]
    BY <1>1, <2>1
  <2>3. Chunk(c[i].start, End(c[i + 1]) - c[i].start, c[i].allocated).allocated = c[i].allocated
    BY DEF Chunk
  <2>4. QED
    BY <2>2, <2>3
<1> HIDE DEF d
<1>3. ASSUME NEW k \in 1..(Len(c) - 2)
      PROVE  Apart(d, k) <=> Apart(c, IF k < i THEN k ELSE k + 1)
  <2>1. k \in 1..(Len(c) - 1) /\ k + 1 \in 1..(Len(c) - 1)
    BY <1>1
  <2>2. CASE k + 1 < i
    <3>1. d[k].allocated = c[k].allocated /\ d[k + 1].allocated = c[k + 1].allocated /\ k < i
      <4>1. k < i
        BY <1>1, <2>2
      <4>2. QED
        BY <1>2, <2>1, <2>2, <4>1
    <3>2. QED
      BY <3>1 DEF Apart
  <2>3. CASE k + 1 = i
    <3>1. d[k].allocated = c[k].allocated /\ d[k + 1].allocated = c[k + 1].allocated /\ k < i
      BY <1>1, <1>2, <2>1, <2>3
    <3>2. QED
      BY <3>1 DEF Apart
  <2>4. CASE k = i
    <3>1. ~d[k].allocated /\ d[k + 1].allocated = c[k + 2].allocated /\ ~(k < i) /\ k + 1 + 1 = k + 2
      BY <1>1, <1>2, <2>1, <2>4
    <3>2. ~c[k + 1].allocated
      BY <2>4
    <3>3. QED
      BY <3>1, <3>2 DEF Apart
  <2>5. CASE k > i
    <3>1. d[k].allocated = c[k + 1].allocated /\ d[k + 1].allocated = c[k + 1 + 1].allocated /\ ~(k < i)
      BY <1>1, <1>2, <2>1, <2>5
    <3>2. QED
      BY <3>1 DEF Apart
  <2>6. k + 1 < i \/ k + 1 = i \/ k = i \/ k > i
    BY <1>1
  <2>7. QED
    BY <2>2, <2>3, <2>4, <2>5, <2>6
<1>4. QED
  BY <1>3 DEF d

LEMMA MergeInUse ==
  ASSUME NEW c \in Seq(Chunks), NEW i \in 1..(Len(c) - 1), ~c[i].allocated, ~c[i + 1].allocated
  PROVE  InUse(Merge(c, i)) = InUse(c)
<1> DEFINE d == Merge(c, i)
<1>1. Len(c) \in Nat /\ i \in 1..(Len(c) - 1) /\ i \in Nat
  BY LenProperties
<1>2. /\ d \in Seq(Chunks) /\ Len(d) = Len(c) - 1
      /\ \A k \in 1..(Len(c) - 1) : /\ k < i => d[k] = c[k]
                                    /\ k = i => d[k].allocated = c[i].allocated
                                    /\ k > i => d[k] = c[k + 1]
  <2>1. d \in Seq(Chunks) /\ Len(d) = Len(c) - 1
    BY MergeFields
  <2>2. ASSUME NEW k \in 1..(Len(c) - 1)
        PROVE  /\ k < i => d[k] = c[k]
               /\ k = i => d[k].allocated = c[i].allocated
               /\ k > i => d[k] = c[k + 1]
    <3>1. d[k] = IF k < i THEN c[k]
                 ELSE IF k = i THEN Chunk(c[i].start, End(c[i + 1]) - c[i].start, c[i].allocated)
                 ELSE c[k + 1]
      BY MergeFields
    <3>2. /\ k < i => d[k] = c[k]
          /\ k = i => d[k] = Chunk(c[i].start, End(c[i + 1]) - c[i].start, c[i].allocated)
          /\ k > i => d[k] = c[k + 1]
      BY <1>1, <3>1
    <3>3. Chunk(c[i].start, End(c[i + 1]) - c[i].start, c[i].allocated).allocated = c[i].allocated
      BY DEF Chunk
    <3>4. QED
      BY <3>2, <3>3
  <2>3. QED
    BY <2>1, <2>2
<1> HIDE DEF d
<1>3. ASSUME NEW k \in 1..Len(d), d[k].allocated
      PROVE  d[k] \in InUse(c)
  <2>1. k # i
    BY <1>2, <1>3
  <2>2. CASE k < i
    <3>1. d[k] = c[k] /\ k \in 1..Len(c)
      BY <1>1, <1>2, <2>2
    <3>2. QED
      BY <1>3, <3>1 DEF InUse
  <2>3. CASE k > i
    <3>1. d[k] = c[k + 1] /\ k + 1 \in 1..Len(c)
      BY <1>1, <1>2, <2>3
    <3>2. QED
      BY <1>3, <3>1 DEF InUse
  <2>4. QED
    BY <1>1, <1>2, <2>1, <2>2, <2>3
<1>4. ASSUME NEW k \in 1..Len(c), c[k].allocated
      PROVE  c[k] \in InUse(d)
  <2>1. k # i /\ k # i + 1
    BY <1>4
  <2>2. CASE k < i
    <3>1. d[k] = c[k] /\ k \in 1..Len(d)
      BY <1>1, <1>2, <2>2
    <3>2. QED
      BY <1>4, <3>1 DEF InUse
  <2>3. CASE k > i + 1
    <3>1. d[k - 1] = c[k] /\ k - 1 \in 1..Len(d)
      <4>1. k - 1 \in 1..(Len(c) - 1) /\ k - 1 > i /\ k - 1 + 1 = k
        BY <1>1, <2>3
      <4>2. QED
        BY <1>2, <4>1
    <3>2. QED
      BY <1>4, <3>1 DEF InUse
  <2>4. QED
    BY <1>1, <1>2, <2>1, <2>2, <2>3
<1>5. InUse(d) \subseteq InUse(c)
  BY <1>3 DEF InUse
<1>6. InUse(c) \subseteq InUse(d)
  BY <1>4 DEF InUse
<1>7. QED
  BY <1>5, <1>6 DEF d


\* Later chunks start later, so no two chunks are the same.
LEMMA StartsGrow ==
  ASSUME NEW c, NEW base, NEW size, Laid(c, base, size), NEW i \in 1..Len(c), NEW j \in 1..Len(c), i < j
  PROVE  c[i].start < c[j].start
<1>1. End(c[i]) <= c[j].start /\ c[i].size > 0
  BY DEF Laid
<1>2. c[i].start \in Nat /\ c[i].size \in Int /\ End(c[i]) = c[i].start + c[i].size /\ c[j].start \in Nat
  BY ChunksIn DEF Laid
<1>3. QED
  BY <1>1, <1>2

LEMMA StartsDiffer ==
  ASSUME NEW c, NEW base, NEW size, Laid(c, base, size), NEW i \in 1..Len(c), NEW j \in 1..Len(c),
         c[i].start = c[j].start
  PROVE  i = j
<1>1. Len(c) \in Nat /\ c[i].start \in Nat
  BY LenProperties, ChunksIn DEF Laid
<1>2. ~(i < j) /\ ~(j < i)
  BY <1>1, StartsGrow
<1>3. QED
  BY <1>1, <1>2

LEMMA CoalesceNext ==
  ASSUME NEW c, NEW base, NEW size, Laid(c, base, size), NEW i \in 1..(Len(c) - 1)
  PROVE  /\ ~c[i].allocated /\ ~c[i + 1].allocated => Coalesce(c, i, i + 1) = Merge(c, i)
         /\ c[i].allocated \/ c[i + 1].allocated => Coalesce(c, i, i + 1) = c
<1>1. Len(c) \in Nat
  BY LenProperties DEF Laid
<1>2. i \in 1..Len(c) /\ i + 1 \in 1..Len(c) /\ i < i + 1
  BY <1>1
<1>3. c[i].start < c[i + 1].start /\ c[i].start \in Nat /\ c[i + 1].start \in Nat
  BY <1>2, StartsGrow, ChunksIn DEF Laid
<1>4. c[i].start <= c[i + 1].start
  BY <1>3
<1>5. QED
  BY <1>4 DEF Coalesce, Merge

\* The chunk before the head is the sentinel, which does not merge with it.
LEMMA CoalesceHead ==
  ASSUME NEW c, NEW base, NEW size, Laid(c, base, size), Len(c) > 1
  PROVE  Coalesce(c, Len(c), 1) = c
<1>1. Len(c) \in Nat
  BY LenProperties DEF Laid
<1>2. 1 \in 1..Len(c) /\ Len(c) \in 1..Len(c)
  BY <1>1
<1>3. c[1].start < c[Len(c)].start /\ c[1].start \in Nat /\ c[Len(c)].start \in Nat
  BY <1>2, StartsGrow, ChunksIn DEF Laid
<1>4. ~(c[Len(c)].start <= c[1].start)
  BY <1>3
<1>5. QED
  BY <1>4 DEF Coalesce

\* A chunk that is not the sentinel is marked as used or free.
Marked(c, i, flag) == [c EXCEPT ![i].allocated = flag]

LEMMA MarkedFields ==
  ASSUME NEW c \in Seq(Chunks), NEW i \in 1..Len(c), NEW flag \in BOOLEAN
  PROVE  /\ Marked(c, i, flag) \in Seq(Chunks) /\ Len(Marked(c, i, flag)) = Len(c)
         /\ Marked(c, i, flag)[i] = Chunk(c[i].start, c[i].size, flag)
         /\ \A k \in 1..Len(c) : k # i => Marked(c, i, flag)[k] = c[k]
<1> DEFINE m == Chunk(c[i].start, c[i].size, flag)
<1>1. c[i] \in Chunks
  BY ChunksIn
<1>2. m \in Chunks
  BY ChunksIn, ChunkFields
<1>3. Marked(c, i, flag) = [c EXCEPT ![i] = [c[i] EXCEPT !.allocated = flag]]
  BY DEF Marked
<1>4. Marked(c, i, flag) = [c EXCEPT ![i] = m]
  BY <1>1, <1>3, ChunkChanged
<1> HIDE DEF m
<1>5. QED
  BY <1>2, <1>4, ExceptSeq DEF m

LEMMA MarkedLaid ==
  ASSUME NEW c, NEW base, NEW size, Laid(c, base, size), NEW i \in 1..(Len(c) - 1), NEW flag \in BOOLEAN
  PROVE  Laid(Marked(c, i, flag), base, size)
<1> DEFINE d == Marked(c, i, flag)
<1>1. Len(c) \in Nat /\ i \in 1..Len(c) /\ c \in Seq(Chunks)
  BY LenProperties DEF Laid
<1>2. /\ d \in Seq(Chunks) /\ Len(d) = Len(c) /\ d[i] = Chunk(c[i].start, c[i].size, flag)
      /\ \A k \in 1..Len(c) : k # i => d[k] = c[k]
  BY <1>1, MarkedFields
<1> HIDE DEF d
<1>3. d[i].start = c[i].start /\ d[i].size = c[i].size
  BY <1>2 DEF Chunk
<1>4. \A k \in 1..Len(c) : d[k].start = c[k].start /\ d[k].size = c[k].size /\ End(d[k]) = End(c[k])
  BY <1>2, <1>3 DEF End
<1>5. \A k \in 1..(Len(c) - 1) : Adjoins(d, k)
  <2> SUFFICES ASSUME NEW k \in 1..(Len(c) - 1) PROVE Adjoins(d, k)
    OBVIOUS
  <2>1. k \in 1..Len(c) /\ k + 1 \in 1..Len(c) /\ Adjoins(c, k)
    BY <1>1 DEF Laid
  <2>2. QED
    BY <1>4, <2>1 DEF Adjoins
<1>6. d[1].start = base /\ End(d[Len(d)]) = base + size /\ d[Len(d)] = c[Len(c)]
  <2>1. 1 \in 1..Len(c) /\ Len(c) \in 1..Len(c) /\ Len(c) # i
    BY <1>1
  <2>2. QED
    BY <1>2, <1>4, <2>1 DEF Laid
<1>7. \/ d[Len(d)].start % Alignment = 0
      \/ Len(d) > 1 /\ d[Len(d)].start = End(d[Len(d) - 1])
  <2>1. Len(c) - 1 \in 1..Len(c)
    BY <1>1
  <2>2. End(d[Len(c) - 1]) = End(c[Len(c) - 1])
    BY <1>4, <2>1
  <2>3. QED
    BY <1>2, <1>6, <2>2 DEF Laid
<1>8. /\ \A k \in 1..Len(d) : d[k].size > 0
      /\ \A k, l \in 1..Len(d) : k < l => End(d[k]) <= d[l].start
  BY <1>2, <1>4 DEF Laid
<1>9. Laid(d, base, size)
  BY <1>1, <1>2, <1>5, <1>6, <1>7, <1>8 DEF Laid
<1>10. QED
  BY <1>9 DEF d

LEMMA MarkedInUse ==
  ASSUME NEW c, NEW base, NEW size, Laid(c, base, size), NEW i \in 1..(Len(c) - 1)
  PROVE  /\ c[i].allocated => InUse(Marked(c, i, FALSE)) = InUse(c) \ {c[i]}
         /\ ~c[i].allocated => InUse(Marked(c, i, TRUE)) = InUse(c) \cup {Chunk(c[i].start, c[i].size, TRUE)}
<1>1. Len(c) \in Nat /\ i \in 1..Len(c) /\ c \in Seq(Chunks)
  BY LenProperties DEF Laid
<1>2. ASSUME c[i].allocated
      PROVE  InUse(Marked(c, i, FALSE)) = InUse(c) \ {c[i]}
  <2> DEFINE d == Marked(c, i, FALSE)
  <2>1. /\ Len(d) = Len(c) /\ d[i] = Chunk(c[i].start, c[i].size, FALSE)
        /\ \A k \in 1..Len(c) : k # i => d[k] = c[k]
    BY <1>1, MarkedFields
  <2> HIDE DEF d
  <2>2. ~d[i].allocated
    BY <2>1 DEF Chunk
  <2>3. \A k \in 1..Len(c) : k # i => c[k] # c[i]
    BY <1>1, StartsDiffer
  <2>4. {j \in 1..Len(d) : d[j].allocated} = {j \in 1..Len(c) : c[j].allocated} \ {i}
    BY <2>1, <2>2
  <2>5. ASSUME NEW x
        PROVE  x \in InUse(d) <=> x \in InUse(c) /\ x # c[i]
    BY <1>1, <2>1, <2>3, <2>4 DEF InUse
  <2>6. InUse(d) = InUse(c) \ {c[i]}
    BY <2>5
  <2>7. QED
    BY <2>6 DEF d
<1>3. ASSUME ~c[i].allocated
      PROVE  InUse(Marked(c, i, TRUE)) = InUse(c) \cup {Chunk(c[i].start, c[i].size, TRUE)}
  <2> DEFINE d == Marked(c, i, TRUE)
  <2>1. /\ Len(d) = Len(c) /\ d[i] = Chunk(c[i].start, c[i].size, TRUE)
        /\ \A k \in 1..Len(c) : k # i => d[k] = c[k]
    BY <1>1, MarkedFields
  <2> HIDE DEF d
  <2>2. d[i].allocated
    BY <2>1 DEF Chunk
  <2>3. {j \in 1..Len(d) : d[j].allocated} = {j \in 1..Len(c) : c[j].allocated} \cup {i}
    BY <1>1, <2>1, <2>2
  <2>4. ASSUME NEW x
        PROVE  x \in InUse(d) <=> x \in InUse(c) \/ x = d[i]
    BY <1>1, <1>3, <2>1, <2>3 DEF InUse
  <2>5. InUse(d) = InUse(c) \cup {d[i]}
    BY <2>4
  <2>6. QED
    BY <2>1, <2>5 DEF d
<1>4. QED
  BY <1>2, <1>3


\* Whatever coalesce_chunks does with two neighbours.
LEMMA CoalesceKeeps ==
  ASSUME NEW c, NEW base \in Int, NEW size \in Int, Laid(c, base, size), NEW i \in 1..(Len(c) - 1)
  PROVE  LET d == Coalesce(c, i, i + 1)
         IN  /\ Laid(d, base, size) /\ InUse(d) = InUse(c) /\ Len(d) \in {Len(c) - 1, Len(c)}
             /\ Len(d) < Len(c) <=> ~c[i].allocated /\ ~c[i + 1].allocated
             /\ \A k \in 1..(Len(d) - 1) :
                  IF Len(d) < Len(c) THEN Apart(d, k) <=> Apart(c, IF k < i THEN k ELSE k + 1)
                  ELSE Apart(d, k) <=> Apart(c, k)
<1> DEFINE d == Coalesce(c, i, i + 1)
<1>1. Len(c) \in Nat /\ c \in Seq(Chunks)
  BY LenProperties DEF Laid
<1>2. CASE ~c[i].allocated /\ ~c[i + 1].allocated
  <2>1. d = Merge(c, i)
    BY <1>2, CoalesceNext
  <2>2. Len(d) = Len(c) - 1 /\ Len(d) < Len(c)
    BY <1>1, <2>1, MergeFields
  <2>3. Laid(d, base, size)
    BY <1>2, <2>1, MergeLaid
  <2>4. InUse(d) = InUse(c)
    BY <1>1, <1>2, <2>1, MergeInUse
  <2>5. \A k \in 1..(Len(c) - 2) : Apart(d, k) <=> Apart(c, IF k < i THEN k ELSE k + 1)
    BY <1>1, <1>2, <2>1, MergeApart
  <2>6. Len(d) - 1 = Len(c) - 2
    BY <1>1, <2>2
  <2> HIDE DEF d
  <2>7. \A k \in 1..(Len(d) - 1) : Apart(d, k) <=> Apart(c, IF k < i THEN k ELSE k + 1)
    BY <2>5, <2>6
  <2>8. QED
    BY <1>2, <2>2, <2>3, <2>4, <2>7 DEF d
<1>3. CASE c[i].allocated \/ c[i + 1].allocated
  <2>1. d = c /\ ~(Len(c) < Len(c))
    BY <1>1, <1>3, CoalesceNext
  <2> HIDE DEF d
  <2>2. QED
    BY <1>3, <2>1 DEF d
<1>4. QED
  BY <1>2, <1>3

\* What freeing a chunk leaves: the same region, the other chunks in use, and,
\* if no free chunks were neighbours before and the build reads next first,
\* none that are.
LEMMA FreedKeeps ==
  ASSUME NEW c, NEW base \in Int, NEW size \in Int, Laid(c, base, size),
         NEW i \in 1..Len(c), c[i].allocated, nextReadFirst \in BOOLEAN
  PROVE  /\ Laid(Freed(c, i), base, size) /\ InUse(Freed(c, i)) = InUse(c) \ {c[i]}
         /\ Len(Freed(c, i)) \in 1..Len(c)
         /\ nextReadFirst /\ AllApart(c) => AllApart(Freed(c, i))
<1>1. Len(c) \in Nat /\ c \in Seq(Chunks) /\ ~c[Len(c)].allocated
  BY LenProperties DEF Laid
<1>2. i \in 1..(Len(c) - 1) /\ Len(c) > 1
  BY <1>1
<1> DEFINE s == Marked(c, i, FALSE)
           back == Coalesce(s, IF i = 1 THEN Len(s) ELSE i - 1, i)
           merged == Len(back) < Len(s)
<1>3. Laid(s, base, size) /\ InUse(s) = InUse(c) \ {c[i]}
  BY <1>2, MarkedLaid, MarkedInUse
<1>4. /\ Len(s) = Len(c) /\ ~s[i].allocated
      /\ \A k \in 1..Len(c) : k # i => s[k] = c[k]
  <2>1. i \in 1..Len(c)
    BY <1>1, <1>2
  <2>2. Len(s) = Len(c) /\ s[i] = Chunk(c[i].start, c[i].size, FALSE)
    BY <1>1, <2>1, MarkedFields
  <2>3. \A k \in 1..Len(c) : k # i => s[k] = c[k]
    BY <1>1, <2>1, MarkedFields
  <2> HIDE DEF s
  <2>4. QED
    BY <2>2, <2>3 DEF Chunk
<1>5. AllApart(c) => \A k \in 1..(Len(c) - 1) : k # i /\ k + 1 # i => Apart(s, k)
  <2> SUFFICES ASSUME AllApart(c), NEW k \in 1..(Len(c) - 1), k # i, k + 1 # i PROVE Apart(s, k)
    OBVIOUS
  <2>1. s[k] = c[k] /\ s[k + 1] = c[k + 1]
    <3>1. k \in 1..Len(c) /\ k + 1 \in 1..Len(c)
      BY <1>1
    <3> HIDE DEF s
    <3>2. QED
      BY <1>4, <3>1
  <2>2. QED
    BY <2>1 DEF AllApart, Apart
<1>6. Freed(c, i) = IF merged THEN (IF nextReadFirst THEN Coalesce(back, i - 1, i) ELSE back)
                    ELSE Coalesce(back, i, i + 1)
  BY DEF Freed, Marked
<1> HIDE DEF s
<1>7. CASE i = 1
  <2>1. back = s
    BY <1>2, <1>3, <1>4, <1>7, CoalesceHead
  <2>2. Freed(c, i) = Coalesce(s, i, i + 1)
    BY <1>1, <1>4, <1>6, <2>1
  <2> DEFINE d == Coalesce(s, i, i + 1)
  <2>3. /\ Laid(d, base, size) /\ InUse(d) = InUse(s) /\ Len(d) \in {Len(s) - 1, Len(s)}
        /\ Len(d) < Len(s) <=> ~s[i].allocated /\ ~s[i + 1].allocated
        /\ \A k \in 1..(Len(d) - 1) :
             IF Len(d) < Len(s) THEN Apart(d, k) <=> Apart(s, IF k < i THEN k ELSE k + 1)
             ELSE Apart(d, k) <=> Apart(s, k)
    BY <1>2, <1>3, <1>4, CoalesceKeeps
  <2> HIDE DEF d
  <2>4. ASSUME AllApart(c)
        PROVE  AllApart(d)
    <3> SUFFICES ASSUME NEW k \in 1..(Len(d) - 1) PROVE Apart(d, k)
      BY DEF AllApart
    <3>1. CASE Len(d) < Len(s)
      <4>1. k + 1 \in 1..(Len(c) - 1) /\ k + 1 # i /\ k + 1 + 1 # i /\ ~(k < i)
        BY <1>1, <1>4, <1>7, <2>3, <3>1
      <4>2. QED
        BY <1>5, <2>3, <2>4, <3>1, <4>1
    <3>2. CASE ~(Len(d) < Len(s))
      <4>1. k \in 1..(Len(c) - 1) /\ k + 1 # i
        BY <1>1, <1>4, <1>7, <2>3, <3>2
      <4>2. CASE k = i
        <5>1. s[i + 1].allocated
          BY <1>4, <2>3, <3>2
        <5>2. QED
          BY <2>3, <3>2, <4>2, <5>1 DEF Apart
      <4>3. CASE k # i
        BY <1>5, <2>3, <2>4, <3>2, <4>1, <4>3
      <4>4. QED
        BY <4>2, <4>3
    <3>3. QED
      BY <3>1, <3>2
  <2>5. QED
    BY <1>1, <1>2, <1>3, <1>4, <2>2, <2>3, <2>4 DEF d
<1>8. CASE i > 1
  <2>1. i - 1 \in 1..(Len(s) - 1) /\ (i - 1) + 1 = i /\ back = Coalesce(s, i - 1, (i - 1) + 1)
    BY <1>1, <1>2, <1>4, <1>8
  <2>2. /\ Laid(back, base, size) /\ InUse(back) = InUse(s) /\ Len(back) \in {Len(s) - 1, Len(s)}
        /\ merged <=> ~s[i - 1].allocated /\ ~s[i].allocated
        /\ \A k \in 1..(Len(back) - 1) :
             IF merged THEN Apart(back, k) <=> Apart(s, IF k < i - 1 THEN k ELSE k + 1)
             ELSE Apart(back, k) <=> Apart(s, k)
    BY <1>3, <2>1, CoalesceKeeps
  <2> HIDE DEF back
  <2>3. CASE ~merged
    <3>1. Len(back) = Len(c)
      BY <1>1, <1>4, <2>2, <2>3
    <3>2. i \in 1..(Len(back) - 1)
      BY <1>2, <3>1
    <3> DEFINE d == Coalesce(back, i, i + 1)
    <3>3. /\ Laid(d, base, size) /\ InUse(d) = InUse(back) /\ Len(d) \in {Len(back) - 1, Len(back)}
          /\ Len(d) < Len(back) <=> ~back[i].allocated /\ ~back[i + 1].allocated
          /\ \A k \in 1..(Len(d) - 1) :
               IF Len(d) < Len(back) THEN Apart(d, k) <=> Apart(back, IF k < i THEN k ELSE k + 1)
               ELSE Apart(d, k) <=> Apart(back, k)
      BY <2>2, <3>2, CoalesceKeeps
    <3>4. Freed(c, i) = d
      BY <1>6, <2>3
    <3> HIDE DEF d
    <3>5. ASSUME AllApart(c)
          PROVE  AllApart(d)
      <4>1. s[i - 1].allocated
        BY <1>4, <2>2, <2>3
      <4>2. \A k \in 1..(Len(c) - 1) : k # i => Apart(back, k)
        <5> SUFFICES ASSUME NEW k \in 1..(Len(c) - 1), k # i PROVE Apart(back, k)
          OBVIOUS
        <5>1. Apart(back, k) <=> Apart(s, k)
          BY <2>2, <2>3, <3>1
        <5>2. CASE k + 1 = i
          <6>1. k = i - 1
            BY <1>1, <5>2
          <6>2. QED
            BY <4>1, <5>1, <6>1 DEF Apart
        <5>3. CASE k + 1 # i
          BY <1>5, <3>5, <5>1, <5>3
        <5>4. QED
          BY <5>2, <5>3
      <4> SUFFICES ASSUME NEW k \in 1..(Len(d) - 1) PROVE Apart(d, k)
        BY DEF AllApart
      <4>3. CASE Len(d) < Len(back)
        <5> DEFINE l == IF k < i THEN k ELSE k + 1
        <5>1. l \in 1..(Len(c) - 1) /\ l # i
          BY <1>1, <1>2, <3>1, <3>3, <4>3
        <5>2. Apart(d, k) <=> Apart(back, l)
          BY <3>3, <4>3
        <5> HIDE DEF l
        <5>3. QED
          BY <4>2, <5>1, <5>2
      <4>4. CASE ~(Len(d) < Len(back))
        <5>1. Len(d) = Len(back) /\ k \in 1..(Len(c) - 1)
          BY <1>1, <3>1, <3>3, <4>4
        <5>2. Apart(d, k) <=> Apart(back, k)
          BY <3>3, <4>4
        <5>3. CASE k = i
          <6>1. back[i].allocated \/ back[i + 1].allocated
            BY <3>3, <4>4
          <6>2. QED
            BY <5>2, <5>3, <6>1 DEF Apart
        <5>4. CASE k # i
          BY <4>2, <5>1, <5>2, <5>4
        <5>5. QED
          BY <5>3, <5>4
      <4>5. QED
        BY <4>3, <4>4
    <3>6. Len(d) \in 1..Len(c)
      BY <1>1, <1>2, <3>1, <3>3
    <3>7. QED
      BY <1>3, <2>2, <3>3, <3>4, <3>5, <3>6
  <2>4. CASE merged /\ ~nextReadFirst
    <3>1. Freed(c, i) = back
      BY <1>6, <2>4
    <3>2. Len(back) \in 1..Len(c)
      BY <1>1, <1>2, <1>4, <2>2
    <3>3. QED
      BY <1>3, <2>2, <2>4, <3>1, <3>2
  <2>5. CASE merged /\ nextReadFirst
    <3>1. Len(back) = Len(c) - 1
      BY <1>1, <1>4, <2>2, <2>5
    <3>2. i - 1 \in 1..(Len(back) - 1) /\ (i - 1) + 1 = i
      BY <1>1, <1>2, <1>8, <3>1
    <3> DEFINE d == Coalesce(back, i - 1, (i - 1) + 1)
    <3>3. /\ Laid(d, base, size) /\ InUse(d) = InUse(back) /\ Len(d) \in {Len(back) - 1, Len(back)}
          /\ Len(d) < Len(back) <=> ~back[i - 1].allocated /\ ~back[(i - 1) + 1].allocated
          /\ \A k \in 1..(Len(d) - 1) :
               IF Len(d) < Len(back) THEN Apart(d, k) <=> Apart(back, IF k < i - 1 THEN k ELSE k + 1)
               ELSE Apart(d, k) <=> Apart(back, k)
      BY <2>2, <3>2, CoalesceKeeps
    <3>4. Freed(c, i) = d
      BY <1>6, <2>5, <3>2
    <3> HIDE DEF d
    <3>5. ASSUME AllApart(c)
          PROVE  AllApart(d)
      <4>1. \A k \in 1..(Len(back) - 1) : k # i - 1 => Apart(back, k)
        <5> SUFFICES ASSUME NEW k \in 1..(Len(back) - 1), k # i - 1 PROVE Apart(back, k)
          OBVIOUS
        <5> DEFINE l == IF k < i - 1 THEN k ELSE k + 1
        <5>1. l \in 1..(Len(c) - 1) /\ l # i /\ l + 1 # i
          BY <1>1, <1>2, <3>1
        <5>2. Apart(back, k) <=> Apart(s, l)
          BY <2>2, <2>5
        <5> HIDE DEF l
        <5>3. QED
          BY <1>5, <3>5, <5>1, <5>2
      <4> SUFFICES ASSUME NEW k \in 1..(Len(d) - 1) PROVE Apart(d, k)
        BY DEF AllApart
      <4>2. CASE Len(d) < Len(back)
        <5> DEFINE l == IF k < i - 1 THEN k ELSE k + 1
        <5>1. l \in 1..(Len(back) - 1) /\ l # i - 1
          BY <1>1, <1>2, <3>1, <3>3, <4>2
        <5>2. Apart(d, k) <=> Apart(back, l)
          BY <3>3, <4>2
        <5> HIDE DEF l
        <5>3. QED
          BY <4>1, <5>1, <5>2
      <4>3. CASE ~(Len(d) < Len(back))
        <5>1. k \in 1..(Len(back) - 1)
          BY <1>1, <3>1, <3>3, <4>3
        <5>2. Apart(d, k) <=> Apart(back, k)
          BY <3>3, <4>3
        <5>3. CASE k = i - 1
          <6>1. back[k].allocated \/ back[k + 1].allocated
            BY <3>3, <4>3, <5>3
          <6>2. QED
            BY <5>2, <6>1 DEF Apart
        <5>4. CASE k # i - 1
          BY <4>1, <5>1, <5>2, <5>4
        <5>5. QED
          BY <5>3, <5>4
      <4>4. QED
        BY <4>2, <4>3
    <3>6. Len(d) \in 1..Len(c)
      <4>1. Len(d) >= 1 /\ Len(d) \in {Len(c) - 2, Len(c) - 1}
        BY <1>1, <3>1, <3>3 DEF Laid
      <4>2. QED
        BY <1>1, <4>1
    <3>7. QED
      BY <1>3, <2>2, <3>3, <3>4, <3>5, <3>6
  <2>6. QED
    BY <2>3, <2>4, <2>5
<1>9. QED
  BY <1>1, <1>2, <1>7, <1>8


\* What is cut off the front of the sentinel.
LEMMA AppendedFields ==
  ASSUME NEW c \in Seq(Chunks), Len(c) >= 1, NEW n \in Int,
         RoundUp(c[Len(c)].start) \in Nat, RoundUp(c[Len(c)].start) + n \in Nat
  PROVE  LET start == RoundUp(c[Len(c)].start)
             d == Appended(c, n)
         IN  /\ d \in Seq(Chunks) /\ Len(d) = Len(c) + 1
             /\ \A k \in 1..(Len(c) - 1) : d[k] = c[k]
             /\ d[Len(c)] = Chunk(start, n, TRUE)
             /\ d[Len(c) + 1] = Chunk(start + n, End(c[Len(c)]) - (start + n), FALSE)
<1> DEFINE L == Len(c)
           start == RoundUp(c[L].start)
           used == Chunk(start, n, TRUE)
           left == Chunk(start + n, End(c[L]) - (start + n), FALSE)
           front == SubSeq(c, 1, L - 1)
<1>1. L \in Nat /\ L >= 1 /\ L \in 1..L
  BY LenProperties
<1>2. used \in Chunks
  BY ChunkFields
<1>3. End(c[L]) - (start + n) \in Int /\ start + n \in Nat
  <2>1. End(c[L]) \in Int
    BY <1>1, ChunksIn
  <2>2. QED
    BY <2>1
<1>4. left \in Chunks
  BY <1>3, ChunkFields
<1>5. front \in Seq(Chunks) /\ Len(front) = L - 1 /\ \A k \in 1..(L - 1) : front[k] = c[k]
  <2>1. 1 \in 1..(L + 1) /\ L - 1 \in 0..L /\ L - 1 - 1 + 1 = L - 1
    BY <1>1
  <2>2. front \in Seq(Chunks) /\ Len(front) = L - 1
    BY <1>1, <2>1, SubSeqProperties
  <2>3. \A k \in 1..(L - 1) : front[k] = c[1 + k - 1] /\ 1 + k - 1 = k
    BY <1>1, <2>1, SubSeqProperties
  <2>4. QED
    BY <2>2, <2>3
<1>6. Appended(c, n) = front \o <<used, left>>
  BY DEF Appended, Front, Last
<1> HIDE DEF L, start, used, left, front
<1>7. <<used, left>> \in Seq(Chunks) /\ Len(<<used, left>>) = 2 /\ <<used, left>>[1] = used /\ <<used, left>>[2] = left
  BY <1>2, <1>4
<1> DEFINE pair == <<used, left>>
<1> HIDE DEF pair
<1>8. /\ front \o pair \in Seq(Chunks) /\ Len(front \o pair) = Len(front) + Len(pair)
      /\ \A k \in 1..(Len(front) + Len(pair)) :
           (front \o pair)[k] = IF k <= Len(front) THEN front[k] ELSE pair[k - Len(front)]
  BY <1>5, <1>7, ConcatProperties DEF pair
<1>9. Len(front) = L - 1 /\ Len(pair) = 2 /\ pair[1] = used /\ pair[2] = left
  BY <1>5, <1>7 DEF pair
<1>10. Len(front \o pair) = L + 1
  BY <1>1, <1>8, <1>9
<1>11. \A k \in 1..(L - 1) : (front \o pair)[k] = c[k]
  <2> SUFFICES ASSUME NEW k \in 1..(L - 1) PROVE (front \o pair)[k] = c[k]
    OBVIOUS
  <2>1. k \in 1..(Len(front) + Len(pair)) /\ k <= Len(front)
    BY <1>1, <1>9
  <2>2. QED
    BY <1>5, <1>8, <2>1
<1>12. (front \o pair)[L] = used
  <2>1. L \in 1..(Len(front) + Len(pair)) /\ ~(L <= Len(front)) /\ L - Len(front) = 1
    BY <1>1, <1>9
  <2>2. (front \o pair)[L] = pair[L - Len(front)]
    BY <1>8, <2>1
  <2>3. QED
    BY <1>9, <2>1, <2>2
<1>13. (front \o pair)[L + 1] = left
  <2>1. PICK k \in Nat : k = L + 1
    BY <1>1
  <2>2. k \in 1..(Len(front) + Len(pair)) /\ ~(k <= Len(front)) /\ k - Len(front) = 2
    BY <1>1, <1>9, <2>1
  <2>3. (front \o pair)[k] = pair[k - Len(front)]
    BY <1>8, <2>2
  <2>4. QED
    BY <1>9, <2>1, <2>2, <2>3
<1>14. Appended(c, n) = front \o pair
  BY <1>6 DEF pair
<1>15. QED
  BY <1>8, <1>10, <1>11, <1>12, <1>13, <1>14 DEF L, start, used, left

LEMMA AppendedKeeps ==
  ASSUME NEW c, NEW base \in Int, NEW size \in Int, Laid(c, base, size),
         NEW n \in Nat, n >= 1, Fits(c[Len(c)], n), base % Alignment = 0
  PROVE  LET start == RoundUp(c[Len(c)].start)
             d == Appended(c, n)
         IN  /\ start \in Nat /\ start % Alignment = 0
             /\ Laid(d, base, size) /\ Len(d) = Len(c) + 1
             /\ InUse(d) = InUse(c) \cup {Chunk(start, n, TRUE)}
             /\ \A k \in 1..(Len(c) - 1) : End(c[k]) <= start
             /\ base <= start /\ start + n < base + size
             /\ AllApart(c) => AllApart(d)
<1> DEFINE L == Len(c)
           start == RoundUp(c[L].start)
           d == Appended(c, n)
           rest == End(c[L]) - (start + n)
<1>0. Alignment \in Nat /\ Alignment >= 1
  BY RegionAssumption
<1>1. L \in Nat /\ L >= 1 /\ L \in 1..L /\ c \in Seq(Chunks)
  BY LenProperties DEF Laid
<1>2. c[L].start \in Nat /\ End(c[L]) \in Int /\ End(c[L]) = base + size
  BY <1>1, ChunksIn DEF Laid
<1>3. /\ start \in Nat /\ start % Alignment = 0 /\ start >= c[L].start
      /\ start <= c[L].start + Alignment - 1
      /\ c[L].start % Alignment = 0 => start = c[L].start
  <2>1. /\ start \in Nat /\ start % Alignment = 0
        /\ start \in c[L].start..(c[L].start + Alignment - 1)
        /\ c[L].start % Alignment = 0 => start = c[L].start
    BY <1>2, RoundUpAligns
  <2> HIDE DEF start
  <2>2. QED
    BY <1>0, <1>2, <2>1
<1>4. start + n < End(c[L])
  BY <1>2, <1>3 DEF Fits
<1> HIDE DEF start
<1>5. rest \in Nat /\ rest >= 1 /\ start + n \in Nat /\ n \in Int
  BY <1>2, <1>3, <1>4
<1>6. /\ d \in Seq(Chunks) /\ Len(d) = L + 1 /\ \A k \in 1..(L - 1) : d[k] = c[k]
      /\ d[L] = Chunk(start, n, TRUE) /\ d[L + 1] = Chunk(start + n, rest, FALSE)
  BY <1>1, <1>3, <1>5, AppendedFields DEF start
<1> HIDE DEF d, rest, L
<1>7. /\ d[L].start = start /\ End(d[L]) = start + n /\ d[L].size = n /\ d[L].allocated
      /\ d[L + 1].start = start + n /\ End(d[L + 1]) = start + n + rest /\ d[L + 1].size = rest
      /\ ~d[L + 1].allocated
  BY <1>5, <1>6 DEF Chunk, End
<1>8. start + n + rest = End(c[L])
  BY <1>2, <1>3, <1>5 DEF rest
<1>9. \A k \in 1..(L - 1) : End(c[k]) <= c[L].start /\ End(c[k]) \in Int /\ End(c[k]) <= start
  <2> SUFFICES ASSUME NEW k \in 1..(L - 1)
               PROVE  End(c[k]) <= c[L].start /\ End(c[k]) \in Int /\ End(c[k]) <= start
    OBVIOUS
  <2>1. k \in 1..L /\ k < L
    BY <1>1
  <2>2. End(c[k]) \in Int /\ End(c[k]) <= c[L].start
    BY <1>1, <2>1, ChunksIn DEF Laid, L
  <2>3. QED
    BY <1>2, <1>3, <2>2
<1>10. ASSUME L > 1
       PROVE  start - End(c[L - 1]) \in 0..(Alignment - 1)
  <2>1. L - 1 \in 1..(L - 1) /\ (L - 1) + 1 = L
    BY <1>1, <1>10
  <2>2. Adjoins(c, L - 1)
    BY <2>1 DEF Laid, L
  <2>3. c[L].start - End(c[L - 1]) \in 0..(Alignment - 1)
    BY <2>1, <2>2 DEF Adjoins
  <2>4. c[L].start % Alignment = 0 \/ c[L].start = End(c[L - 1])
    BY DEF Laid, L
  <2>5. CASE c[L].start % Alignment = 0
    BY <1>3, <2>3, <2>5
  <2>6. CASE c[L].start = End(c[L - 1])
    BY <1>0, <1>2, <1>3, <2>6
  <2>7. QED
    BY <2>4, <2>5, <2>6
<1>11. d[1].start = base /\ base <= start
  <2>1. CASE L = 1
    <3>1. c[1].start = base /\ start = base
      BY <1>3, <2>1 DEF Laid
    <3>2. QED
      BY <1>3, <1>7, <2>1, <3>1
  <2>2. CASE L > 1
    <3>1. 1 \in 1..(L - 1) /\ 1 \in 1..L /\ c[1].start = base
      BY <1>1, <2>2 DEF Laid
    <3>2. End(c[1]) = c[1].start + c[1].size /\ c[1].size > 0 /\ c[1].size \in Int
      BY <1>1, <3>1, ChunksIn DEF Laid, L
    <3>3. QED
      BY <1>3, <1>6, <1>9, <3>1, <3>2
  <2>3. QED
    BY <1>1, <2>1, <2>2
<1>12. \A k \in 1..L : Adjoins(d, k)
  <2> SUFFICES ASSUME NEW k \in 1..L PROVE Adjoins(d, k)
    OBVIOUS
  <2>1. CASE k = L
    <3>1. (start + n) - (start + n) = 0 /\ 0 \in 0..(Alignment - 1)
      BY <1>0, <1>3
    <3>2. QED
      BY <1>3, <1>7, <2>1, <3>1 DEF Adjoins
  <2>2. CASE k = L - 1
    <3>0. k \in 1..(L - 1) /\ k + 1 = L /\ L > 1
      BY <1>1, <2>2
    <3>1. k \in 1..(L - 1) /\ d[k] = c[k] /\ k + 1 = L /\ L > 1
      BY <1>6, <3>0
    <3>2. Adjoins(c, k)
      BY <3>1 DEF Laid, L
    <3>3. QED
      BY <1>7, <1>10, <2>2, <3>1, <3>2 DEF Adjoins
  <2>3. CASE k < L - 1
    <3>1. k \in 1..(L - 1) /\ k + 1 \in 1..(L - 1)
      BY <1>1, <2>3
    <3>2. Adjoins(c, k) /\ d[k] = c[k] /\ d[k + 1] = c[k + 1]
      BY <1>6, <3>1 DEF Laid, L
    <3>3. QED
      BY <3>2 DEF Adjoins
  <2>4. QED
    BY <1>1, <2>1, <2>2, <2>3
<1>13. \A k \in 1..(L + 1) : d[k].size > 0
  <2> SUFFICES ASSUME NEW k \in 1..(L + 1) PROVE d[k].size > 0
    OBVIOUS
  <2>1. CASE k \in 1..(L - 1)
    <3>1. d[k] = c[k] /\ k \in 1..L
      BY <1>1, <1>6, <2>1
    <3>2. QED
      BY <3>1 DEF Laid, L
  <2>2. CASE k \in {L, L + 1}
    BY <1>5, <1>7, <2>2
  <2>3. QED
    BY <1>1, <2>1, <2>2
<1>14. \A k, l \in 1..(L + 1) : k < l => End(d[k]) <= d[l].start
  <2> SUFFICES ASSUME NEW k \in 1..(L + 1), NEW l \in 1..(L + 1), k < l PROVE End(d[k]) <= d[l].start
    OBVIOUS
  <2>1. CASE l <= L - 1
    <3>1. k \in 1..(L - 1) /\ l \in 1..(L - 1) /\ k \in 1..L /\ l \in 1..L
      BY <1>1, <2>1
    <3>2. d[k] = c[k] /\ d[l] = c[l]
      BY <1>6, <3>1
    <3>3. QED
      BY <3>1, <3>2 DEF Laid, L
  <2>2. CASE l = L
    <3>1. k \in 1..(L - 1)
      BY <1>1, <2>2
    <3>2. QED
      BY <1>6, <1>7, <1>9, <2>2, <3>1
  <2>3. CASE l = L + 1
    <3>1. CASE k = L
      BY <1>3, <1>5, <1>7, <2>3, <3>1
    <3>2. CASE k # L
      <4>1. k \in 1..(L - 1)
        BY <1>1, <2>3, <3>2
      <4>2. End(d[k]) \in Int /\ End(d[k]) <= start
        BY <1>6, <1>9, <4>1
      <4>3. QED
        BY <1>3, <1>7, <2>3, <4>2
    <3>3. QED
      BY <3>1, <3>2
  <2>4. QED
    BY <1>1, <2>1, <2>2, <2>3
<1>15. Laid(d, base, size)
  <2>1. (L + 1) - 1 = L /\ L + 1 >= 1 /\ L + 1 > 1
    BY <1>1
  <2>2. d[L + 1].start = End(d[L]) /\ End(d[L + 1]) = base + size
    BY <1>2, <1>7, <1>8
  <2>3. QED
    BY <1>6, <1>7, <1>11, <1>12, <1>13, <1>14, <2>1, <2>2 DEF Laid
<1>16. InUse(d) = InUse(c) \cup {Chunk(start, n, TRUE)}
  <2>1. ~c[L].allocated
    BY DEF Laid, L
  <2>2. {k \in 1..(L + 1) : d[k].allocated} = {k \in 1..L : c[k].allocated} \cup {L}
    <3>1. ASSUME NEW k \in 1..(L - 1)
          PROVE  d[k] = c[k]
      BY <1>6
    <3>2. ASSUME NEW k
          PROVE  k \in 1..(L + 1) /\ d[k].allocated <=> (k \in 1..L /\ c[k].allocated) \/ k = L
      <4>1. CASE k \in 1..(L - 1)
        BY <1>1, <3>1, <4>1
      <4>2. CASE k = L
        BY <1>1, <1>7, <4>2
      <4>3. CASE k = L + 1
        BY <1>1, <1>7, <4>3
      <4>4. k \in 1..(L + 1) => k \in 1..(L - 1) \/ k = L \/ k = L + 1
        BY <1>1
      <4>5. k \in 1..L => k \in 1..(L - 1) \/ k = L
        BY <1>1
      <4>6. QED
        BY <4>1, <4>2, <4>3, <4>4, <4>5
    <3>3. QED
      BY <3>2
  <2>3. \A k \in 1..L : c[k].allocated => d[k] = c[k]
    <3> SUFFICES ASSUME NEW k \in 1..L, c[k].allocated PROVE d[k] = c[k]
      OBVIOUS
    <3>1. k \in 1..(L - 1)
      BY <1>1, <2>1
    <3>2. QED
      BY <1>6, <3>1
  <2>4. ASSUME NEW x
        PROVE  x \in InUse(d) <=> x \in InUse(c) \/ x = d[L]
    <3> DEFINE S == {k \in 1..L : c[k].allocated}
    <3>1. InUse(c) = {c[k] : k \in S}
      BY DEF InUse, L
    <3>2. InUse(d) = {d[k] : k \in S \cup {L}}
      BY <1>6, <2>2 DEF InUse
    <3>3. \A k \in S : d[k] = c[k]
      BY <2>3
    <3> HIDE DEF S
    <3>4. QED
      BY <3>1, <3>2, <3>3
  <2>5. QED
    BY <1>6, <2>4
<1>17. AllApart(c) => AllApart(d)
  <2> SUFFICES ASSUME AllApart(c), NEW k \in 1..L PROVE Apart(d, k)
    BY <1>1, <1>6 DEF AllApart
  <2>1. CASE k = L \/ k + 1 = L
    BY <1>7, <2>1 DEF Apart
  <2>2. CASE k < L - 1
    <3>1. k \in 1..(L - 1) /\ k + 1 \in 1..(L - 1)
      BY <1>1, <2>2
    <3>2. d[k] = c[k] /\ d[k + 1] = c[k + 1] /\ Apart(c, k)
      BY <1>6, <3>1 DEF AllApart, L
    <3>3. QED
      BY <3>2 DEF Apart
  <2>3. QED
    BY <1>1, <2>1, <2>2
<1>18. \A k \in 1..(L - 1) : End(c[k]) <= start
  BY <1>9
<1>19. start + n < base + size
  BY <1>2, <1>4
<1>20. QED
  BY <1>3, <1>6, <1>11, <1>15, <1>16, <1>17, <1>18, <1>19 DEF L, start, d


-----------------------------------------------------------------------------
(* Regions.                                                                    *)

LEMMA ChunkInside ==
  ASSUME NEW c, NEW base \in Int, NEW size \in Int, Laid(c, base, size), NEW i \in 1..Len(c)
  PROVE  base <= c[i].start /\ c[i].start < End(c[i]) /\ End(c[i]) <= base + size
<1>1. Len(c) \in Nat /\ Len(c) >= 1 /\ 1 \in 1..Len(c) /\ Len(c) \in 1..Len(c)
  BY LenProperties DEF Laid
<1>2. c[i].start \in Nat /\ End(c[i]) \in Int /\ c[i].start < End(c[i])
  <2>1. c[i].start \in Nat /\ c[i].size \in Int /\ c[i].size > 0 /\ End(c[i]) = c[i].start + c[i].size
    BY ChunksIn DEF Laid
  <2>2. QED
    BY <2>1
<1>3. base <= c[i].start
  <2>1. CASE i = 1
    BY <1>2, <2>1 DEF Laid
  <2>2. CASE i > 1
    <3>1. c[1].start < c[i].start /\ c[1].start = base
      BY <1>1, <2>2, StartsGrow DEF Laid
    <3>2. QED
      BY <1>2, <3>1
  <2>3. QED
    BY <1>1, <2>1, <2>2
<1>4. End(c[i]) <= base + size
  <2> DEFINE L == Len(c)
  <2>1. End(c[L]) = base + size
    BY DEF Laid
  <2>2. CASE i = L
    BY <2>1, <2>2
  <2>3. CASE i < L
    <3>1. End(c[i]) <= c[L].start
      BY <1>1, <2>3 DEF Laid
    <3>2. c[L].start \in Nat /\ c[L].size \in Int /\ c[L].size > 0 /\ End(c[L]) = c[L].start + c[L].size
      BY <1>1, ChunksIn DEF Laid
    <3> HIDE DEF L
    <3>3. QED
      BY <1>2, <2>1, <3>1, <3>2
  <2>4. QED
    BY <1>1, <2>2, <2>3
<1>5. QED
  BY <1>2, <1>3, <1>4

LEMMA RegionFields ==
  ASSUME RegionsOK, NEW r \in 1..Len(region)
  PROVE  /\ region[r] \in Regions /\ RegionOK(region[r], r)
         /\ region[r].base \in Nat /\ region[r].size \in Nat /\ region[r].spare \in 0..MaxChunks
         /\ region[r].chunks \in Seq(Chunks) /\ Len(region[r].chunks) \in Nat
         /\ Len(region[r].chunks) >= 1 /\ Len(region[r].chunks) <= MaxChunks
         /\ Laid(region[r].chunks, region[r].base, region[r].size)
         /\ region[r].base = r * Stride /\ region[r].base % Alignment = 0
         /\ region[r].size \in 1..Stride
<1>1. region[r] \in Regions
  BY ElementOfSeq DEF RegionsOK
<1>2. RegionOK(region[r], r)
  BY DEF RegionsOK
<1>3. /\ region[r].base \in Nat /\ region[r].size \in Nat /\ region[r].spare \in 0..MaxChunks
      /\ region[r].chunks \in Seq(Chunks)
  BY <1>1 DEF Regions
<1>4. Len(region[r].chunks) \in Nat
  BY <1>3, LenProperties
<1>5. /\ Laid(region[r].chunks, region[r].base, region[r].size)
      /\ region[r].base = r * Stride /\ region[r].size \in 1..Stride
      /\ Len(region[r].chunks) + region[r].spare = MaxChunks
  BY <1>2 DEF RegionOK
<1>6. MaxChunks \in Nat
  BY RegionAssumption
<1>7. Len(region[r].chunks) <= MaxChunks /\ Len(region[r].chunks) >= 1
  BY <1>3, <1>4, <1>5, <1>6 DEF Laid
<1>8. r \in Nat
  BY LenProperties DEF RegionsOK
<1>9. region[r].base % Alignment = 0
  BY <1>5, <1>8, Placement
<1>10. QED
  BY <1>1, <1>2, <1>3, <1>4, <1>5, <1>7, <1>9

\* Regions follow each other, and so do what lies in them.
LEMMA RegionsFollow ==
  ASSUME RegionsOK, NEW r \in 1..Len(region), NEW q \in 1..Len(region), r < q
  PROVE  region[r].base + region[r].size <= region[q].base
<1>1. r \in Nat /\ q \in Nat
  BY LenProperties DEF RegionsOK
<1>2. /\ r * Stride + Stride <= q * Stride /\ r * Stride \in Nat
      /\ region[r].base = r * Stride /\ region[q].base = q * Stride
      /\ region[r].size \in 1..Stride /\ region[q].base \in Nat
  BY <1>1, RegionFields, Placement
<1>3. Stride \in Nat
  BY RegionAssumption
<1>4. region[r].base + Stride <= region[q].base /\ region[r].base \in Nat /\ region[q].base \in Nat
  BY <1>2, Zenon
<1>5. region[r].size \in 1..Stride
  BY <1>2
<1>6. QED
  BY <1>3, <1>4, <1>5

\* No chunk of one region overlaps a chunk of another.
LEMMA FarChunks ==
  ASSUME RegionsOK, NEW r \in 1..Len(region), NEW q \in 1..Len(region), r < q,
         NEW i \in 1..Len(region[r].chunks), NEW j \in 1..Len(region[q].chunks)
  PROVE  End(region[r].chunks[i]) <= region[q].chunks[j].start
<1> DEFINE c == region[r].chunks[i]
           d == region[q].chunks[j]
<1>1. region[r].base + region[r].size <= region[q].base
  BY RegionsFollow
<1>2. /\ region[r].base \in Nat /\ region[r].size \in Nat /\ region[q].base \in Nat /\ region[q].size \in Nat
      /\ region[r].chunks \in Seq(Chunks) /\ region[q].chunks \in Seq(Chunks)
      /\ Laid(region[r].chunks, region[r].base, region[r].size)
      /\ Laid(region[q].chunks, region[q].base, region[q].size)
  BY RegionFields
<1>3. End(c) <= region[r].base + region[r].size /\ End(c) \in Int
  <2>1. region[r].base \in Int /\ region[r].size \in Int
    BY <1>2
  <2>2. QED
    BY <1>2, <2>1, ChunkInside, ChunksIn
<1>4. region[q].base <= d.start /\ d.start \in Nat
  <2>1. region[q].base \in Int /\ region[q].size \in Int
    BY <1>2
  <2>2. QED
    BY <1>2, <2>1, ChunkInside, ChunksIn
<1> HIDE DEF c, d
<1>5. End(c) <= d.start
  <2>1. \A e, f, b, s \in Int : e <= f /\ f <= b /\ b <= s => e <= s
    OBVIOUS
  <2>2. region[r].base + region[r].size \in Int /\ region[q].base \in Int /\ d.start \in Int
    BY <1>2, <1>4
  <2>3. QED
    BY <1>1, <1>3, <1>4, <2>1, <2>2
<1>6. QED
  BY <1>5 DEF c, d

\* An address is the start of one chunk at most.
LEMMA OneStart ==
  ASSUME RegionsOK, NEW r \in 1..Len(region), NEW q \in 1..Len(region),
         NEW i \in 1..Len(region[r].chunks), NEW j \in 1..Len(region[q].chunks),
         region[r].chunks[i].start = region[q].chunks[j].start
  PROVE  r = q /\ i = j
<1>1. /\ region[r].chunks \in Seq(Chunks) /\ region[q].chunks \in Seq(Chunks)
      /\ Laid(region[r].chunks, region[r].base, region[r].size)
      /\ Laid(region[q].chunks, region[q].base, region[q].size)
      /\ region[r].base \in Int /\ region[r].size \in Int /\ region[q].base \in Int /\ region[q].size \in Int
  BY RegionFields
<1> DEFINE c == region[r].chunks[i]
           d == region[q].chunks[j]
<1>2. c.start < End(c) /\ d.start < End(d)
  BY <1>1, ChunkInside
<1>3. c.start \in Nat /\ d.start \in Nat /\ End(c) \in Int /\ End(d) \in Int /\ c.start = d.start
  BY <1>1, ChunksIn
<1>4. r < q => End(c) <= d.start
  BY FarChunks
<1>5. q < r => End(d) <= c.start
  BY FarChunks
<1> HIDE DEF c, d
<1>6. ~(r < q) /\ ~(q < r)
  BY <1>2, <1>3, <1>4, <1>5
<1>7. Len(region) \in Nat
  BY LenProperties DEF RegionsOK
<1>8. r = q
  BY <1>6, <1>7
<1>9. QED
  BY <1>1, <1>8, StartsDiffer

\* Chunks in use overlap nowhere.
LEMMA UsedApart ==
  ASSUME RegionsOK, NEW r \in 1..Len(region), NEW q \in 1..Len(region),
         NEW c \in InUse(region[r].chunks), NEW d \in InUse(region[q].chunks), c.start # d.start
  PROVE  End(c) <= d.start \/ End(d) <= c.start
<1>1. PICK i \in 1..Len(region[r].chunks) : c = region[r].chunks[i]
  BY DEF InUse
<1>2. PICK j \in 1..Len(region[q].chunks) : d = region[q].chunks[j]
  BY DEF InUse
<1>3. Len(region) \in Nat /\ Len(region[r].chunks) \in Nat /\ Len(region[q].chunks) \in Nat
  BY RegionFields, LenProperties DEF RegionsOK
<1>4. CASE r < q
  BY <1>1, <1>2, <1>4, FarChunks
<1>5. CASE q < r
  BY <1>1, <1>2, <1>5, FarChunks
<1>6. CASE r = q
  <2>1. Laid(region[r].chunks, region[r].base, region[r].size) /\ i # j
    BY <1>1, <1>2, <1>6, RegionFields
  <2>2. i < j \/ j < i
    BY <1>3, <1>6, <2>1
  <2>3. QED
    BY <1>1, <1>2, <1>6, <2>1, <2>2 DEF Laid
<1>7. QED
  BY <1>3, <1>4, <1>5, <1>6

\* A region asked for first has room for its buffer, unless its size overflowed.
LEMMA RegionRoom ==
  ASSUME NEW s \in Sizes
  PROVE  /\ s \in Nat /\ s >= 1 /\ RegionSize(s) \in Nat /\ RegionSize(s) <= Stride
         /\ s <= RegionSize(s) /\ (s < RegionSize(s) \/ Overflows(s))
<1>1. /\ s \in Nat /\ s >= 1 /\ ExtraSize \in Nat /\ ExtraSize >= 1 /\ MinRegion \in Nat
      /\ Multiple \in Nat /\ Multiple >= 2 /\ RegionSize(s) <= Stride /\ Modulus \in Nat \ {0}
  BY RegionAssumption, PlacementAssumption
<1>2. PICK k \in Nat : Multiple = 2 + k
  BY <1>1
<1>3. s * Multiple = s + s + s * k /\ s * k \in Nat
  BY <1>1, <1>2
<1>4. PICK x \in Nat, y \in Nat : x = s + ExtraSize /\ y = s * Multiple /\ x > s /\ y > s
  BY <1>1, <1>3
<1>5. PICK v \in Nat, w \in Nat : /\ v = x % Modulus /\ w = y % Modulus
                                  /\ x < Modulus => v = x
                                  /\ y < Modulus => w = y
  BY <1>1, <1>4
<1>6. PICK u \in Nat : u = Min2(v, w) /\ u \in {v, w}
  BY <1>5 DEF Min2
<1>7. RegionSize(s) = Max2(Max2(u, s), MinRegion)
  BY <1>4, <1>5, <1>6 DEF RegionSize
<1>8. /\ Max2(Max2(u, s), MinRegion) \in Nat /\ s <= Max2(Max2(u, s), MinRegion)
      /\ u > s => s < Max2(Max2(u, s), MinRegion)
  BY <1>1, <1>6 DEF Max2
<1>9. x < Modulus /\ y < Modulus => u > s
  BY <1>4, <1>5, <1>6
<1>10. Overflows(s) \/ (x < Modulus /\ y < Modulus)
  BY <1>1, <1>4 DEF Overflows
<1>11. QED
  BY <1>1, <1>7, <1>8, <1>9, <1>10

-----------------------------------------------------------------------------
(* A region gets other chunks.                                                 *)

Part(r, chunks, spare) ==
  [base |-> region[r].base, size |-> region[r].size, spare |-> spare, chunks |-> chunks]
With(r, chunks, spare) == [region EXCEPT ![r] = Part(r, chunks, spare)]

LEMMA WithFields ==
  ASSUME RegionsOK, NEW r \in 1..Len(region), NEW chunks, NEW spare \in Nat,
         Laid(chunks, region[r].base, region[r].size), Len(chunks) + spare = MaxChunks
  PROVE  /\ With(r, chunks, spare) \in Seq(Regions) /\ Len(With(r, chunks, spare)) = Len(region)
         /\ With(r, chunks, spare)[r] = Part(r, chunks, spare)
         /\ \A q \in 1..Len(region) : q # r => With(r, chunks, spare)[q] = region[q]
         /\ \A q \in 1..Len(region) : RegionOK(With(r, chunks, spare)[q], q)
<1> DEFINE m == Part(r, chunks, spare)
<1>1. /\ region[r].base \in Nat /\ region[r].size \in Nat
      /\ region[r].base = r * Stride /\ region[r].size \in 1..Stride
  BY RegionFields
<1>2. chunks \in Seq(Chunks) /\ Len(chunks) \in Nat
  BY LenProperties DEF Laid
<1>3. spare \in 0..MaxChunks
  <2>1. MaxChunks \in Nat
    BY RegionAssumption
  <2>2. QED
    BY <1>2, <2>1
<1>4. m \in Regions
  BY <1>1, <1>2, <1>3 DEF Regions, Part
<1>5. m.base = region[r].base /\ m.size = region[r].size /\ m.chunks = chunks /\ m.spare = spare
  BY DEF Part
<1> HIDE DEF m
<1>6. RegionOK(m, r)
  BY <1>1, <1>5 DEF RegionOK
<1> DEFINE w == [region EXCEPT ![r] = m]
<1>7. region \in Seq(Regions)
  BY DEF RegionsOK
<1>8. w \in Seq(Regions) /\ Len(w) = Len(region) /\ \A q \in 1..Len(region) : w[q] = IF q = r THEN m ELSE region[q]
  BY <1>4, <1>7, ExceptSeq
<1> HIDE DEF w
<1>9. \A q \in 1..Len(region) : RegionOK(w[q], q)
  <2> SUFFICES ASSUME NEW q \in 1..Len(region) PROVE RegionOK(w[q], q)
    OBVIOUS
  <2>1. CASE q = r
    BY <1>6, <1>8, <2>1
  <2>2. CASE q # r
    BY <1>8, <2>2, RegionFields
  <2>3. QED
    BY <2>1, <2>2
<1>10. With(r, chunks, spare) = w
  BY DEF With, w, m
<1>11. w[r] = m /\ \A q \in 1..Len(region) : q # r => w[q] = region[q]
  BY <1>8
<1>12. QED
  BY <1>8, <1>9, <1>10, <1>11 DEF m

\* Both fields at once, and the chunks alone.
Refilled(x, c, n) == [[x EXCEPT !.chunks = c] EXCEPT !.spare = n]
Rechunked(x, c) == [x EXCEPT !.chunks = c]
Filled(x, c, n) == [base |-> x.base, size |-> x.size, spare |-> n, chunks |-> c]

LEMMA PartForms ==
  ASSUME NEW x \in Regions, NEW c, NEW n
  PROVE  Refilled(x, c, n) = Filled(x, c, n) /\ Rechunked(x, c) = Filled(x, c, x.spare)
<1>1. x = [base |-> x.base, size |-> x.size, spare |-> x.spare, chunks |-> x.chunks]
  BY DEF Regions
<1>2. Rechunked(x, c) = Filled(x, c, x.spare)
  BY <1>1 DEF Rechunked, Filled
<1>3. [Filled(x, c, x.spare) EXCEPT !.spare = n] = Filled(x, c, n)
  BY DEF Filled
<1>4. Refilled(x, c, n) = [Rechunked(x, c) EXCEPT !.spare = n]
  BY DEF Refilled, Rechunked
<1>5. QED
  BY <1>2, <1>3, <1>4, Zenon

\* The same, as the actions write it.
LEMMA WithForms ==
  ASSUME RegionsOK, NEW r \in 1..Len(region)
  PROVE  /\ \A c, n : [region EXCEPT ![r].chunks = c, ![r].spare = n] = With(r, c, n)
         /\ \A i : [region EXCEPT ![r].chunks[i].allocated = TRUE]
                     = With(r, Marked(region[r].chunks, i, TRUE), region[r].spare)
<1>1. region[r] \in Regions
  BY RegionFields
<1>2. region \in Seq(Regions) /\ r \in DOMAIN region
  BY DEF RegionsOK
<1>3. ASSUME NEW c, NEW n
      PROVE  [region EXCEPT ![r].chunks = c, ![r].spare = n] = With(r, c, n)
  <2>1. [region EXCEPT ![r].chunks = c, ![r].spare = n] = [region EXCEPT ![r] = Refilled(region[r], c, n)]
    BY <1>2 DEF Refilled
  <2>2. Refilled(region[r], c, n) = Part(r, c, n)
    BY <1>1, PartForms DEF Part, Filled
  <2>3. QED
    BY <2>1, <2>2 DEF With
<1>4. ASSUME NEW i
      PROVE  [region EXCEPT ![r].chunks[i].allocated = TRUE]
               = With(r, Marked(region[r].chunks, i, TRUE), region[r].spare)
  <2>1. [region EXCEPT ![r].chunks[i].allocated = TRUE]
          = [region EXCEPT ![r] = Rechunked(region[r], Marked(region[r].chunks, i, TRUE))]
    BY <1>2 DEF Marked, Rechunked
  <2>2. Rechunked(region[r], Marked(region[r].chunks, i, TRUE))
          = Part(r, Marked(region[r].chunks, i, TRUE), region[r].spare)
    BY <1>1, PartForms DEF Part, Filled
  <2>3. QED
    BY <2>1, <2>2 DEF With
<1>5. QED
  BY <1>3, <1>4

\* Regions that are the same but for the chunks and the descriptors of one.
Changed(r, chunks, spare) ==
  /\ region' = With(r, chunks, spare)
  /\ Laid(chunks, region[r].base, region[r].size)
  /\ spare \in Nat /\ Len(chunks) + spare = MaxChunks

LEMMA ChangedRegions ==
  ASSUME RegionsOK, NEW r \in 1..Len(region), NEW chunks, NEW spare, Changed(r, chunks, spare)
  PROVE  /\ RegionsOK' /\ Len(region') = Len(region)
         /\ region'[r].chunks = chunks /\ region'[r].base = region[r].base
         /\ region'[r].size = region[r].size /\ region'[r].spare = spare
         /\ \A q \in 1..Len(region) : q # r => region'[q] = region[q]
<1>1. region' = With(r, chunks, spare) /\ spare \in Nat
  BY DEF Changed
<1>2. /\ With(r, chunks, spare) \in Seq(Regions) /\ Len(With(r, chunks, spare)) = Len(region)
      /\ With(r, chunks, spare)[r] = Part(r, chunks, spare)
      /\ \A q \in 1..Len(region) : q # r => With(r, chunks, spare)[q] = region[q]
      /\ \A q \in 1..Len(region) : RegionOK(With(r, chunks, spare)[q], q)
  BY WithFields DEF Changed
<1>3. region'[r] = Part(r, chunks, spare)
  BY <1>1, <1>2
<1>4. /\ region'[r].chunks = chunks /\ region'[r].base = region[r].base
      /\ region'[r].size = region[r].size /\ region'[r].spare = spare
  BY <1>3 DEF Part
<1>5. \A q \in 1..Len(region) : q # r => region'[q] = region[q]
  BY <1>1, <1>2
<1>6. /\ region' \in Seq(Regions) /\ Len(region') = Len(region)
      /\ \A q \in 1..Len(region') : RegionOK(region'[q], q)
  BY <1>1, <1>2
<1>7. RegionsOK'
  BY <1>6 DEF RegionsOK, RegionOK, Laid, Adjoins, End
<1>8. QED
  BY <1>4, <1>5, <1>6, <1>7

\* One more buffer, in one more chunk.
LEMMA BuffersGrow ==
  ASSUME BuffersOK, NEW r \in 1..Len(region), Len(region') = Len(region),
         \A q \in 1..Len(region) : q # r => region'[q] = region[q],
         NEW c, InUse(region'[r].chunks) = InUse(region[r].chunks) \cup {c},
         NEW b \in [start : Nat, size : Sizes], b.start = c.start, c.size >= b.size,
         buffers' = buffers \cup {b},
         \A q \in 1..Len(region) : \A d \in InUse(region[q].chunks) : d.start # c.start
  PROVE  BuffersOK'
<1>1. \A q \in 1..Len(region) : InUse(region[q].chunks) \subseteq InUse(region'[q].chunks)
  OBVIOUS
<1>2. \A q \in 1..Len(region) : InUse(region'[q].chunks) \subseteq InUse(region[q].chunks) \cup {c}
  OBVIOUS
<1>3. c \in InUse(region'[r].chunks)
  OBVIOUS
<1>4. ASSUME NEW d \in buffers
      PROVE  d.start # b.start
  <2>1. PICK q \in 1..Len(region) : \E x \in InUse(region[q].chunks) : x.start = d.start
    BY DEF BuffersOK
  <2>2. QED
    BY <2>1
<1>5. \A d, e \in buffers' : d.start = e.start => d = e
  BY <1>4 DEF BuffersOK
<1>6. buffers' \subseteq [start : Nat, size : Sizes]
  BY DEF BuffersOK
<1>7. ASSUME NEW d \in buffers'
      PROVE  \E q \in 1..Len(region') : \E x \in InUse(region'[q].chunks) :
               x.start = d.start /\ x.size >= d.size
  <2>1. CASE d = b
    BY <1>3, <2>1
  <2>2. CASE d \in buffers
    <3>1. PICK q \in 1..Len(region) : \E x \in InUse(region[q].chunks) : x.start = d.start /\ x.size >= d.size
      BY <2>2 DEF BuffersOK
    <3>2. QED
      BY <1>1, <3>1
  <2>3. QED
    BY <2>1, <2>2
<1>8. ASSUME NEW q \in 1..Len(region'), NEW x \in InUse(region'[q].chunks)
      PROVE  \E d \in buffers' : d.start = x.start
  <2>1. x \in InUse(region[q].chunks) \/ x = c
    BY <1>2, <1>8
  <2>2. CASE x \in InUse(region[q].chunks)
    BY <1>8, <2>2 DEF BuffersOK
  <2>3. CASE x = c
    BY <2>3
  <2>4. QED
    BY <2>1, <2>2, <2>3
<1>9. QED
  BY <1>5, <1>6, <1>7, <1>8 DEF BuffersOK, InUse

\* One buffer and its chunk less.
LEMMA BuffersShrink ==
  ASSUME BuffersOK, NEW r \in 1..Len(region), Len(region') = Len(region),
         \A q \in 1..Len(region) : q # r => region'[q] = region[q],
         NEW c \in InUse(region[r].chunks), InUse(region'[r].chunks) = InUse(region[r].chunks) \ {c},
         NEW b \in buffers, b.start = c.start, buffers' = buffers \ {b},
         \A q \in 1..Len(region) : \A d \in InUse(region[q].chunks) : d.start = c.start => q = r /\ d = c
  PROVE  BuffersOK'
<1>1. ASSUME NEW q \in 1..Len(region), NEW x \in InUse(region[q].chunks), x.start # c.start
      PROVE  x \in InUse(region'[q].chunks)
  BY <1>1
<1>2. ASSUME NEW q \in 1..Len(region), NEW x \in InUse(region'[q].chunks)
      PROVE  x \in InUse(region[q].chunks) /\ x.start # c.start
  BY <1>2
<1>3. \A d \in buffers' : d.start # c.start
  BY DEF BuffersOK
<1>4. ASSUME NEW d \in buffers'
      PROVE  \E q \in 1..Len(region') : \E x \in InUse(region'[q].chunks) :
               x.start = d.start /\ x.size >= d.size
  <2>1. PICK q \in 1..Len(region) : \E x \in InUse(region[q].chunks) : x.start = d.start /\ x.size >= d.size
    BY DEF BuffersOK
  <2>2. QED
    BY <1>1, <1>3, <2>1
<1>5. ASSUME NEW q \in 1..Len(region'), NEW x \in InUse(region'[q].chunks)
      PROVE  \E d \in buffers' : d.start = x.start
  <2>1. x \in InUse(region[q].chunks) /\ x.start # c.start
    BY <1>2, <1>5
  <2>2. QED
    BY <2>1 DEF BuffersOK
<1>6. /\ buffers' \subseteq [start : Nat, size : Sizes]
      /\ \A d, e \in buffers' : d.start = e.start => d = e
  BY DEF BuffersOK
<1>7. QED
  BY <1>4, <1>5, <1>6 DEF BuffersOK, InUse


-----------------------------------------------------------------------------
(* The actions keep the invariant.                                             *)

\* What the invariant says of the allocation in progress.
LEMMA JobFields ==
  ASSUME Inv, job.at # "none"
  PROVE  /\ job \in [at : {"append", "reuse", "grow"}, r : 0..MaxRegions, size : Sizes, fresh : BOOLEAN]
         /\ job.at \in {"append", "reuse", "grow"} /\ job.size \in Sizes /\ job.r \in 0..MaxRegions
         /\ job.at \in {"append", "reuse"} => job.r \in 1..Len(region)
<1>1. job # NoJob
  BY DEF NoJob
<1>2. job \in [at : {"append", "reuse", "grow"}, r : 0..MaxRegions, size : Sizes, fresh : BOOLEAN]
  BY <1>1 DEF Inv, JobOK
<1>3. QED
  BY <1>2 DEF Inv, JobOK

LEMMA InitInv == Init => Inv
<1> SUFFICES ASSUME Init PROVE Inv
  OBVIOUS
<1>1. region = <<>> /\ Len(region) = 0 /\ region \in Seq(Regions)
  BY DEF Init
<1>2. RegionsOK
  BY <1>1, RegionAssumption DEF RegionsOK
<1>3. JobOK
  BY DEF Init, JobOK, NoJob
<1>4. BuffersOK
  BY <1>1 DEF Init, BuffersOK
<1>5. Merged
  BY <1>1 DEF Merged
<1>6. QED
  BY <1>2, <1>3, <1>4, <1>5 DEF Init, Inv

\* A step that leaves the regions and the buffers alone.
LEMMA OnlyJob ==
  ASSUME Inv, UNCHANGED <<region, buffers, nextReadFirst>>, failed' \in BOOLEAN, JobOK'
  PROVE  Inv'
<1>0. region' = region /\ buffers' = buffers /\ nextReadFirst' = nextReadFirst
  OBVIOUS
<1>1. RegionsOK'
  BY <1>0 DEF Inv, RegionsOK
<1>2. BuffersOK'
  BY <1>0 DEF Inv, BuffersOK
<1>3. Merged'
  BY <1>0 DEF Inv, Merged
<1>4. {failed', nextReadFirst'} \subseteq BOOLEAN
  BY <1>0 DEF Inv
<1>5. QED
  BY <1>1, <1>2, <1>3, <1>4 DEF Inv

\* An allocation that is not in a new region.
LEMMA OrdinaryJob ==
  ASSUME job' \in [at : {"append", "reuse", "grow"}, r : 0..MaxRegions, size : Sizes, fresh : BOOLEAN],
         job'.fresh = FALSE, failed' = FALSE,
         job'.at \in {"append", "reuse"} => job'.r \in 1..Len(region')
  PROVE  JobOK'
BY DEF JobOK

LEMMA MallocInv ==
  ASSUME Inv, NEW n \in Sizes, Malloc(n)
  PROVE  Inv'
<1>1. Len(region) \in Nat /\ Len(region) <= MaxRegions /\ MaxRegions \in Nat
  BY LenProperties, RegionAssumption DEF Inv, RegionsOK
<1>2. failed' = FALSE
  BY DEF Malloc, At, Inv
<1>3. region' = region /\ UNCHANGED <<region, buffers, nextReadFirst>>
  BY DEF Malloc
<1>4. CASE region = <<>>
  <2>1. job' = Step("grow", 0, n, FALSE)
    BY <1>4 DEF Malloc
  <2>2. job' \in [at : {"append", "reuse", "grow"}, r : 0..MaxRegions, size : Sizes, fresh : BOOLEAN]
    BY <1>1, <2>1 DEF Step
  <2>3. JobOK'
    <3>1. job'.at = "grow" /\ job'.fresh = FALSE
      BY <2>1 DEF Step
    <3>2. QED
      BY <1>2, <2>2, <3>1, OrdinaryJob
  <2>4. QED
    BY <1>2, <1>3, <2>3, OnlyJob
<1>5. CASE region # <<>>
  <2>1. job' = Step("append", 1, n, FALSE)
    BY <1>5 DEF Malloc
  <2>2. 1 \in 1..Len(region)
    BY <1>1, <1>5, EmptySeq DEF Inv, RegionsOK
  <2>3. job' \in [at : {"append", "reuse", "grow"}, r : 0..MaxRegions, size : Sizes, fresh : BOOLEAN]
    BY <1>1, <2>1, <2>2 DEF Step
  <2>4. JobOK'
    <3>1. job'.at = "append" /\ job'.fresh = FALSE /\ job'.r = 1
      BY <2>1 DEF Step
    <3>2. job'.r \in 1..Len(region')
      BY <1>3, <2>2, <3>1
    <3>3. QED
      BY <1>2, <2>3, <3>1, <3>2, OrdinaryJob
  <2>5. QED
    BY <1>2, <1>3, <2>4, OnlyJob
<1>6. QED
  BY <1>4, <1>5

LEMMA GrowFailsInv == ASSUME Inv, GrowFails PROVE Inv'
<1>1. job' = NoJob /\ ~failed /\ failed' = failed /\ UNCHANGED <<region, buffers, nextReadFirst>>
  BY DEF GrowFails, At
<1>2. JobOK'
  BY <1>1 DEF JobOK, NoJob
<1>3. QED
  BY <1>1, <1>2, OnlyJob DEF Inv

LEMMA NoRoomInv == ASSUME Inv, NoRoom PROVE Inv'
<1>1. job.at = "reuse" /\ ~failed /\ UNCHANGED <<region, buffers, nextReadFirst>>
  BY DEF NoRoom, At
<1>2. /\ job \in [at : {"append", "reuse", "grow"}, r : 0..MaxRegions, size : Sizes, fresh : BOOLEAN]
      /\ job.r \in 1..Len(region) /\ job.r \in 0..MaxRegions /\ job.fresh \in BOOLEAN
  BY <1>1, JobFields
<1>3. Len(region) \in Nat /\ Len(region) <= MaxRegions /\ MaxRegions \in Nat
  BY LenProperties, RegionAssumption DEF Inv, RegionsOK
<1>4. CASE job.fresh
  <2>1. failed' = TRUE /\ job' = job
    BY <1>4 DEF NoRoom
  <2>2. JobOK'
    BY <1>1, <1>4, <2>1 DEF Inv, JobOK
  <2>3. QED
    BY <1>1, <2>1, <2>2, OnlyJob
<1>5. CASE ~job.fresh /\ job.r < Len(region)
  <2>1. job' = [job EXCEPT !.at = "append", !.r = @ + 1] /\ failed' = failed
    BY <1>5 DEF NoRoom
  <2>2. job.r + 1 \in 1..Len(region) /\ job.r + 1 \in 0..MaxRegions
    BY <1>2, <1>3, <1>5
  <2>3. /\ job' \in [at : {"append", "reuse", "grow"}, r : 0..MaxRegions, size : Sizes, fresh : BOOLEAN]
        /\ job'.at = "append" /\ job'.r = job.r + 1 /\ job'.fresh = job.fresh
    BY <1>2, <2>1, <2>2
  <2>4. JobOK'
    BY <1>1, <1>5, <2>1, <2>2, <2>3 DEF JobOK
  <2>5. QED
    BY <1>1, <2>1, <2>4, OnlyJob DEF Inv
<1>6. CASE ~job.fresh /\ ~(job.r < Len(region))
  <2>1. job' = [job EXCEPT !.at = "grow"] /\ failed' = failed
    BY <1>6 DEF NoRoom
  <2>2. /\ job' \in [at : {"append", "reuse", "grow"}, r : 0..MaxRegions, size : Sizes, fresh : BOOLEAN]
        /\ job'.at = "grow" /\ job'.fresh = job.fresh
    BY <1>2, <2>1
  <2>3. JobOK'
    BY <1>1, <1>6, <2>1, <2>2 DEF JobOK
  <2>4. QED
    BY <1>1, <2>1, <2>3, OnlyJob DEF Inv
<1>7. QED
  BY <1>4, <1>5, <1>6


\* A region that was just created.
LEMMA OneChunk ==
  ASSUME NEW base \in Nat, base % Alignment = 0, NEW size \in Nat, size >= 1
  PROVE  LET c == <<Chunk(base, size, FALSE)>>
         IN  Laid(c, base, size) /\ Len(c) = 1 /\ InUse(c) = {} /\ AllApart(c)
<1> DEFINE m == Chunk(base, size, FALSE)
           c == <<m>>
<1>1. /\ m \in Chunks /\ m.start = base /\ m.size = size /\ ~m.allocated /\ End(m) = base + size
  <2>1. size \in Int /\ FALSE \in BOOLEAN
    OBVIOUS
  <2>2. m \in Chunks /\ m.start = base /\ m.size = size /\ End(m) = base + size
    BY <2>1, ChunkFields
  <2>3. ~m.allocated
    BY DEF Chunk
  <2>4. QED
    BY <2>2, <2>3
<1> HIDE DEF m
<1>2. c \in Seq(Chunks) /\ Len(c) = 1 /\ c[1] = m
  BY <1>1
<1> HIDE DEF c
<1>3. 1..Len(c) = {1} /\ 1..(Len(c) - 1) = {}
  BY <1>2
<1>4. Laid(c, base, size)
  BY <1>1, <1>2, <1>3 DEF Laid
<1>5. InUse(c) = {}
  BY <1>1, <1>2, <1>3 DEF InUse
<1>6. AllApart(c)
  BY <1>3 DEF AllApart
<1>7. QED
  BY <1>2, <1>4, <1>5, <1>6 DEF c, m

LEMMA GrowInv ==
  ASSUME Inv, NEW n, Grow(n)
  PROVE  Inv'
<1> DEFINE L == Len(region)
           base == (L + 1) * Stride
           c == <<Chunk(base, n, FALSE)>>
           m == [base |-> base, size |-> n, spare |-> MaxChunks - 1, chunks |-> c]
<1>1. /\ region' = Append(region, m) /\ job' = Step("append", L + 1, job.size, TRUE)
      /\ UNCHANGED <<buffers, failed, nextReadFirst>> /\ L < MaxRegions
      /\ n \in {RegionSize(job.size), job.size} /\ ~failed /\ job.at = "grow"
  BY DEF Grow, At
<1>2. L \in Nat /\ region \in Seq(Regions) /\ MaxRegions \in Nat /\ MaxChunks \in Nat /\ MaxChunks > 1
  BY LenProperties, RegionAssumption DEF Inv, RegionsOK
<1>3. job.size \in Sizes /\ n \in Nat /\ n >= 1 /\ n <= Stride /\ Stride \in Nat
  <2>1. job.size \in Sizes
    BY <1>1, JobFields
  <2>2. /\ job.size \in Nat /\ job.size >= 1 /\ RegionSize(job.size) \in Nat
        /\ job.size <= RegionSize(job.size) /\ RegionSize(job.size) <= Stride /\ Stride \in Nat
    BY <2>1, RegionRoom, RegionAssumption
  <2>3. QED
    BY <1>1, <2>1, <2>2
<1>4. base \in Nat /\ base % Alignment = 0
  BY <1>2, Placement
<1>5. Laid(c, base, n) /\ Len(c) = 1 /\ InUse(c) = {} /\ AllApart(c)
  BY <1>3, <1>4, OneChunk
<1>6. c \in Seq(Chunks)
  BY <1>5 DEF Laid
<1> DEFINE b == base
<1>7. m.base = b /\ m.size = n /\ m.spare = MaxChunks - 1 /\ m.chunks = c
  OBVIOUS
<1>8. m \in Regions
  <2>1. MaxChunks - 1 \in 0..MaxChunks
    BY <1>2
  <2>2. QED
    BY <1>3, <1>4, <1>6, <2>1 DEF Regions
<1>9. RegionOK(m, L + 1)
  <2>1. n \in 1..Stride /\ 1 + (MaxChunks - 1) = MaxChunks
    BY <1>2, <1>3
  <2>2. m.base = (L + 1) * Stride
    OBVIOUS
  <2>3. Laid(m.chunks, m.base, m.size) /\ Len(m.chunks) + m.spare = MaxChunks
    BY <1>5, <2>1
  <2>4. QED
    BY <2>1, <2>2, <2>3 DEF RegionOK
<1> HIDE DEF m, c, b
<1>10. /\ region' \in Seq(Regions) /\ Len(region') = L + 1 /\ region'[L + 1] = m
       /\ \A q \in 1..L : region'[q] = region[q]
  BY <1>1, <1>2, <1>8, AppendProperties
<1> HIDE DEF L
<1>11. \A q \in 1..(L + 1) : q \in 1..L \/ q = L + 1
  BY <1>2
<1>12. L + 1 \in 1..(L + 1) /\ \A q \in 1..L : q \in 1..(L + 1)
  BY <1>2
<1>13. RegionsOK'
  <2>1. L + 1 <= MaxRegions
    BY <1>1, <1>2
  <2>2. \A q \in 1..Len(region') : RegionOK(region'[q], q)
    BY <1>9, <1>10, <1>11, RegionFields DEF Inv, L
  <2>3. QED
    BY <1>10, <2>1, <2>2 DEF RegionsOK, RegionOK, Laid, Adjoins, End
<1>14. JobOK'
  <2>1. /\ job'.at = "append" /\ job'.r = L + 1 /\ job'.size = job.size /\ job'.fresh = TRUE
        /\ job' = [at |-> "append", r |-> L + 1, size |-> job.size, fresh |-> TRUE]
    BY <1>1 DEF Step
  <2>2. L + 1 \in 0..MaxRegions
    BY <1>1, <1>2
  <2>3. job' \in [at : {"append", "reuse", "grow"}, r : 0..MaxRegions, size : Sizes, fresh : BOOLEAN]
    BY <1>3, <2>1, <2>2
  <2>4. failed' = failed /\ ~failed'
    BY <1>1
  <2>5. /\ region'[job'.r].size \in {RegionSize(job'.size), job'.size}
        /\ region'[job'.r].spare = MaxChunks - 1
        /\ region'[job'.r].chunks = <<Chunk(region'[job'.r].base, region'[job'.r].size, FALSE)>>
    BY <1>1, <1>7, <1>10, <2>1 DEF c, b
  <2>6. job'.r = Len(region') /\ job'.r \in 1..Len(region')
    BY <1>10, <1>12, <2>1
  <2>7. QED
    BY <2>1, <2>3, <2>4, <2>5, <2>6 DEF JobOK, Chunk
<1>15. BuffersOK'
  <2>0. buffers' = buffers
    BY <1>1
  <2>1. ASSUME NEW d \in buffers'
        PROVE  \E q \in 1..Len(region') : \E x \in InUse(region'[q].chunks) :
                 x.start = d.start /\ x.size >= d.size
    <3>1. PICK q \in 1..L : \E x \in InUse(region[q].chunks) : x.start = d.start /\ x.size >= d.size
      BY <2>0 DEF Inv, BuffersOK, L
    <3>2. QED
      BY <1>10, <1>12, <3>1
  <2>2. ASSUME NEW q \in 1..Len(region'), NEW x \in InUse(region'[q].chunks)
        PROVE  \E d \in buffers' : d.start = x.start
    <3>1. q # L + 1
      BY <1>5, <1>7, <1>10, <2>2
    <3>2. q \in 1..L /\ region'[q] = region[q]
      BY <1>10, <1>11, <3>1
    <3>3. QED
      BY <2>0, <2>2, <3>2 DEF Inv, BuffersOK, L
  <2>3. QED
    BY <2>0, <2>1, <2>2 DEF Inv, BuffersOK, InUse
<1>16. Merged'
  <2> SUFFICES ASSUME nextReadFirst', NEW q \in 1..Len(region') PROVE AllApart(region'[q].chunks)
    BY DEF Merged, AllApart, Apart
  <2>1. CASE q = L + 1
    BY <1>5, <1>7, <1>10, <2>1
  <2>2. CASE q \in 1..L
    BY <1>1, <1>10, <2>2 DEF Inv, Merged, L
  <2>3. QED
    BY <1>10, <1>11, <2>1, <2>2
<1>17. {failed', nextReadFirst'} \subseteq BOOLEAN
  BY <1>1 DEF Inv
<1>18. QED
  BY <1>13, <1>14, <1>15, <1>16, <1>17 DEF Inv


\* The buffer that the end of a region gives, and where it is.
LEMMA AppendStep ==
  ASSUME Inv, Append_New_Chunk, Fits(Last(region[job.r].chunks), job.size), region[job.r].spare > 0
  PROVE  LET r == job.r
             n == job.size
             c == region[r].chunks
             start == RoundUp(c[Len(c)].start)
             b == [start |-> start, size |-> n]
         IN  /\ r \in 1..Len(region) /\ n \in Sizes /\ n \in Nat /\ n >= 1
             /\ Changed(r, Appended(c, n), region[r].spare - 1)
             /\ InUse(Appended(c, n)) = InUse(c) \cup {Chunk(start, n, TRUE)}
             /\ start \in Nat /\ start % Alignment = 0
             /\ region[r].base <= start /\ start + n < region[r].base + region[r].size
             /\ \A k \in 1..(Len(c) - 1) : End(c[k]) <= start
             /\ AllApart(c) => AllApart(Appended(c, n))
             /\ buffers' = buffers \cup {b} /\ job' = NoJob
<1> DEFINE r == job.r
           n == job.size
           c == region[r].chunks
           start == RoundUp(c[Len(c)].start)
           b == [start |-> start, size |-> n]
<1>1. job.at = "append" /\ RegionsOK
  BY DEF Append_New_Chunk, At, Inv
<1>2. r \in 1..Len(region) /\ n \in Sizes
  BY <1>1, JobFields
<1>3. n \in Nat /\ n >= 1
  BY <1>2, RegionRoom
<1>4. /\ region' = [region EXCEPT ![r].chunks = Appended(c, n), ![r].spare = region[r].spare - 1]
      /\ buffers' = buffers \cup {b} /\ job' = NoJob
  BY DEF Append_New_Chunk, Finish, Last
<1>5. region' = With(r, Appended(c, n), region[r].spare - 1)
  BY <1>1, <1>2, <1>4, WithForms
<1>6. /\ Laid(c, region[r].base, region[r].size) /\ region[r].base \in Int /\ region[r].size \in Int
      /\ region[r].base % Alignment = 0 /\ region[r].spare \in 0..MaxChunks
      /\ Len(c) \in Nat /\ RegionOK(region[r], r)
  BY <1>1, <1>2, RegionFields
<1>7. Fits(c[Len(c)], n)
  BY DEF Last
<1>8. /\ start \in Nat /\ start % Alignment = 0
      /\ Laid(Appended(c, n), region[r].base, region[r].size) /\ Len(Appended(c, n)) = Len(c) + 1
      /\ InUse(Appended(c, n)) = InUse(c) \cup {Chunk(start, n, TRUE)}
      /\ \A k \in 1..(Len(c) - 1) : End(c[k]) <= start
      /\ region[r].base <= start /\ start + n < region[r].base + region[r].size
      /\ AllApart(c) => AllApart(Appended(c, n))
  BY <1>3, <1>6, <1>7, AppendedKeeps
<1>9. region[r].spare - 1 \in Nat /\ Len(Appended(c, n)) + (region[r].spare - 1) = MaxChunks
  <2>1. Len(c) + region[r].spare = MaxChunks
    BY <1>6 DEF RegionOK
  <2>2. MaxChunks \in Nat
    BY RegionAssumption
  <2>3. Len(Appended(c, n)) = Len(c) + 1
    BY <1>8
  <2>4. region[r].spare \in Nat /\ region[r].spare > 0 /\ Len(c) \in Nat
    BY <1>6
  <2> HIDE DEF c, r, n
  <2>5. QED
    BY <2>1, <2>2, <2>3, <2>4
<1> HIDE DEF r, n, c, start, b
<1>10. Changed(r, Appended(c, n), region[r].spare - 1)
  BY <1>5, <1>8, <1>9 DEF Changed
<1>11. QED
  BY <1>2, <1>3, <1>4, <1>8, <1>10 DEF r, n, c, start, b

\* No buffer is where the new one goes.
LEMMA AppendFresh ==
  ASSUME Inv, Append_New_Chunk, Fits(Last(region[job.r].chunks), job.size), region[job.r].spare > 0
  PROVE  \A q \in 1..Len(region) : \A y \in InUse(region[q].chunks) :
           y.start # RoundUp(region[job.r].chunks[Len(region[job.r].chunks)].start)
<1> DEFINE r == job.r
           n == job.size
           c == region[r].chunks
           start == RoundUp(c[Len(c)].start)
<1>1. /\ RegionsOK /\ r \in 1..Len(region)
      /\ Laid(c, region[r].base, region[r].size) /\ region[r].base \in Nat /\ region[r].size \in Nat
      /\ Len(c) \in Nat /\ Len(region) \in Nat
  <2>1. RegionsOK /\ r \in 1..Len(region)
    BY AppendStep DEF Inv
  <2>2. QED
    BY <2>1, RegionFields, LenProperties DEF RegionsOK
<1>2. /\ start \in Nat /\ n \in Nat /\ n >= 1
      /\ region[r].base <= start /\ start + n < region[r].base + region[r].size
      /\ \A k \in 1..(Len(c) - 1) : End(c[k]) <= start
  BY AppendStep
<1> HIDE DEF r, n, c, start
<1> SUFFICES ASSUME NEW q \in 1..Len(region), NEW y \in InUse(region[q].chunks), y.start = start
             PROVE  FALSE
  BY DEF r, c, start
<1>3. PICK k \in 1..Len(region[q].chunks) : y = region[q].chunks[k] /\ y.allocated
  BY DEF InUse
<1>4. /\ Laid(region[q].chunks, region[q].base, region[q].size) /\ region[q].base \in Int
      /\ region[q].size \in Int /\ region[q].chunks \in Seq(Chunks)
  BY <1>1, RegionFields
<1>5. /\ region[q].base <= y.start /\ y.start < End(y) /\ End(y) <= region[q].base + region[q].size
      /\ y.start \in Nat /\ End(y) \in Int
  BY <1>3, <1>4, ChunkInside, ChunksIn
<1>6. CASE q = r
  <2>1. k # Len(c)
    BY <1>1, <1>3, <1>6 DEF Laid, c
  <2>2. k \in 1..(Len(c) - 1) /\ y = c[k]
    BY <1>1, <1>3, <1>6, <2>1 DEF c
  <2>3. End(y) <= start
    BY <1>2, <2>2
  <2>4. QED
    BY <1>2, <1>5, <2>3
<1>7. CASE q < r
  <2>1. region[q].base + region[q].size <= region[r].base
    BY <1>1, <1>7, RegionsFollow
  <2>2. QED
    BY <1>1, <1>2, <1>4, <1>5, <2>1
<1>8. CASE r < q
  <2>1. region[r].base + region[r].size <= region[q].base
    BY <1>1, <1>8, RegionsFollow
  <2>2. QED
    BY <1>1, <1>2, <1>4, <1>5, <2>1
<1>9. q = r \/ q < r \/ r < q
  BY <1>1
<1>10. QED
  BY <1>6, <1>7, <1>8, <1>9

LEMMA AppendInv ==
  ASSUME Inv, Append_New_Chunk
  PROVE  Inv'
<1> DEFINE r == job.r
           n == job.size
           c == region[r].chunks
<1>1. /\ job.at = "append" /\ ~failed /\ failed' = failed /\ nextReadFirst' = nextReadFirst
      /\ RegionsOK /\ BuffersOK /\ Merged /\ {failed, nextReadFirst} \subseteq BOOLEAN
  BY DEF Append_New_Chunk, At, Inv
<1>2. /\ r \in 1..Len(region) /\ n \in Sizes /\ r \in 0..MaxRegions
      /\ job \in [at : {"append", "reuse", "grow"}, r : 0..MaxRegions, size : Sizes, fresh : BOOLEAN]
  BY <1>1, JobFields
<1>3. /\ Laid(c, region[r].base, region[r].size) /\ region[r].base \in Nat /\ region[r].size \in Nat
      /\ c \in Seq(Chunks) /\ Len(c) \in Nat /\ Len(c) >= 1 /\ region[r].base % Alignment = 0
  BY <1>1, <1>2, RegionFields
<1>4. CASE Fits(Last(c), n) /\ region[r].spare > 0
  <2> DEFINE start == RoundUp(c[Len(c)].start)
             d == Appended(c, n)
             b == [start |-> start, size |-> n]
             x == Chunk(start, n, TRUE)
  <2>1. /\ n \in Nat /\ n >= 1 /\ Changed(r, d, region[r].spare - 1)
        /\ InUse(d) = InUse(c) \cup {x} /\ start \in Nat
        /\ region[r].base <= start /\ start + n < region[r].base + region[r].size
        /\ \A k \in 1..(Len(c) - 1) : End(c[k]) <= start
        /\ AllApart(c) => AllApart(d)
        /\ buffers' = buffers \cup {b} /\ job' = NoJob
    BY <1>4, AppendStep
  <2>2. x.start = start /\ x.size = n /\ b.start = start /\ b.size = n /\ b \in [start : Nat, size : Sizes]
    BY <1>2, <2>1 DEF Chunk
  <2> HIDE DEF r, n, c, d, b, x, start
  <2>3. /\ RegionsOK' /\ Len(region') = Len(region) /\ region'[r].chunks = d
        /\ \A q \in 1..Len(region) : q # r => region'[q] = region[q]
    BY <1>1, <1>2, <2>1, ChangedRegions
  <2>4. JobOK'
    BY <1>1, <2>1 DEF JobOK, NoJob
  <2>5. \A q \in 1..Len(region) : \A y \in InUse(region[q].chunks) : y.start # start
    BY <1>4, AppendFresh DEF r, n, c, start
  <2>6. BuffersOK'
    <3>1. x.size >= b.size
      BY <2>1, <2>2
    <3>2. InUse(region'[r].chunks) = InUse(region[r].chunks) \cup {x}
      BY <2>1, <2>3 DEF c
    <3>3. QED
      BY <1>1, <1>2, <2>1, <2>2, <2>3, <2>5, <3>1, <3>2, BuffersGrow
  <2>7. Merged'
    <3> SUFFICES ASSUME nextReadFirst', NEW q \in 1..Len(region) PROVE AllApart(region'[q].chunks)
      BY <2>3 DEF Merged, AllApart, Apart
    <3>1. AllApart(region[q].chunks) /\ AllApart(c)
      BY <1>1, <1>2 DEF Merged, c
    <3>2. QED
      BY <2>1, <2>3, <3>1
  <2>8. QED
    BY <1>1, <2>3, <2>4, <2>6, <2>7 DEF Inv
<1>5. CASE ~(Fits(Last(c), n) /\ region[r].spare > 0)
  <2>1. job' = [job EXCEPT !.at = "reuse"] /\ region' = region /\ buffers' = buffers
    BY <1>5 DEF Append_New_Chunk
  <2>2. /\ job' \in [at : {"append", "reuse", "grow"}, r : 0..MaxRegions, size : Sizes, fresh : BOOLEAN]
        /\ job'.at = "reuse" /\ job'.r = r /\ job'.fresh = job.fresh /\ job'.size = n
    BY <1>2, <2>1
  <2> DEFINE m == region[r]
  <2>3. ASSUME job.fresh
        PROVE  /\ r = Len(region) /\ m.size \in {RegionSize(n), n} /\ m.spare = MaxChunks - 1
               /\ c = <<Chunk(m.base, m.size, FALSE)>>
    BY <1>1, <2>3 DEF Inv, JobOK
  <2>4. ASSUME job.fresh
        PROVE  m.size = n /\ (n < RegionSize(n) \/ Overflows(n))
    <3>1. Len(c) = 1 /\ c[1] = Chunk(m.base, m.size, FALSE)
      <4> HIDE DEF c
      <4>1. \A x : Len(<<x>>) = 1 /\ <<x>>[1] = x
        OBVIOUS
      <4>2. c = <<Chunk(m.base, m.size, FALSE)>>
        BY <2>3, <2>4
      <4>3. QED
        BY <4>1, <4>2, Zenon
    <3>2. Last(c) = Chunk(m.base, m.size, FALSE)
      BY <3>1 DEF Last
    <3>3. m.spare > 0
      BY <2>3, <2>4, RegionAssumption
    <3>4. Last(c).start = m.base /\ End(Last(c)) = m.base + m.size
      BY <3>2 DEF Chunk, End
    <3>5. RoundUp(Last(c).start) = m.base
      BY <1>3, <3>4, RoundUpAligns
    <3>6. ~(m.base + m.size > m.base + n)
      BY <1>5, <3>3, <3>4, <3>5 DEF Fits
    <3>7. /\ n \in Nat /\ RegionSize(n) \in Nat /\ n <= RegionSize(n)
          /\ n < RegionSize(n) \/ Overflows(n)
      BY <1>2, RegionRoom
    <3>8. m.size <= n
      BY <1>3, <3>6, <3>7
    <3>9. m.size = n
      BY <2>3, <2>4, <3>7, <3>8
    <3>10. QED
      BY <3>7, <3>9
  <2>5. JobOK'
    <3>1. CASE job.fresh
      BY <1>1, <1>2, <2>1, <2>2, <2>3, <2>4, <3>1 DEF JobOK
    <3>2. CASE ~job.fresh
      BY <1>1, <1>2, <2>1, <2>2, <3>2 DEF JobOK
    <3>3. QED
      BY <3>1, <3>2
  <2>6. QED
    BY <1>1, <2>1, <2>5, OnlyJob
<1>6. QED
  BY <1>4, <1>5


\* The free chunk that an allocation takes, and that its address is nobody's.
LEMMA ReuseStep ==
  ASSUME Inv, NEW i, Reuse(i)
  PROVE  LET r == job.r
             n == job.size
             c == region[r].chunks
             b == [start |-> c[i].start, size |-> n]
         IN  /\ r \in 1..Len(region) /\ n \in Sizes /\ n \in Nat /\ n >= 1
             /\ i \in 1..(Len(c) - 1) /\ ~c[i].allocated
             /\ c[i].start % Alignment = 0 /\ c[i].start \in Nat /\ c[i].size \in Int /\ c[i].size >= n
             /\ Changed(r, Marked(c, i, TRUE), region[r].spare)
             /\ buffers' = buffers \cup {b} /\ job' = NoJob
             /\ \A q \in 1..Len(region) : \A y \in InUse(region[q].chunks) : y.start # c[i].start
<1> DEFINE r == job.r
           n == job.size
           c == region[r].chunks
           b == [start |-> c[i].start, size |-> n]
<1>1. job.at = "reuse" /\ RegionsOK
  BY DEF Reuse, At, Inv
<1>2. r \in 1..Len(region) /\ n \in Sizes
  BY <1>1, JobFields
<1>3. n \in Nat /\ n >= 1
  BY <1>2, RegionRoom
<1>4. i \in Reusable(c, n) /\ buffers' = buffers \cup {b} /\ job' = NoJob
  BY DEF Reuse, Finish
<1>5. i \in 1..(Len(c) - 1) /\ ~c[i].allocated /\ Fits(c[i], n)
  BY <1>4 DEF Reusable
<1>6. /\ Laid(c, region[r].base, region[r].size) /\ c \in Seq(Chunks) /\ Len(c) \in Nat
      /\ region[r].spare \in 0..MaxChunks /\ RegionOK(region[r], r)
  BY <1>1, <1>2, RegionFields
<1>7. i \in 1..Len(c)
  BY <1>5, <1>6
<1>8. c[i].start \in Nat /\ c[i].size \in Int /\ End(c[i]) = c[i].start + c[i].size
  BY <1>6, <1>7, ChunksIn
<1>9. c[i].start % Alignment = 0
  BY <1>5, <1>6 DEF Laid, Adjoins
<1>10. c[i].size >= n
  <2>1. RoundUp(c[i].start) = c[i].start
    BY <1>8, <1>9, RoundUpAligns
  <2>2. c[i].start + c[i].size > c[i].start + n
    BY <1>5, <1>8, <2>1 DEF Fits
  <2>3. QED
    BY <1>3, <1>8, <2>2
<1>11. Changed(r, Marked(c, i, TRUE), region[r].spare)
  <2>1. region' = [region EXCEPT ![r].chunks[i].allocated = TRUE]
    BY DEF Reuse
  <2>2. region' = With(r, Marked(c, i, TRUE), region[r].spare)
    BY <1>1, <1>2, <2>1, WithForms
  <2>3. Laid(Marked(c, i, TRUE), region[r].base, region[r].size)
    BY <1>5, <1>6, MarkedLaid
  <2>4. Len(Marked(c, i, TRUE)) + region[r].spare = MaxChunks
    BY <1>6, <1>7, MarkedFields DEF RegionOK
  <2>5. region[r].spare \in Nat
    BY <1>6
  <2>6. QED
    BY <2>2, <2>3, <2>4, <2>5 DEF Changed
<1>12. ASSUME NEW q \in 1..Len(region), NEW y \in InUse(region[q].chunks)
       PROVE  y.start # c[i].start
  <2>1. PICK k \in 1..Len(region[q].chunks) : y = region[q].chunks[k] /\ y.allocated
    BY DEF InUse
  <2>2. CASE y.start = c[i].start
    <3>1. q = r /\ k = i
      BY <1>1, <1>2, <1>7, <2>1, <2>2, OneStart
    <3>2. QED
      BY <1>5, <2>1, <3>1
  <2>3. QED
    BY <2>2
<1> HIDE DEF r, n, c, b
<1>13. QED
  BY <1>2, <1>3, <1>4, <1>5, <1>8, <1>9, <1>10, <1>11, <1>12 DEF r, n, c, b

LEMMA ReuseInv ==
  ASSUME Inv, NEW i, Reuse(i)
  PROVE  Inv'
<1> DEFINE r == job.r
           n == job.size
           c == region[r].chunks
           d == Marked(c, i, TRUE)
           b == [start |-> c[i].start, size |-> n]
           x == Chunk(c[i].start, c[i].size, TRUE)
<1>1. /\ ~failed /\ failed' = failed /\ nextReadFirst' = nextReadFirst
      /\ RegionsOK /\ BuffersOK /\ Merged /\ {failed, nextReadFirst} \subseteq BOOLEAN
  BY DEF Reuse, At, Inv
<1>2. /\ r \in 1..Len(region) /\ n \in Sizes /\ n \in Nat /\ n >= 1
      /\ i \in 1..(Len(c) - 1) /\ ~c[i].allocated
      /\ c[i].start \in Nat /\ c[i].size \in Int /\ c[i].size >= n
      /\ Changed(r, d, region[r].spare)
      /\ buffers' = buffers \cup {b} /\ job' = NoJob
      /\ \A q \in 1..Len(region) : \A y \in InUse(region[q].chunks) : y.start # c[i].start
  BY ReuseStep
<1>3. /\ Laid(c, region[r].base, region[r].size) /\ c \in Seq(Chunks) /\ Len(c) \in Nat
  BY <1>1, <1>2, RegionFields
<1>4. InUse(d) = InUse(c) \cup {x}
  BY <1>2, <1>3, MarkedInUse
<1>5. x.start = c[i].start /\ x.size = c[i].size /\ b.start = c[i].start /\ b.size = n
      /\ b \in [start : Nat, size : Sizes]
  BY <1>2 DEF Chunk
<1>6. AllApart(c) => AllApart(d)
  <2> SUFFICES ASSUME AllApart(c) PROVE AllApart(d)
    OBVIOUS
  <2>1. i \in 1..Len(c)
    BY <1>2, <1>3
  <2>2. Len(d) = Len(c) /\ d[i] = x /\ \A k \in 1..Len(c) : k # i => d[k] = c[k]
    BY <1>3, <2>1, MarkedFields
  <2>3. \A k \in 1..Len(c) : c[k].allocated => d[k].allocated
    BY <1>2, <2>2
  <2> HIDE DEF d, c
  <2>4. ASSUME NEW k \in 1..(Len(d) - 1)
        PROVE  Apart(d, k)
    <3>1. k \in 1..(Len(c) - 1) /\ k \in 1..Len(c) /\ k + 1 \in 1..Len(c)
      BY <1>3, <2>2
    <3>2. Apart(c, k)
      BY <3>1 DEF AllApart
    <3>3. QED
      BY <2>3, <3>1, <3>2 DEF Apart
  <2>5. QED
    BY <2>4 DEF AllApart
<1> HIDE DEF r, n, c, d, b, x
<1>7. /\ RegionsOK' /\ Len(region') = Len(region) /\ region'[r].chunks = d
      /\ \A q \in 1..Len(region) : q # r => region'[q] = region[q]
  BY <1>1, <1>2, ChangedRegions
<1>8. JobOK'
  BY <1>1, <1>2 DEF JobOK, NoJob
<1>9. BuffersOK'
  <2>1. x.size >= b.size /\ b.start = x.start
    BY <1>2, <1>5
  <2>2. InUse(region'[r].chunks) = InUse(region[r].chunks) \cup {x}
    BY <1>4, <1>7 DEF c
  <2>3. \A q \in 1..Len(region) : \A y \in InUse(region[q].chunks) : y.start # x.start
    BY <1>2, <1>5
  <2>4. QED
    BY <1>1, <1>2, <1>5, <1>7, <2>1, <2>2, <2>3, BuffersGrow
<1>10. Merged'
  <2> SUFFICES ASSUME nextReadFirst', NEW q \in 1..Len(region) PROVE AllApart(region'[q].chunks)
    BY <1>7 DEF Merged, AllApart, Apart
  <2>1. AllApart(region[q].chunks) /\ AllApart(c)
    BY <1>1, <1>2 DEF Merged, c
  <2>2. QED
    BY <1>6, <1>7, <2>1
<1>11. QED
  BY <1>1, <1>7, <1>8, <1>9, <1>10 DEF Inv

\* free_buffer finds the buffer's own chunk.
LEMMA FreeStep ==
  ASSUME Inv, NEW b \in buffers, Free(b)
  PROVE  \E r \in 1..Len(region) : \E i \in 1..Len(region[r].chunks) :
           /\ region[r].chunks[i].allocated /\ region[r].chunks[i].start = b.start
           /\ Changed(r, Freed(region[r].chunks, i),
                      region[r].spare + (Len(region[r].chunks) - Len(Freed(region[r].chunks, i))))
<1>1. RegionsOK /\ BuffersOK /\ nextReadFirst \in BOOLEAN
  BY DEF Inv
<1>2. DOMAIN region = 1..Len(region)
  BY <1>1 DEF RegionsOK
<1>3. PICK r \in 1..Len(region) :
        \E i \in {k \in DOMAIN region[r].chunks : region[r].chunks[k].start = b.start} :
          region' = [region EXCEPT ![r].chunks = Freed(region[r].chunks, i),
                                   ![r].spare = region[r].spare
                                     + (Len(region[r].chunks) - Len(Freed(region[r].chunks, i)))]
  BY <1>2 DEF Free
<1> DEFINE c == region[r].chunks
<1>4. /\ Laid(c, region[r].base, region[r].size) /\ c \in Seq(Chunks) /\ Len(c) \in Nat
      /\ region[r].spare \in 0..MaxChunks /\ RegionOK(region[r], r)
      /\ region[r].base \in Int /\ region[r].size \in Int
  BY <1>1, RegionFields
<1>5. DOMAIN c = 1..Len(c)
  BY <1>4
<1>6. PICK i \in 1..Len(c) :
        /\ c[i].start = b.start
        /\ region' = [region EXCEPT ![r].chunks = Freed(c, i),
                                    ![r].spare = region[r].spare + (Len(c) - Len(Freed(c, i)))]
  BY <1>3, <1>5
<1>7. c[i].allocated
  <2>1. PICK q \in 1..Len(region) : \E x \in InUse(region[q].chunks) : x.start = b.start
    BY <1>1 DEF BuffersOK
  <2>2. PICK k \in 1..Len(region[q].chunks) :
          region[q].chunks[k].allocated /\ region[q].chunks[k].start = b.start
    BY <2>1 DEF InUse
  <2>3. q = r /\ k = i
    BY <1>1, <1>6, <2>2, OneStart
  <2>4. QED
    BY <2>2, <2>3
<1> DEFINE d == Freed(c, i)
           n == region[r].spare + (Len(c) - Len(d))
<1>8. Laid(d, region[r].base, region[r].size) /\ Len(d) \in 1..Len(c)
  BY <1>1, <1>4, <1>7, FreedKeeps
<1>9. region' = With(r, d, n)
  BY <1>1, <1>6, WithForms
<1> HIDE DEF d
<1>10. n \in Nat /\ Len(d) + n = MaxChunks
  <2>1. Len(c) + region[r].spare = MaxChunks /\ MaxChunks \in Nat
    BY <1>4, RegionAssumption DEF RegionOK
  <2> HIDE DEF c
  <2>2. QED
    BY <1>4, <1>8, <2>1
<1>11. Changed(r, d, n)
  BY <1>8, <1>9, <1>10 DEF Changed
<1>12. QED
  BY <1>6, <1>7, <1>11 DEF d

LEMMA FreeInv ==
  ASSUME Inv, NEW b \in buffers, Free(b)
  PROVE  Inv'
<1>1. /\ ~failed /\ failed' = failed /\ nextReadFirst' = nextReadFirst /\ job' = job
      /\ buffers' = buffers \ {b} /\ JobOK
      /\ RegionsOK /\ BuffersOK /\ Merged /\ {failed, nextReadFirst} \subseteq BOOLEAN
  BY DEF Free, Inv
<1>2. PICK r \in 1..Len(region) : \E i \in 1..Len(region[r].chunks) :
        /\ region[r].chunks[i].allocated /\ region[r].chunks[i].start = b.start
        /\ Changed(r, Freed(region[r].chunks, i),
                   region[r].spare + (Len(region[r].chunks) - Len(Freed(region[r].chunks, i))))
  BY FreeStep
<1> DEFINE c == region[r].chunks
<1>3. PICK i \in 1..Len(c) :
        /\ c[i].allocated /\ c[i].start = b.start
        /\ Changed(r, Freed(c, i), region[r].spare + (Len(c) - Len(Freed(c, i))))
  BY <1>2
<1> DEFINE d == Freed(c, i)
<1>4. /\ Laid(c, region[r].base, region[r].size) /\ region[r].base \in Int /\ region[r].size \in Int
      /\ Len(c) \in Nat
  BY <1>1, RegionFields
<1>5. InUse(d) = InUse(c) \ {c[i]} /\ (nextReadFirst /\ AllApart(c) => AllApart(d))
  BY <1>1, <1>3, <1>4, FreedKeeps
<1> HIDE DEF d
<1>6. /\ RegionsOK' /\ Len(region') = Len(region) /\ region'[r].chunks = d
      /\ \A q \in 1..Len(region) : q # r => region'[q] = region[q]
  BY <1>1, <1>3, ChangedRegions DEF d
<1>7. c[i] \in InUse(c)
  BY <1>3 DEF InUse
<1>8. ASSUME NEW q \in 1..Len(region), NEW x \in InUse(region[q].chunks), x.start = c[i].start
      PROVE  q = r /\ x = c[i]
  <2>1. PICK k \in 1..Len(region[q].chunks) : x = region[q].chunks[k]
    BY DEF InUse
  <2>2. i \in 1..Len(region[r].chunks) /\ region[q].chunks[k].start = region[r].chunks[i].start
    BY <1>8, <2>1
  <2>3. q = r /\ k = i
    BY <1>1, <2>2, OneStart
  <2>4. QED
    BY <2>1, <2>3
<1>9. BuffersOK'
  <2>1. InUse(region'[r].chunks) = InUse(region[r].chunks) \ {c[i]}
    BY <1>5, <1>6
  <2>2. \A q \in 1..Len(region) : \A x \in InUse(region[q].chunks) : x.start = c[i].start => q = r /\ x = c[i]
    BY <1>8
  <2> DEFINE x == c[i]
  <2>3. x \in InUse(region[r].chunks) /\ b.start = x.start
    BY <1>3, <1>7
  <2> HIDE DEF x
  <2>4. QED
    BY <1>1, <1>6, <2>1, <2>2, <2>3, BuffersShrink DEF x
<1>10. Merged'
  <2> SUFFICES ASSUME nextReadFirst', NEW q \in 1..Len(region) PROVE AllApart(region'[q].chunks)
    BY <1>6 DEF Merged, AllApart, Apart
  <2>1. nextReadFirst /\ AllApart(region[q].chunks) /\ AllApart(c)
    BY <1>1 DEF Merged
  <2>2. QED
    BY <1>5, <1>6, <2>1
<1>11. JobOK'
  <2>1. CASE job.at = "none" \/ ~job.fresh
    BY <1>1, <1>6, <2>1 DEF JobOK
  <2>2. CASE job.at # "none" /\ job.fresh
    <3>1. /\ job.r = Len(region) /\ region[job.r].chunks = <<Chunk(region[job.r].base, region[job.r].size, FALSE)>>
      BY <1>1, <2>2 DEF JobOK
    <3>2. job.r # r
      <4> SUFFICES ASSUME job.r = r PROVE FALSE
        OBVIOUS
      <4>1. c = <<Chunk(region[r].base, region[r].size, FALSE)>>
        BY <3>1
      <4>2. ~Chunk(region[r].base, region[r].size, FALSE).allocated
        BY DEF Chunk
      <4>3. ~c[Len(c)].allocated
        BY <1>4 DEF Laid
      <4>4. \A x : Len(<<x>>) = 1
        OBVIOUS
      <4>5. Len(c) = 1
        BY <4>1, <4>4, Zenon
      <4>6. QED
        BY <1>3, <4>3, <4>5
    <3>3. job.r \in 1..Len(region)
      <4>1. Len(region) \in Nat /\ Len(region) >= 1
        BY <1>1, LenProperties DEF RegionsOK
      <4>2. QED
        BY <3>1, <4>1
    <3>4. region'[job.r] = region[job.r]
      BY <1>6, <3>2, <3>3
    <3>5. QED
      BY <1>1, <1>6, <2>2, <3>4 DEF JobOK, Chunk
  <2>3. QED
    BY <2>1, <2>2
<1>12. QED
  BY <1>1, <1>6, <1>9, <1>10, <1>11 DEF Inv


LEMMA InvNext == Inv /\ [Next]_vars => Inv'
<1> SUFFICES ASSUME Inv, [Next]_vars PROVE Inv'
  OBVIOUS
<1>1. ASSUME NEW n \in Sizes, Malloc(n) PROVE Inv'
  BY <1>1, MallocInv
<1>2. CASE Append_New_Chunk
  BY <1>2, AppendInv
<1>3. CASE NoRoom
  BY <1>3, NoRoomInv
<1>4. CASE GrowFails
  BY <1>4, GrowFailsInv
<1>5. ASSUME NEW i, Reuse(i) PROVE Inv'
  BY <1>5, ReuseInv
<1>6. ASSUME NEW n, Grow(n) PROVE Inv'
  BY <1>6, GrowInv
<1>7. ASSUME NEW b \in buffers, Free(b) PROVE Inv'
  BY <1>7, FreeInv
<1>8. CASE UNCHANGED vars
  <2>1. UNCHANGED <<region, buffers, nextReadFirst>> /\ job' = job /\ failed' = failed
    BY <1>8 DEF vars
  <2>2. JobOK'
    BY <2>1 DEF Inv, JobOK
  <2>3. failed' \in BOOLEAN
    BY <2>1 DEF Inv
  <2>4. QED
    BY <2>1, <2>2, <2>3, OnlyJob
<1>9. QED
  BY <1>1, <1>2, <1>3, <1>4, <1>5, <1>6, <1>7, <1>8 DEF Next

LEMMA InvAlways == Spec => []Inv
BY InitInv, InvNext, PTL DEF Spec

-----------------------------------------------------------------------------
(* What follows from it.                                                       *)

\* Type correctness: regions and their chunks, the step of an allocation and
\* the program's buffers are what bufalloc.c takes them for, whatever is
\* allocated and freed in whatever order.
THEOREM AllocatorTypes == Spec => []TypeOK
<1>1. Inv => TypeOK
  <2> SUFFICES ASSUME Inv PROVE TypeOK
    OBVIOUS
  <2>1. region \in Seq([base : Nat, size : Nat, spare : 0..MaxChunks,
                        chunks : Seq([start : Nat, size : Int, allocated : BOOLEAN])])
    BY DEF Inv, RegionsOK, Regions, Chunks
  <2>2. QED
    BY <2>1 DEF Inv, JobOK, BuffersOK, TypeOK
<1>2. QED
  BY <1>1, InvAlways, PTL

\* The chunks of every region tile it in address order, with only alignment
\* padding between them, its sentinel never runs empty or is used, and its
\* descriptors are all either in the list or spare: after any sequence of
\* allocations and frees, also between the steps of one allocation.
THEOREM RegionsStayTiled == Spec => []RegionsTiled
<1>1. Inv => RegionsTiled
  <2> SUFFICES ASSUME Inv, NEW r \in 1..Len(region) PROVE Tiled(region[r])
    BY DEF Inv, RegionsOK, RegionsTiled
  <2>1. /\ Laid(region[r].chunks, region[r].base, region[r].size) /\ RegionOK(region[r], r)
        /\ region[r].chunks \in Seq(Chunks)
    BY RegionFields DEF Inv
  <2> DEFINE c == region[r].chunks
  <2>2. DOMAIN c = 1..Len(c) /\ c # <<>>
    BY <2>1 DEF Laid
  <2>3. /\ c[1].start = region[r].base /\ End(Last(c)) = region[r].base + region[r].size
        /\ ~Last(c).allocated
    BY <2>1 DEF Laid, Last
  <2>4. /\ \A i \in DOMAIN c : c[i].size > 0
        /\ \A i \in 1..(Len(c) - 1) : /\ c[i].start % Alignment = 0
                                      /\ c[i + 1].start - End(c[i]) \in 0..(Alignment - 1)
    BY <2>1, <2>2 DEF Laid, Adjoins
  <2>5. Len(c) + region[r].spare = MaxChunks
    BY <2>1 DEF RegionOK
  <2>6. QED
    BY <2>2, <2>3, <2>4, <2>5 DEF Tiled
<1>2. QED
  BY <1>1, InvAlways, PTL

\* The chunks in use are the program's buffers, one for each, large enough:
\* nothing leaks and nothing is given out twice, although frees come in between
\* the steps of an allocation.
THEOREM ChunksStayBuffers == Spec => []ChunksAreBuffers
<1>1. Inv => ChunksAreBuffers
  <2> SUFFICES ASSUME Inv PROVE ChunksAreBuffers
    OBVIOUS
  <2>1. RegionsOK /\ BuffersOK /\ DOMAIN region = 1..Len(region)
    BY DEF Inv, RegionsOK
  <2>2. ASSUME NEW r \in 1..Len(region)
        PROVE  DOMAIN region[r].chunks = 1..Len(region[r].chunks) /\ 1..Len(region[r].chunks) \subseteq 1..MaxChunks
    <3>1. /\ region[r].chunks \in Seq(Chunks) /\ Len(region[r].chunks) \in Nat
          /\ Len(region[r].chunks) <= MaxChunks /\ MaxChunks \in Nat
      BY <2>1, RegionFields, RegionAssumption
    <3>2. QED
      BY <3>1
  <2>3. ASSUME NEW b \in buffers
        PROVE  \E x \in AllocatedChunks :
                 LET c == region[x[1]].chunks[x[2]] IN c.start = b.start /\ c.size >= b.size
    <3>1. PICK r \in 1..Len(region) : \E c \in InUse(region[r].chunks) : c.start = b.start /\ c.size >= b.size
      BY <2>1 DEF BuffersOK
    <3>2. PICK i \in 1..Len(region[r].chunks) :
            /\ region[r].chunks[i].allocated
            /\ region[r].chunks[i].start = b.start /\ region[r].chunks[i].size >= b.size
      BY <3>1 DEF InUse
    <3>3. <<r, i>> \in AllocatedChunks
      BY <2>1, <2>2, <3>2 DEF AllocatedChunks
    <3>4. <<r, i>>[1] = r /\ <<r, i>>[2] = i
      OBVIOUS
    <3>5. QED
      BY <3>2, <3>3, <3>4
  <2>4. ASSUME NEW x \in AllocatedChunks
        PROVE  \E b \in buffers : b.start = region[x[1]].chunks[x[2]].start
    <3>1. /\ x[1] \in 1..Len(region) /\ x[2] \in DOMAIN region[x[1]].chunks
          /\ region[x[1]].chunks[x[2]].allocated
      BY <2>1 DEF AllocatedChunks
    <3>2. region[x[1]].chunks[x[2]] \in InUse(region[x[1]].chunks)
      BY <2>2, <3>1 DEF InUse
    <3>3. QED
      BY <2>1, <3>1, <3>2 DEF BuffersOK
  <2>5. QED
    BY <2>3, <2>4 DEF ChunksAreBuffers
<1>2. QED
  BY <1>1, InvAlways, PTL

\* In a build that reads chunk->next before the inner merge, no two free chunks
\* of a region are ever neighbours: the comment of free_chunk, for any order of
\* allocations and frees.
THEOREM FreeChunksStayMerged == Spec => []FreeChunksMerged
<1>1. Inv => FreeChunksMerged
  BY DEF Inv, RegionsOK, Merged, AllApart, Apart, FreeChunksMerged
<1>2. QED
  BY <1>1, InvAlways, PTL

\* The assert of allocate_aligned_buffer fails only for a region of exactly the
\* buffer's size: after the fallback, or where the size asked for overflowed.  A
\* larger region always has room, whatever is freed meanwhile.
THEOREM NewRegionsHaveRoom == Spec => []NewRegionHasRoom
<1>1. Inv => NewRegionHasRoom
  BY DEF Inv, JobOK, NewRegionHasRoom
<1>2. QED
  BY <1>1, InvAlways, PTL

-----------------------------------------------------------------------------
(* The refinement: what an allocation does, the abstract heap may do.          *)

\* Two buffers share no byte, whatever region each is in.
BuffersDisjoint == \A b, d \in buffers : b # d => Heap!Disjoint(b, d)

LEMMA DisjointNow == Inv => BuffersDisjoint
<1> SUFFICES ASSUME Inv, NEW b \in buffers, NEW d \in buffers, b # d
             PROVE  Heap!Disjoint(b, d)
  BY DEF BuffersDisjoint
<1>1. RegionsOK /\ BuffersOK
  BY DEF Inv
<1>2. b.start # d.start /\ b \in [start : Nat, size : Sizes] /\ d \in [start : Nat, size : Sizes]
  BY <1>1 DEF BuffersOK
<1>3. b.start \in Nat /\ d.start \in Nat /\ b.size \in Nat /\ d.size \in Nat
  BY <1>2, RegionRoom
<1>4. PICK r \in 1..Len(region) : \E c \in InUse(region[r].chunks) : c.start = b.start /\ c.size >= b.size
  BY <1>1 DEF BuffersOK
<1>5. PICK c \in InUse(region[r].chunks) : c.start = b.start /\ c.size >= b.size
  BY <1>4
<1>6. PICK q \in 1..Len(region) : \E c2 \in InUse(region[q].chunks) : c2.start = d.start /\ c2.size >= d.size
  BY <1>1 DEF BuffersOK
<1>7. PICK e \in InUse(region[q].chunks) : e.start = d.start /\ e.size >= d.size
  BY <1>6
<1>8. End(c) <= e.start \/ End(e) <= c.start
  BY <1>1, <1>2, <1>5, <1>7, UsedApart
<1>9. c \in Chunks /\ e \in Chunks
  <2>1. region[r].chunks \in Seq(Chunks) /\ region[q].chunks \in Seq(Chunks)
    BY <1>1, RegionFields
  <2>2. QED
    BY <1>5, <1>7, <2>1, ChunksIn DEF InUse
<1>10. b.start + b.size <= d.start \/ d.start + d.size <= b.start
  <2>1. c.size \in Int /\ e.size \in Int
    BY <1>9 DEF Chunks
  <2>2. b.start + b.size <= End(c) /\ d.start + d.size <= End(e) /\ End(c) \in Int /\ End(e) \in Int
    <3>1. c.start \in Int /\ e.start \in Int
      BY <1>9 DEF Chunks
    <3>2. End(c) = c.start + c.size /\ End(e) = e.start + e.size
      BY DEF End
    <3>3. c.start = b.start /\ c.size >= b.size /\ e.start = d.start /\ e.size >= d.size
      BY <1>5, <1>7
    <3>4. b.start + b.size <= c.start + c.size /\ d.start + d.size <= e.start + e.size
      BY <1>3, <2>1, <3>3
    <3>5. c.start + c.size \in Int /\ e.start + e.size \in Int
      BY <2>1, <3>1
    <3>6. QED
      BY <3>2, <3>4, <3>5
  <2>3. CASE End(c) <= e.start
    BY <1>3, <1>7, <2>2, <2>3
  <2>4. CASE End(e) <= c.start
    BY <1>3, <1>5, <2>2, <2>4
  <2>5. QED
    BY <1>8, <2>3, <2>4
<1>11. QED
  BY <1>10 DEF Heap!Disjoint

LEMMA DisjointNext == Inv' => BuffersDisjoint'
BY DisjointNow, PTL

\* An interval inside another.
LEMMA Within ==
  ASSUME NEW base \in Nat, NEW size \in Int, NEW low \in Nat, NEW width \in Nat, NEW top \in Nat,
         low <= base, size <= width, base + width <= top
  PROVE  base..(base + size - 1) \subseteq low..(top - 1)
OBVIOUS

\* A region's bytes are memory of the heap's.
LEMMA RegionInMemory ==
  ASSUME RegionsOK, NEW r \in 1..Len(region)
  PROVE  region[r].base..(region[r].base + region[r].size - 1)
           \subseteq Stride..((MaxRegions + 1) * Stride - 1)
<1>1. /\ region[r].base = r * Stride /\ region[r].size \in 1..Stride /\ region[r].base \in Nat
      /\ r \in Nat /\ r >= 1 /\ r < MaxRegions + 1 /\ MaxRegions + 1 \in Nat /\ Stride \in Nat
  <2>1. Len(region) \in Nat /\ Len(region) <= MaxRegions /\ MaxRegions \in Nat /\ Stride \in Nat
    BY LenProperties, RegionAssumption DEF RegionsOK
  <2>2. QED
    BY <2>1, RegionFields
<1>2. 0 * Stride + Stride <= r * Stride /\ 0 * Stride = 0
  BY <1>1, Placement
<1>3. r * Stride + Stride <= (MaxRegions + 1) * Stride
  BY <1>1, Placement
<1>4. (MaxRegions + 1) * Stride \in Nat
  BY <1>1, Placement
<1> DEFINE top == (MaxRegions + 1) * Stride
<1>5. Stride <= region[r].base /\ region[r].base + Stride <= top /\ top \in Nat
  BY <1>1, <1>2, <1>3, <1>4
<1> HIDE DEF top
<1>6. region[r].base..(region[r].base + region[r].size - 1) \subseteq Stride..(top - 1)
  BY <1>1, <1>5, Within
<1>7. QED
  BY <1>6 DEF top

\* A new buffer inside a region, at an aligned address that is nobody's, is an
\* allocation of the heap's.
LEMMA HeapAllocates ==
  ASSUME Inv, Inv', NEW r \in 1..Len(region), NEW start \in Nat, NEW n \in Sizes,
         start % Alignment = 0, region[r].base <= start, start + n <= region[r].base + region[r].size,
         \A q \in 1..Len(region) : \A y \in InUse(region[q].chunks) : y.start # start,
         buffers' = buffers \cup {[start |-> start, size |-> n]}
  PROVE  Heap!Next
<1> DEFINE b == [start |-> start, size |-> n]
<1>1. RegionsOK /\ BuffersOK /\ n \in Nat /\ n >= 1
  BY RegionRoom DEF Inv
<1>2. /\ region[r].base \in Nat /\ region[r].size \in Nat
      /\ region[r].base..(region[r].base + region[r].size - 1)
           \subseteq Stride..((MaxRegions + 1) * Stride - 1)
  BY <1>1, RegionFields, RegionInMemory
<1>3. start..(start + n - 1) \subseteq region[r].base..(region[r].base + region[r].size - 1)
  <2>1. region[r].base + region[r].size \in Nat
    BY <1>2
  <2> DEFINE low == region[r].base
             top == region[r].base + region[r].size
  <2>2. low \in Nat /\ top \in Nat /\ low <= start /\ start + n <= top
    BY <1>2, <2>1
  <2> HIDE DEF low, top
  <2>3. start..(start + n - 1) \subseteq low..(top - 1)
    BY <1>1, <2>2
  <2>4. region[r].base + region[r].size - 1 = (region[r].base + region[r].size) - 1
    BY <1>2
  <2>5. QED
    BY <2>3, <2>4, Zenon DEF low, top
<1>4. start..(start + n - 1) \subseteq Stride..((MaxRegions + 1) * Stride - 1)
  BY <1>2, <1>3, Zenon
<1>5. start \in Stride..((MaxRegions + 1) * Stride - 1)
  <2>1. start \in start..(start + n - 1)
    BY <1>1
  <2>2. QED
    BY <1>4, <2>1, Zenon
<1>6. ASSUME NEW d \in buffers
      PROVE  Heap!Disjoint(b, d)
  <2>1. d.start # start
    BY <1>1 DEF BuffersOK
  <2>2. b # d /\ b \in buffers' /\ d \in buffers'
    BY <2>1
  <2>3. QED
    BY <2>2, DisjointNext, Zenon DEF BuffersDisjoint, Heap!Disjoint
<1>7. b.start = start /\ b.size = n
  OBVIOUS
<1>8. Heap!Allocate(b)
  BY <1>4, <1>6, <1>7 DEF Heap!Allocate
<1>9. QED
  BY <1>5, <1>8 DEF Heap!Next

LEMMA HeapStep == Inv /\ Inv' /\ [Next]_vars => [Heap!Next]_buffers
<1> SUFFICES ASSUME Inv, Inv', [Next]_vars PROVE Heap!Next \/ buffers' = buffers
  OBVIOUS
<1>1. ASSUME NEW n \in Sizes, Malloc(n) PROVE buffers' = buffers
  BY <1>1 DEF Malloc
<1>2. CASE Append_New_Chunk
  <2> DEFINE fits == Fits(Last(region[job.r].chunks), job.size) /\ region[job.r].spare > 0
  <2>1. CASE ~fits
    BY <1>2, <2>1 DEF Append_New_Chunk
  <2>2. CASE fits
    <3> DEFINE c == region[job.r].chunks
               start == RoundUp(c[Len(c)].start)
    <3>1. /\ job.r \in 1..Len(region) /\ job.size \in Sizes /\ job.size \in Nat
          /\ start \in Nat /\ start % Alignment = 0
          /\ region[job.r].base <= start
          /\ start + job.size < region[job.r].base + region[job.r].size
          /\ buffers' = buffers \cup {[start |-> start, size |-> job.size]}
      BY <1>2, <2>2, AppendStep
    <3>2. \A q \in 1..Len(region) : \A y \in InUse(region[q].chunks) : y.start # start
      BY <1>2, <2>2, AppendFresh
    <3>3. region[job.r].base \in Nat /\ region[job.r].size \in Nat
      BY <3>1, RegionFields DEF Inv
    <3> HIDE DEF start
    <3>4. start + job.size <= region[job.r].base + region[job.r].size
      BY <3>1, <3>3
    <3>5. QED
      BY <3>1, <3>2, <3>4, HeapAllocates
  <2>3. QED
    BY <2>1, <2>2
<1>3. CASE NoRoom
  BY <1>3 DEF NoRoom
<1>4. CASE GrowFails
  BY <1>4 DEF GrowFails
<1>5. ASSUME NEW i, Reuse(i) PROVE Heap!Next
  <2> DEFINE c == region[job.r].chunks
             start == c[i].start
  <2>1. /\ job.r \in 1..Len(region) /\ job.size \in Sizes /\ job.size \in Nat
        /\ i \in 1..(Len(c) - 1) /\ start % Alignment = 0 /\ start \in Nat
        /\ c[i].size \in Int /\ c[i].size >= job.size
        /\ buffers' = buffers \cup {[start |-> start, size |-> job.size]}
        /\ \A q \in 1..Len(region) : \A y \in InUse(region[q].chunks) : y.start # start
    BY <1>5, ReuseStep
  <2>2. /\ Laid(c, region[job.r].base, region[job.r].size) /\ c \in Seq(Chunks) /\ Len(c) \in Nat
        /\ region[job.r].base \in Int /\ region[job.r].size \in Int
    BY <2>1, RegionFields DEF Inv
  <2>3. i \in 1..Len(c)
    BY <2>1, <2>2
  <2>4. /\ region[job.r].base <= start /\ End(c[i]) <= region[job.r].base + region[job.r].size
        /\ End(c[i]) = start + c[i].size
    BY <2>2, <2>3, ChunkInside DEF End
  <2>5. start + job.size <= region[job.r].base + region[job.r].size
    <3>1. \A x, k, m, e \in Int : m <= k /\ x + k <= e => x + m <= e
      OBVIOUS
    <3>2. region[job.r].base + region[job.r].size \in Int /\ start \in Int /\ job.size \in Int
      BY <2>1, <2>2
    <3> HIDE DEF start, c
    <3>3. start + c[i].size <= region[job.r].base + region[job.r].size
      BY <2>4
    <3>4. QED
      BY <2>1, <3>1, <3>2, <3>3
  <2>6. QED
    BY <2>1, <2>4, <2>5, HeapAllocates
<1>6. ASSUME NEW n, Grow(n) PROVE buffers' = buffers
  BY <1>6 DEF Grow
<1>7. ASSUME NEW b \in buffers, Free(b) PROVE Heap!Next
  <2>1. Heap!Free(b)
    BY <1>7 DEF Free, Heap!Free
  <2>2. QED
    BY <2>1 DEF Heap!Next
<1>8. CASE UNCHANGED vars
  BY <1>8 DEF vars
<1>9. QED
  BY <1>1, <1>2, <1>3, <1>4, <1>5, <1>6, <1>7, <1>8 DEF Next

\* The allocator implements the abstract heap: every buffer it gives out is
\* aligned, lies in a region's memory and shares no byte with another in use,
\* whether it is cut off a sentinel, reused, or the first of a new region, and
\* frees between the steps of an allocation change nothing of that.
THEOREM AllocatorKeepsHeap == Spec => ImplementsHeap
<1>1. Init => Heap!Init
  BY DEF Init, Heap!Init
<1>2. QED
  BY <1>1, InvAlways, HeapStep, PTL DEF Spec, ImplementsHeap, Heap!Spec
=============================================================================
