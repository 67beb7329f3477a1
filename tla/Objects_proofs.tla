-------------------------- MODULE Objects_proofs --------------------------
(* Proofs about the lifetime of memory objects, kernels, programs and their    *)
(* context, and about the checks of a copy between buffers.                    *)
(*                                                                             *)
(* Counts.  A count is compared with what there is to count as a relation on   *)
(* values (Sound), so that the lemmas on each kind of object speak of values   *)
(* before and after and not of steps; CountsOK is that relation of the state.  *)
(* Lists.  MapsOK relates the mappings of a buffer and map_count with the maps *)
(* and unmaps that are queued or executing, ListOK the links of a program's    *)
(* kernels with those that live; what lies outside both is in Intact.          *)
EXTENDS Objects, Transfers, TLAPS, FiniteSetTheorems, FunctionTheorems,
        SequenceTheorems, WellFoundedInduction

\* Addresses and sizes of which no sum reaches Modulus more than once.
Sizes == {n \in Nat : 2 * n < Modulus}

\* A copy that is accepted stays inside its buffers, and writes no byte that it
\* reads: neither within one buffer nor between two sub-buffers of one whose
\* memory the client provided, at their origins in it.  For buffers of less than
\* half the address space.
THEOREM AcceptedCopySafe ==
  ASSUME Modulus \in Nat \ {0}, NEW same \in BOOLEAN, NEW src, NEW dst,
         NEW from \in 0..(Modulus - 1), NEW to \in 0..(Modulus - 1), NEW size \in 0..(Modulus - 1),
         {src.size, dst.size} \subseteq Sizes, same => src = dst,
         {src.host, dst.host, src.parentHost, dst.parentHost} \subseteq 0..(Modulus - 1),
         NEW origin \in Sizes, NEW origin2 \in Sizes,
         src.parent = dst.parent /\ src.parent # NoParent =>
           /\ src.host = src.parentHost + origin /\ origin + src.size \in Sizes
           /\ dst.host = dst.parentHost + origin2 /\ origin2 + dst.size \in Sizes,
         CopyAccepted(same, src, dst, from, to, size),
         NEW x \in 0..(size - 1), NEW y \in 0..(size - 1)
  PROVE  /\ from + x < src.size /\ to + y < dst.size
         /\ same => from + x # to + y
         /\ src.parent = dst.parent /\ src.parent # NoParent =>
              origin + from + x # origin2 + to + y
<1>1. \A b \in {src, dst}, o \in {from, to} :
        InBounds(b, o, size) => o + size <= b.size /\ o + size < Modulus /\ b.size \in Nat
  BY DEF InBounds, Plus, Sizes
<1>2. from + size <= src.size /\ to + size <= dst.size
  BY <1>1 DEF CopyAccepted
<1>3. ASSUME NEW a \in Sizes, NEW b \in Sizes, a + size \in Sizes, b + size \in Sizes,
             ~Overlap(a, b, size)
      PROVE  a + x # b + y
  BY <1>3 DEF Overlap, LiesInside, Plus, Minus, Sizes
<1>4. same => from + x # to + y
  <2> SUFFICES ASSUME same PROVE from + x # to + y
    OBVIOUS
  <2>1. ~Overlap(from, to, size)
    BY DEF CopyAccepted, BuffersOverlap
  <2>2. {from, to, from + size, to + size} \subseteq Sizes
    BY <1>2 DEF Sizes
  <2>3. QED
    BY <1>3, <2>1, <2>2
<1>5. ASSUME src.parent = dst.parent, src.parent # NoParent
      PROVE  origin + from + x # origin2 + to + y
  <2>1. InParent(src, from) = origin + from /\ InParent(dst, to) = origin2 + to
    BY <1>2, <1>5 DEF InParent, Plus, Minus, Sizes
  <2>2. ~Overlap(origin + from, origin2 + to, size)
    BY <1>5, <2>1 DEF CopyAccepted, BuffersOverlap
  <2>3. {origin + from, origin2 + to, origin + from + size, origin2 + to + size} \subseteq Sizes
    BY <1>2, <1>5 DEF Sizes
  <2>4. QED
    BY <1>3, <2>2, <2>3
<1>6. QED
  BY <1>2, <1>4, <1>5 DEF Sizes
-----------------------------------------------------------------------------
\* The counts c, the living objects L, the uses u that clients and commands
\* make, the parents pa, the mappings mp and the kernels cr being created.
Typed(c, L, u, pa, mp, cr) ==
  /\ c \in [Objects -> Int] /\ L \subseteq Objects /\ IsFiniteSet(L)
  /\ u \in [Objects -> Nat] /\ pa \in [Buffers -> Buffers \cup {Null}]
  /\ mp \in Seq([of : Buffers, at : Addresses \cup {Null}]) /\ cr \subseteq Kernels

SubsIn(L, pa, b) == {s \in Buffers \cap L : pa[s] = b}
MapsIn(mp, b) == {m \in DOMAIN mp : mp[m].of = b}
Further(pa, b) == IF pa[b] = Null THEN NumDevices - 1 ELSE 0
BufferCount(L, u, pa, mp, b) ==
  u[b] + Cardinality(SubsIn(L, pa, b)) + Cardinality(MapsIn(mp, b)) + Further(pa, b)
KernelCount(u, cr, k) == u[k] + NumDevices - 1 + (IF k \in cr THEN 1 ELSE 0)
Linked(L, cr) == (Kernels \cap L) \ cr
OfContext(L) == ({Program} \cup Buffers) \cap L

\* Every count is what there is to count, ...
Exact(c, L, u, pa, mp, cr) ==
  /\ \A b \in Buffers \cap L : c[b] = BufferCount(L, u, pa, mp, b)
  /\ \A k \in Kernels \cap L : c[k] = KernelCount(u, cr, k)
  /\ Program \in L => c[Program] = u[Program] + Cardinality(Linked(L, cr))
  /\ Context \in L => c[Context] = u[Context] + Cardinality(OfContext(L))
\* ... and what is used or counted on lives.
Reached(c, L, u, pa, mp, cr) ==
  /\ \A o \in Objects : u[o] > 0 => o \in L
  /\ \A b \in Buffers \cap L : pa[b] \in L \cup {Null}
  /\ \A b \in Buffers \cap L : (\A s \in Buffers : pa[s] # b) => c[b] >= 1
  /\ \A m \in DOMAIN mp : mp[m].of \in L
  /\ Linked(L, cr) # {} => Program \in L
  /\ OfContext(L) # {} => Context \in L
Sound(c, L, u, pa, mp, cr) ==
  Typed(c, L, u, pa, mp, cr) /\ Exact(c, L, u, pa, mp, cr) /\ Reached(c, L, u, pa, mp, cr)

More(f, o) == [f EXCEPT ![o] = @ + 1]
Less(f, o) == [f EXCEPT ![o] = @ - 1]

\* The kinds of objects are apart.
LEMMA KindsDisjoint ==
  /\ Buffers \cap Kernels = {} /\ Context # Program
  /\ Program \notin Buffers \cup Kernels /\ Context \notin Buffers \cup Kernels
  /\ Null \notin Buffers \cup Kernels /\ Null # Program /\ Null # Context
  /\ Buffers \subseteq Objects /\ Kernels \subseteq Objects
  /\ Program \in Objects /\ Context \in Objects
  /\ NumDevices \in Nat /\ NumDevices >= 1
BY ObjectsAssumption DEF Objects

\* What is counted is finite.
LEMMA CountedFinite ==
  ASSUME NEW c, NEW L, NEW u, NEW pa, NEW mp, NEW cr, Typed(c, L, u, pa, mp, cr)
  PROVE  /\ \A b : IsFiniteSet(SubsIn(L, pa, b)) /\ Cardinality(SubsIn(L, pa, b)) \in Nat
         /\ \A b : IsFiniteSet(MapsIn(mp, b)) /\ Cardinality(MapsIn(mp, b)) \in Nat
         /\ IsFiniteSet(Linked(L, cr)) /\ Cardinality(Linked(L, cr)) \in Nat
         /\ IsFiniteSet(OfContext(L)) /\ Cardinality(OfContext(L)) \in Nat
<1>1. ASSUME NEW S \in SUBSET L
      PROVE  IsFiniteSet(S) /\ Cardinality(S) \in Nat
  BY FS_Subset, FS_CardinalityType DEF Typed
<1>2. ASSUME NEW b PROVE IsFiniteSet(MapsIn(mp, b)) /\ Cardinality(MapsIn(mp, b)) \in Nat
  <2>1. Len(mp) \in Nat /\ DOMAIN mp = 1..Len(mp)
    BY LenProperties DEF Typed
  <2>2. \A i, j \in Int : IsFiniteSet(i..j)
    BY FS_Interval
  <2>3. IsFiniteSet(DOMAIN mp)
    BY <2>1, <2>2
  <2>4. MapsIn(mp, b) \in SUBSET DOMAIN mp
    BY DEF MapsIn
  <2>5. QED
    BY <2>3, <2>4, FS_Subset, FS_CardinalityType
<1>3. /\ \A b : SubsIn(L, pa, b) \in SUBSET L
      /\ Linked(L, cr) \in SUBSET L /\ OfContext(L) \in SUBSET L
  BY DEF SubsIn, Linked, OfContext
<1>4. QED
  BY <1>1, <1>2, <1>3

\* A count is a number, and none of its parts is negative.
LEMMA SoundNumbers ==
  ASSUME NEW c, NEW L, NEW u, NEW pa, NEW mp, NEW cr, Sound(c, L, u, pa, mp, cr)
  PROVE  /\ \A o \in Objects : c[o] \in Int /\ u[o] \in Nat
         /\ \A b \in Buffers : pa[b] \in Buffers \cup {Null} /\ Further(pa, b) \in Nat
         /\ \A b \in Buffers : Cardinality(SubsIn(L, pa, b)) \in Nat
         /\ \A b \in Buffers : Cardinality(MapsIn(mp, b)) \in Nat
<1>1. Typed(c, L, u, pa, mp, cr)
  BY DEF Sound
<1>2. \A o \in Objects : c[o] \in Int /\ u[o] \in Nat
  BY <1>1 DEF Typed
<1>3. \A b \in Buffers : pa[b] \in Buffers \cup {Null}
  BY <1>1 DEF Typed
<1>4. \A b \in Buffers : Further(pa, b) \in Nat
  BY KindsDisjoint DEF Further
<1>5. QED
  BY <1>1, <1>2, <1>3, <1>4, CountedFinite

\* A mapping is of a buffer.
LEMMA MapsAreOfBuffers ==
  ASSUME NEW mp \in Seq([of : Buffers, at : Addresses \cup {Null}])
  PROVE  /\ Len(mp) \in Nat /\ DOMAIN mp = 1..Len(mp)
         /\ \A m \in DOMAIN mp : mp[m].of \in Buffers /\ mp[m].at \in Addresses \cup {Null}
<1>1. Len(mp) \in Nat /\ DOMAIN mp = 1..Len(mp)
      /\ mp \in [1..Len(mp) -> [of : Buffers, at : Addresses \cup {Null}]]
  BY LenProperties
<1>2. QED
  BY <1>1

\* One more use of an object that is used already.
LEMMA SoundRetain ==
  ASSUME NEW c, NEW L, NEW u, NEW pa, NEW mp, NEW cr, Sound(c, L, u, pa, mp, cr),
         NEW o \in Objects, u[o] > 0
  PROVE  Sound(More(c, o), L, More(u, o), pa, mp, cr)
<1> DEFINE c2 == More(c, o)
           u2 == More(u, o)
<1>1. /\ \A x \in Objects : c[x] \in Int /\ u[x] \in Nat
      /\ c \in [Objects -> Int] /\ u \in [Objects -> Nat]
  BY SoundNumbers DEF Sound, Typed
<1>2. /\ c2 \in [Objects -> Int] /\ u2 \in [Objects -> Nat]
      /\ c2[o] = c[o] + 1 /\ u2[o] = u[o] + 1
      /\ \A x \in Objects : x # o => c2[x] = c[x] /\ u2[x] = u[x]
  BY <1>1 DEF More
<1> HIDE DEF c2, u2
<1>3. Typed(c2, L, u2, pa, mp, cr)
  BY <1>2 DEF Sound, Typed
<1>4. \A x \in Objects : \A n \in Int :
        /\ c[x] = u[x] + n => c2[x] = u2[x] + n
        /\ u2[x] > 0 => u[x] > 0
        /\ c[x] >= 1 => c2[x] >= 1
  <2> SUFFICES ASSUME NEW x \in Objects, NEW n \in Int
               PROVE  /\ c[x] = u[x] + n => c2[x] = u2[x] + n
                      /\ u2[x] > 0 => u[x] > 0
                      /\ c[x] >= 1 => c2[x] >= 1
    OBVIOUS
  <2>1. CASE x = o
    BY <1>1, <1>2, <2>1
  <2>2. CASE x # o
    BY <1>1, <1>2, <2>2
  <2>3. QED
    BY <2>1, <2>2
<1>5. Exact(c2, L, u2, pa, mp, cr)
  <2>1. ASSUME NEW b \in Buffers \cap L PROVE c2[b] = BufferCount(L, u2, pa, mp, b)
    <3>1. PICK n \in Int : n = Cardinality(SubsIn(L, pa, b)) + Cardinality(MapsIn(mp, b)) + Further(pa, b)
      BY SoundNumbers
    <3>2. c[b] = u[b] + n
      BY <3>1, <1>1, SoundNumbers, KindsDisjoint DEF Sound, Exact, BufferCount
    <3>3. c2[b] = u2[b] + n
      BY <3>2, <1>4, KindsDisjoint
    <3>4. QED
      BY <3>1, <3>3, <1>2, SoundNumbers, KindsDisjoint DEF BufferCount
  <2>2. ASSUME NEW k \in Kernels \cap L PROVE c2[k] = KernelCount(u2, cr, k)
    <3>1. PICK n \in Int : n = NumDevices - 1 + (IF k \in cr THEN 1 ELSE 0)
      BY KindsDisjoint
    <3>2. c[k] = u[k] + n
      BY <3>1, <1>1, KindsDisjoint DEF Sound, Exact, KernelCount
    <3>3. c2[k] = u2[k] + n
      BY <3>2, <1>4, KindsDisjoint
    <3>4. QED
      BY <3>1, <3>3, <1>2, KindsDisjoint DEF KernelCount
  <2>3. /\ Program \in L => c2[Program] = u2[Program] + Cardinality(Linked(L, cr))
        /\ Context \in L => c2[Context] = u2[Context] + Cardinality(OfContext(L))
    BY <1>4, CountedFinite, KindsDisjoint DEF Sound, Exact
  <2>4. QED
    BY <2>1, <2>2, <2>3 DEF Exact
<1>6. Reached(c2, L, u2, pa, mp, cr)
  BY <1>4, KindsDisjoint DEF Sound, Reached
<1>7. QED
  BY <1>3, <1>5, <1>6 DEF c2, u2, Sound

\* A map retains the buffer, and that reference is never given back.
LEMMA SoundMap ==
  ASSUME NEW c, NEW L, NEW u, NEW pa, NEW mp, NEW cr, Sound(c, L, u, pa, mp, cr),
         NEW b \in Buffers, u[b] > 0, NEW a \in Addresses \cup {Null}
  PROVE  Sound(More(c, b), L, u, pa, Append(mp, [of |-> b, at |-> a]), cr)
<1> DEFINE c2 == More(c, b)
           mp2 == Append(mp, [of |-> b, at |-> a])
<1>1. /\ \A x \in Objects : c[x] \in Int /\ u[x] \in Nat
      /\ c \in [Objects -> Int]
  BY SoundNumbers DEF Sound, Typed
<1>2. /\ c2 \in [Objects -> Int] /\ c2[b] = c[b] + 1
      /\ \A x \in Objects : x # b => c2[x] = c[x]
  BY <1>1, KindsDisjoint DEF More
<1>3. mp \in Seq([of : Buffers, at : Addresses \cup {Null}])
  BY DEF Sound, Typed
<1>4. PICK N \in Nat : N = Len(mp) /\ DOMAIN mp = 1..N
  BY <1>3, MapsAreOfBuffers
<1>5. PICK e \in [of : Buffers, at : Addresses \cup {Null}] : e = [of |-> b, at |-> a]
  OBVIOUS
<1>6. /\ mp2 \in Seq([of : Buffers, at : Addresses \cup {Null}])
      /\ Len(mp2) = N + 1 /\ mp2[N + 1] = e
      /\ \A i \in 1..N : mp2[i] = mp[i]
  BY <1>3, <1>4, <1>5, AppendProperties
<1>7. DOMAIN mp2 = 1..(N + 1) /\ e.of = b
  BY <1>5, <1>6, LenProperties
<1> HIDE DEF c2, mp2
<1>8. /\ MapsIn(mp2, b) = MapsIn(mp, b) \cup {N + 1} /\ N + 1 \notin MapsIn(mp, b)
      /\ \A x \in Buffers : x # b => MapsIn(mp2, x) = MapsIn(mp, x)
  <2>1. 1..(N + 1) = 1..N \cup {N + 1} /\ N + 1 \notin 1..N
    OBVIOUS
  <2>2. \A x : \A i \in 1..N : i \in MapsIn(mp2, x) <=> i \in MapsIn(mp, x)
    BY <1>4, <1>6, <1>7, <2>1 DEF MapsIn
  <2>3. \A x : MapsIn(mp, x) \subseteq 1..N /\ MapsIn(mp2, x) \subseteq 1..N \cup {N + 1}
    BY <1>4, <1>7, <2>1 DEF MapsIn
  <2>4. \A x : N + 1 \in MapsIn(mp2, x) <=> x = b
    BY <1>6, <1>7, <2>1 DEF MapsIn
  <2>5. QED
    BY <2>1, <2>2, <2>3, <2>4
<1>9. Typed(c2, L, u, pa, mp2, cr)
  BY <1>2, <1>6 DEF Sound, Typed
<1>10. Exact(c2, L, u, pa, mp2, cr)
  <2>1. Typed(c, L, u, pa, mp, cr)
    BY DEF Sound
  <2>2. Cardinality(MapsIn(mp2, b)) = Cardinality(MapsIn(mp, b)) + 1
    BY <1>8, <2>1, CountedFinite, FS_AddElement
  <2>3. ASSUME NEW x \in Buffers \cap L PROVE c2[x] = BufferCount(L, u, pa, mp2, x)
    <3>1. c[x] = BufferCount(L, u, pa, mp, x)
      BY DEF Sound, Exact
    <3>2. x \in Objects
      BY KindsDisjoint
    <3>3. CASE x = b
      <4>1. PICK n \in Int, s \in Int, f \in Int, w \in Int :
              /\ n = Cardinality(MapsIn(mp, b)) /\ s = Cardinality(SubsIn(L, pa, b))
              /\ f = Further(pa, b) /\ w = u[b]
        BY SoundNumbers, <3>2, <3>3
      <4>2. c[b] = w + s + n + f /\ BufferCount(L, u, pa, mp2, b) = w + s + (n + 1) + f
        BY <3>1, <3>3, <4>1, <2>2 DEF BufferCount
      <4>3. QED
        BY <4>1, <4>2, <3>3, <1>2
    <3>4. CASE x # b
      BY <3>1, <3>2, <3>4, <1>2, <1>8 DEF BufferCount
    <3>5. QED
      BY <3>3, <3>4
  <2>4. \A x \in Kernels \cup {Program, Context} : c2[x] = c[x]
    BY <1>2, KindsDisjoint
  <2>5. QED
    BY <2>3, <2>4 DEF Sound, Exact
<1>11. Reached(c2, L, u, pa, mp2, cr)
  <2>1. \A m \in DOMAIN mp2 : mp2[m].of \in L
    <3>1. b \in L
      BY KindsDisjoint DEF Sound, Reached
    <3>2. QED
      BY <1>4, <1>6, <1>7, <3>1 DEF Sound, Reached
  <2>2. \A x \in Buffers : c[x] >= 1 => c2[x] >= 1
    BY <1>1, <1>2, KindsDisjoint
  <2>3. QED
    BY <2>1, <2>2 DEF Sound, Reached
<1>12. QED
  BY <1>9, <1>10, <1>11 DEF c2, mp2, Sound

LeftBy(c, L, b) == IF c[b] > 1 THEN L ELSE L \ {b}
CountAfter(c, pa, b) ==
  IF c[b] > 1 THEN Less(c, b)
  ELSE Less(IF pa[b] = Null THEN Less(c, b) ELSE Less(Less(c, b), pa[b]), Context)

\* A buffer at its last reference has no sub-buffer and no mapping, and is not
\* its own parent.
LEMMA LastReference ==
  ASSUME NEW c, NEW L, NEW u, NEW pa, NEW mp, NEW cr, Sound(c, L, u, pa, mp, cr),
         NEW b \in Buffers, u[b] > 0, ~(c[b] > 1)
  PROVE  /\ c[b] = 1 /\ u[b] = 1 /\ b \in L
         /\ SubsIn(L, pa, b) = {} /\ MapsIn(mp, b) = {} /\ Further(pa, b) = 0
         /\ pa[b] \in ((Buffers \cap L) \ {b}) \cup {Null}
<1>1. b \in L
  BY KindsDisjoint DEF Sound, Reached
<1>2. PICK n \in Nat, s \in Nat, f \in Nat, w \in Nat :
        /\ n = Cardinality(MapsIn(mp, b)) /\ s = Cardinality(SubsIn(L, pa, b))
        /\ f = Further(pa, b) /\ w = u[b]
  BY SoundNumbers, KindsDisjoint
<1>3. c[b] = w + s + n + f /\ c[b] \in Int
  BY <1>1, <1>2, SoundNumbers, KindsDisjoint DEF Sound, Exact, BufferCount
<1>4. w = 1 /\ s = 0 /\ n = 0 /\ f = 0 /\ c[b] = 1
  BY <1>2, <1>3
<1>5. SubsIn(L, pa, b) = {} /\ MapsIn(mp, b) = {}
  BY <1>2, <1>4, CountedFinite, FS_EmptySet DEF Sound
<1>6. pa[b] # b
  BY <1>1, <1>5 DEF SubsIn
<1>7. pa[b] \in (L \cap Buffers) \cup {Null}
  BY <1>1, SoundNumbers DEF Sound, Reached
<1>8. QED
  BY <1>1, <1>2, <1>4, <1>5, <1>6, <1>7

\* One reference less of one object, or one more.
LEMMA LessOne ==
  ASSUME NEW f \in [Objects -> Int], NEW o \in Objects
  PROVE  /\ Less(f, o) \in [Objects -> Int] /\ Less(f, o)[o] = f[o] - 1
         /\ \A x \in Objects : x # o => Less(f, o)[x] = f[x]
<1>1. PICK n \in Int : n = f[o] - 1
  OBVIOUS
<1>2. Less(f, o) = [f EXCEPT ![o] = n]
  BY <1>1 DEF Less
<1>3. QED
  BY <1>1, <1>2

LEMMA MoreOne ==
  ASSUME NEW f \in [Objects -> Int], NEW o \in Objects
  PROVE  /\ More(f, o) \in [Objects -> Int] /\ More(f, o)[o] = f[o] + 1
         /\ \A x \in Objects : x # o => More(f, o)[x] = f[x]
<1>1. PICK n \in Int : n = f[o] + 1
  OBVIOUS
<1>2. More(f, o) = [f EXCEPT ![o] = n]
  BY <1>1 DEF More
<1>3. QED
  BY <1>1, <1>2

\* The same facts under a name.
OneLess(g, f, o) ==
  g \in [Objects -> Int] /\ g[o] = f[o] - 1 /\ \A x \in Objects : x # o => g[x] = f[x]
OneMore(g, f, o) ==
  g \in [Objects -> Int] /\ g[o] = f[o] + 1 /\ \A x \in Objects : x # o => g[x] = f[x]

LEMMA OneChanged ==
  ASSUME NEW f \in [Objects -> Int], NEW o \in Objects
  PROVE  OneLess(Less(f, o), f, o) /\ OneMore(More(f, o), f, o)
BY LessOne, MoreOne DEF OneLess, OneMore

\* What the last release of a buffer does to each count.
LEMMA CountsAfterLast ==
  ASSUME NEW c \in [Objects -> Int], NEW pa, NEW b \in Buffers, ~(c[b] > 1),
         pa[b] \in (Buffers \ {b}) \cup {Null}
  PROVE  /\ CountAfter(c, pa, b) \in [Objects -> Int]
         /\ CountAfter(c, pa, b)[Context] = c[Context] - 1
         /\ pa[b] # Null => CountAfter(c, pa, b)[pa[b]] = c[pa[b]] - 1
         /\ \A x \in Objects : x \notin {b, pa[b], Context} => CountAfter(c, pa, b)[x] = c[x]
<1>1. CASE pa[b] = Null
  BY <1>1, KindsDisjoint DEF CountAfter, Less
<1>2. CASE pa[b] # Null
  <2>1. PICK p \in Buffers : p = pa[b] /\ p # b
    BY <1>2
  <2>2. CountAfter(c, pa, b) = Less(Less(Less(c, b), p), Context)
    BY <2>1, <1>2 DEF CountAfter
  <2>3. {b, p, Context} \subseteq Objects /\ p # Context /\ b # Context
    BY KindsDisjoint
  <2>4. PICK d \in [Objects -> Int] : d = Less(c, b) /\ \A x \in Objects : x # b => d[x] = c[x]
    BY <2>3, LessOne
  <2>5. PICK e \in [Objects -> Int] :
          e = Less(d, p) /\ e[p] = c[p] - 1 /\ \A x \in Objects : x \notin {b, p} => e[x] = c[x]
    BY <2>1, <2>3, <2>4, LessOne
  <2>6. /\ Less(e, Context) \in [Objects -> Int] /\ Less(e, Context)[Context] = e[Context] - 1
        /\ \A x \in Objects : x # Context => Less(e, Context)[x] = e[x]
    BY <2>3, LessOne
  <2>7. QED
    BY <2>1, <2>2, <2>3, <2>4, <2>5, <2>6
<1>3. QED
  BY <1>1, <1>2

\* A release of a buffer, by the client or a command.
LEMMA SoundMemRelease ==
  ASSUME NEW c, NEW L, NEW u, NEW pa, NEW mp, NEW cr, Sound(c, L, u, pa, mp, cr),
         NEW b \in Buffers, u[b] > 0
  PROVE  Sound(CountAfter(c, pa, b), LeftBy(c, L, b), Less(u, b), pa, mp, cr)
<1>1. /\ Typed(c, L, u, pa, mp, cr) /\ c \in [Objects -> Int] /\ u \in [Objects -> Nat]
      /\ \A x \in Objects : c[x] \in Int /\ u[x] \in Nat
      /\ b \in Objects /\ b \in L
  BY SoundNumbers, KindsDisjoint DEF Sound, Typed, Reached
<1>2. PICK u2 \in [Objects -> Nat] :
        /\ u2 = Less(u, b) /\ u2[b] = u[b] - 1
        /\ \A x \in Objects : x # b => u2[x] = u[x]
  <2>1. /\ \A x \in Objects : Less(u, b)[x] = IF x = b THEN u[b] - 1 ELSE u[x]
        /\ Less(u, b) = [x \in Objects |-> IF x = b THEN u[b] - 1 ELSE u[x]]
    BY <1>1 DEF Less
  <2>2. \A x \in Objects : (IF x = b THEN u[b] - 1 ELSE u[x]) \in Nat
    BY <1>1
  <2>3. Less(u, b) \in [Objects -> Nat]
    BY <2>1, <2>2
  <2>4. QED
    BY <2>1, <2>3, <1>1
<1>3. CASE c[b] > 1
  <2>1. PICK c2 \in [Objects -> Int] :
          /\ c2 = Less(c, b) /\ c2[b] = c[b] - 1
          /\ \A x \in Objects : x # b => c2[x] = c[x]
    BY <1>1, LessOne
  <2>2. CountAfter(c, pa, b) = c2 /\ LeftBy(c, L, b) = L
    BY <1>3, <2>1 DEF CountAfter, LeftBy
  <2>3. Typed(c2, L, u2, pa, mp, cr)
    BY <1>1 DEF Typed
  <2>4. ASSUME NEW x \in Buffers \cap L PROVE c2[x] = BufferCount(L, u2, pa, mp, x)
    <3>1. x \in Objects /\ c[x] = BufferCount(L, u, pa, mp, x)
      BY KindsDisjoint DEF Sound, Exact
    <3>2. CASE x = b
      <4>1. PICK n \in Int, s \in Int, f \in Int, w \in Int :
              /\ n = Cardinality(MapsIn(mp, b)) /\ s = Cardinality(SubsIn(L, pa, b))
              /\ f = Further(pa, b) /\ w = u[b]
        BY SoundNumbers, <1>1
      <4>2. c[b] = w + s + n + f /\ BufferCount(L, u2, pa, mp, b) = (w - 1) + s + n + f
        BY <3>1, <3>2, <4>1, <1>2 DEF BufferCount
      <4>3. QED
        BY <4>1, <4>2, <3>2, <2>1
    <3>3. CASE x # b
      BY <3>1, <3>3, <1>2, <2>1 DEF BufferCount
    <3>4. QED
      BY <3>2, <3>3
  <2>5. \A x \in Kernels \cup {Program, Context} : c2[x] = c[x] /\ u2[x] = u[x]
    BY <1>2, <2>1, KindsDisjoint
  <2>6. Exact(c2, L, u2, pa, mp, cr)
    BY <2>4, <2>5 DEF Sound, Exact, KernelCount
  <2>7. \A x \in Objects : (u2[x] > 0 => u[x] > 0) /\ (c[x] >= 1 => c2[x] >= 1)
    BY <1>1, <1>2, <1>3, <2>1
  <2>8. Reached(c2, L, u2, pa, mp, cr)
    BY <2>7, KindsDisjoint DEF Sound, Reached
  <2>9. QED
    BY <1>2, <2>2, <2>3, <2>6, <2>8 DEF Sound
<1>4. CASE ~(c[b] > 1)
  <2>1. /\ c[b] = 1 /\ u[b] = 1 /\ SubsIn(L, pa, b) = {} /\ MapsIn(mp, b) = {}
        /\ pa[b] \in ((Buffers \cap L) \ {b}) \cup {Null}
    BY <1>4, LastReference
  <2>2. PICK c2 \in [Objects -> Int] :
          /\ c2 = CountAfter(c, pa, b) /\ c2[Context] = c[Context] - 1
          /\ pa[b] # Null => c2[pa[b]] = c[pa[b]] - 1
          /\ \A x \in Objects : x \notin {b, pa[b], Context} => c2[x] = c[x]
    BY <1>1, <1>4, <2>1, CountsAfterLast
  <2>3. PICK L2 : L2 = L \ {b} /\ LeftBy(c, L, b) = L2
    BY <1>4 DEF LeftBy
  <2>4. /\ u2[b] = 0 /\ \A x \in Objects : x # b => u2[x] = u[x]
    BY <1>2, <2>1
  <2>5. Typed(c2, L2, u2, pa, mp, cr)
    BY <1>1, <2>3, FS_RemoveElement DEF Typed
  <2>6. /\ \A x \in Buffers : pa[x] = b => x \notin L
        /\ \A m \in DOMAIN mp : mp[m].of # b
    BY <2>1 DEF SubsIn, MapsIn
  <2>7. /\ Linked(L2, cr) = Linked(L, cr)
        /\ OfContext(L2) = OfContext(L) \ {b} /\ b \in OfContext(L) /\ Context \in L
        /\ Context \in L2 /\ (Program \in L2 <=> Program \in L)
    BY <1>1, <2>3, KindsDisjoint DEF Linked, OfContext, Sound, Reached
  <2>8. ASSUME NEW x \in Buffers \cap L2 PROVE c2[x] = BufferCount(L2, u2, pa, mp, x)
    <3>1. x \in Objects /\ x # b /\ x # Context /\ c[x] = BufferCount(L, u, pa, mp, x) /\ u2[x] = u[x]
      BY <2>3, <2>4, KindsDisjoint DEF Sound, Exact
    <3>2. CASE x = pa[b]
      <4>1. SubsIn(L2, pa, x) = SubsIn(L, pa, x) \ {b} /\ b \in SubsIn(L, pa, x)
        BY <1>1, <2>3, <3>2 DEF SubsIn
      <4>2. Cardinality(SubsIn(L2, pa, x)) = Cardinality(SubsIn(L, pa, x)) - 1
        <5>1. IsFiniteSet(SubsIn(L, pa, x))
          BY <1>1, CountedFinite
        <5>2. PICK S : S = SubsIn(L, pa, x)
          OBVIOUS
        <5>3. Cardinality(S \ {b}) = Cardinality(S) - 1
          BY <4>1, <5>1, <5>2, FS_RemoveElement
        <5>4. QED
          BY <4>1, <5>2, <5>3
      <4>3. PICK n \in Int, s \in Int, f \in Int, w \in Int :
              /\ n = Cardinality(MapsIn(mp, x)) /\ s = Cardinality(SubsIn(L, pa, x))
              /\ f = Further(pa, x) /\ w = u[x]
        BY SoundNumbers, <3>1
      <4>4. c[x] = w + s + n + f /\ BufferCount(L2, u2, pa, mp, x) = w + (s - 1) + n + f
        BY <3>1, <4>2, <4>3 DEF BufferCount
      <4>5. c2[x] = c[x] - 1
        BY <2>2, <3>1, <3>2, KindsDisjoint
      <4>6. QED
        BY <4>3, <4>4, <4>5
    <3>3. CASE x # pa[b]
      <4>1. SubsIn(L2, pa, x) = SubsIn(L, pa, x)
        BY <2>3, <3>3 DEF SubsIn
      <4>2. c2[x] = c[x]
        BY <2>2, <3>1, <3>3
      <4>3. QED
        BY <3>1, <4>1, <4>2 DEF BufferCount
    <3>4. QED
      BY <3>2, <3>3
  <2>9. \A x \in Kernels \cup {Program} :
          /\ c2[x] = c[x] /\ u2[x] = u[x] /\ (x \in L2 => x \in L)
    BY <2>1, <2>2, <2>3, <2>4, KindsDisjoint
  <2>10. c2[Context] = u2[Context] + Cardinality(OfContext(L2))
    <3>1. Cardinality(OfContext(L2)) = Cardinality(OfContext(L)) - 1 /\ Cardinality(OfContext(L)) \in Nat
      <4>1. IsFiniteSet(OfContext(L)) /\ Cardinality(OfContext(L)) \in Nat
        BY <1>1, CountedFinite
      <4>2. QED
        BY <2>7, <4>1, FS_RemoveElement
    <3>2. c[Context] = u[Context] + Cardinality(OfContext(L)) /\ u2[Context] = u[Context]
      BY <2>4, <2>7, KindsDisjoint DEF Sound, Exact
    <3>3. u[Context] \in Nat
      BY <1>1, KindsDisjoint
    <3>4. QED
      BY <3>1, <3>2, <3>3, <2>2
  <2>11. Exact(c2, L2, u2, pa, mp, cr)
    BY <2>7, <2>8, <2>9, <2>10 DEF Sound, Exact, KernelCount
  <2>12. Reached(c2, L2, u2, pa, mp, cr)
    <3>1. \A o \in Objects : u2[o] > 0 => o \in L2
      BY <2>3, <2>4 DEF Sound, Reached
    <3>2. \A x \in Buffers \cap L2 : pa[x] \in L2 \cup {Null}
      BY <2>3, <2>6 DEF Sound, Reached
    <3>3. \A x \in Buffers \cap L2 : (\A s \in Buffers : pa[s] # x) => c2[x] >= 1
      <4>1. ASSUME NEW x \in Buffers \cap L2, \A s \in Buffers : pa[s] # x PROVE c2[x] >= 1
        <5>1. x \in L /\ x # b /\ x # pa[b] /\ x # Context /\ x \in Objects
          BY <2>3, <4>1, KindsDisjoint
        <5>2. c2[x] = c[x] /\ c[x] >= 1
          BY <2>2, <4>1, <5>1 DEF Sound, Reached
        <5>3. QED
          BY <5>2
      <4>2. QED
        BY <4>1
    <3>4. /\ \A m \in DOMAIN mp : mp[m].of \in L2
          /\ Linked(L2, cr) # {} => Program \in L2
      BY <2>3, <2>6, <2>7 DEF Sound, Reached
    <3>5. QED
      BY <3>1, <3>2, <3>3, <3>4, <2>7 DEF Reached
  <2>13. QED
    BY <1>2, <2>2, <2>3, <2>5, <2>11, <2>12 DEF Sound
<1>5. QED
  BY <1>3, <1>4

\* A new buffer b: with no parent it has a reference for each device, with a
\* parent p one, and retains p.
BufferMade(c, L, u, pa, b, p, c2, u2) ==
  /\ b \notin L /\ u[b] = 0 /\ pa[b] = Null /\ Context \in L
  /\ p \in Buffers \cup {Null}
  /\ p # Null => u[p] > 0 /\ p # b /\ pa[p] = Null
  /\ c2 \in [Objects -> Int] /\ u2 \in [Objects -> Nat]
  /\ c2[b] = (IF p = Null THEN NumDevices ELSE 1) /\ u2[b] = 1
  /\ c2[Context] = c[Context] + 1
  /\ p # Null => c2[p] = c[p] + 1
  /\ \A x \in Objects : x \notin {b, p, Context} => c2[x] = c[x]
  /\ \A x \in Objects : x # b => u2[x] = u[x]

LEMMA SoundCreateBuffer ==
  ASSUME NEW c, NEW L, NEW u, NEW pa, NEW mp, NEW cr, Sound(c, L, u, pa, mp, cr),
         NEW b \in Buffers, NEW p, NEW c2, NEW u2, BufferMade(c, L, u, pa, b, p, c2, u2)
  PROVE  Sound(c2, L \cup {b}, u2, [pa EXCEPT ![b] = p], mp, cr)
<1>1. PICK L2 : L2 = L \cup {b}
  OBVIOUS
<1>2. PICK pa2 \in [Buffers -> Buffers \cup {Null}] :
        pa2 = [pa EXCEPT ![b] = p] /\ pa2[b] = p /\ \A x \in Buffers : x # b => pa2[x] = pa[x]
  <2>1. pa \in [Buffers -> Buffers \cup {Null}] /\ p \in Buffers \cup {Null}
    BY DEF Sound, Typed, BufferMade
  <2>2. PICK g : g = [pa EXCEPT ![b] = p]
    OBVIOUS
  <2>3. g = [x \in Buffers |-> IF x = b THEN p ELSE pa[x]]
    BY <2>1, <2>2
  <2>4. g \in [Buffers -> Buffers \cup {Null}] /\ g[b] = p /\ \A x \in Buffers : x # b => g[x] = pa[x]
    BY <2>1, <2>3
  <2>5. QED
    BY <2>2, <2>4
<1>3. /\ Typed(c, L, u, pa, mp, cr) /\ b \in Objects /\ b \notin L
      /\ \A x \in Objects : c[x] \in Int /\ u[x] \in Nat
      /\ pa[b] = Null /\ b # Null /\ p \in Buffers \cup {Null} /\ p # b /\ Context # b
      /\ Context \in L /\ (p # Null => p \in L /\ pa[p] = Null /\ p # Context)
  BY SoundNumbers, KindsDisjoint DEF Sound, Reached, BufferMade
<1>4. Typed(c2, L2, u2, pa2, mp, cr)
  BY <1>1, <1>3, FS_AddElement DEF Typed, BufferMade
<1>5. /\ \A x \in Buffers \cap L : pa[x] # b
      /\ \A m \in DOMAIN mp : mp[m].of \in L
      /\ \A x \in Buffers \cap L : pa[x] \in L \cup {Null}
  BY <1>3 DEF Sound, Reached
<1>6. /\ Linked(L2, cr) = Linked(L, cr)
      /\ OfContext(L2) = OfContext(L) \cup {b} /\ b \notin OfContext(L)
      /\ Context \in L2 /\ (Program \in L2 <=> Program \in L)
  BY <1>1, <1>3, KindsDisjoint DEF Linked, OfContext
<1>7. ASSUME NEW x \in Buffers \cap L2 PROVE c2[x] = BufferCount(L2, u2, pa2, mp, x)
  <2>1. CASE x = b
    <3>1. SubsIn(L2, pa2, b) = {}
      BY <1>1, <1>2, <1>3, <1>5 DEF SubsIn
    <3>2. MapsIn(mp, b) = {}
      BY <1>3, <1>5 DEF MapsIn
    <3>3. Cardinality({}) = 0
      BY FS_EmptySet
    <3>4. Further(pa2, b) = IF p = Null THEN NumDevices - 1 ELSE 0
      BY <1>2 DEF Further
    <3>5. BufferCount(L2, u2, pa2, mp, b) = 1 + 0 + 0 + IF p = Null THEN NumDevices - 1 ELSE 0
      BY <3>1, <3>2, <3>3, <3>4 DEF BufferCount, BufferMade
    <3>6. c2[b] = IF p = Null THEN NumDevices ELSE 1
      BY DEF BufferMade
    <3>7. QED
      BY <2>1, <3>5, <3>6, KindsDisjoint
  <2>2. CASE x # b
    <3>1. /\ x \in L /\ x \in Objects /\ x # Context
          /\ c[x] = BufferCount(L, u, pa, mp, x) /\ u2[x] = u[x] /\ Further(pa2, x) = Further(pa, x)
      BY <1>1, <1>2, <2>2, KindsDisjoint DEF Sound, Exact, BufferMade, Further
    <3>2. CASE x = p
      <4>1. SubsIn(L2, pa2, x) = SubsIn(L, pa, x) \cup {b} /\ b \notin SubsIn(L, pa, x)
        BY <1>1, <1>2, <1>3, <3>2 DEF SubsIn
      <4>2. Cardinality(SubsIn(L2, pa2, x)) = Cardinality(SubsIn(L, pa, x)) + 1
        <5>1. IsFiniteSet(SubsIn(L, pa, x))
          BY <1>3, CountedFinite
        <5>2. QED
          BY <4>1, <5>1, FS_AddElement
      <4>3. PICK n \in Int, s \in Int, f \in Int, w \in Int :
              /\ n = Cardinality(MapsIn(mp, x)) /\ s = Cardinality(SubsIn(L, pa, x))
              /\ f = Further(pa, x) /\ w = u[x]
        BY SoundNumbers, <3>1
      <4>4. c[x] = w + s + n + f /\ BufferCount(L2, u2, pa2, mp, x) = w + (s + 1) + n + f
        BY <3>1, <4>2, <4>3 DEF BufferCount
      <4>5. c2[x] = c[x] + 1
        BY <3>1, <3>2, KindsDisjoint DEF BufferMade
      <4>6. QED
        BY <4>3, <4>4, <4>5
    <3>3. CASE x # p
      <4>1. SubsIn(L2, pa2, x) = SubsIn(L, pa, x)
        BY <1>1, <1>2, <1>3, <3>3 DEF SubsIn
      <4>2. c2[x] = c[x]
        BY <2>2, <3>1, <3>3 DEF BufferMade
      <4>3. QED
        BY <3>1, <4>1, <4>2 DEF BufferCount
    <3>4. QED
      BY <3>2, <3>3
  <2>3. QED
    BY <2>1, <2>2
<1>8. \A x \in Kernels \cup {Program} :
        /\ c2[x] = c[x] /\ u2[x] = u[x] /\ (x \in L2 => x \in L)
  <2> SUFFICES ASSUME NEW x \in Kernels \cup {Program}
               PROVE  c2[x] = c[x] /\ u2[x] = u[x] /\ (x \in L2 => x \in L)
    OBVIOUS
  <2>1. x \in Objects /\ x \notin {b, p, Context}
    BY <1>3, KindsDisjoint
  <2>2. QED
    BY <1>1, <2>1 DEF BufferMade
<1>9. c2[Context] = u2[Context] + Cardinality(OfContext(L2))
  <2>1. IsFiniteSet(OfContext(L)) /\ Cardinality(OfContext(L)) \in Nat
    BY <1>3, CountedFinite
  <2>2. Cardinality(OfContext(L2)) = Cardinality(OfContext(L)) + 1
    BY <2>1, <1>6, FS_AddElement
  <2>3. c[Context] = u[Context] + Cardinality(OfContext(L)) /\ u2[Context] = u[Context]
    BY <1>3, KindsDisjoint DEF Sound, Exact, BufferMade
  <2>4. u[Context] \in Nat
    BY <1>3, KindsDisjoint
  <2>5. c2[Context] = c[Context] + 1
    BY DEF BufferMade
  <2>6. QED
    BY <2>1, <2>2, <2>3, <2>4, <2>5
<1>10. Exact(c2, L2, u2, pa2, mp, cr)
  BY <1>6, <1>7, <1>8, <1>9 DEF Sound, Exact, KernelCount
<1>11. Reached(c2, L2, u2, pa2, mp, cr)
  <2>1. \A o \in Objects : u2[o] > 0 => o \in L2
    BY <1>1 DEF Sound, Reached, BufferMade
  <2>2. \A x \in Buffers \cap L2 : pa2[x] \in L2 \cup {Null}
    BY <1>1, <1>2, <1>3, <1>5
  <2>3. ASSUME NEW x \in Buffers \cap L2, \A s \in Buffers : pa2[s] # x PROVE c2[x] >= 1
    <3>1. CASE x = b
      BY <3>1, KindsDisjoint DEF BufferMade
    <3>2. CASE x # b
      <4>1. x \in L /\ \A s \in Buffers : pa[s] # x
        BY <1>1, <1>2, <1>3, <2>3, <3>2, KindsDisjoint
      <4>2. x # p /\ x # Context /\ x \in Objects
        BY <1>2, <2>3, KindsDisjoint
      <4>3. c2[x] = c[x] /\ c[x] >= 1
        BY <3>2, <4>1, <4>2 DEF Sound, Reached, BufferMade
      <4>4. QED
        BY <4>3
    <3>3. QED
      BY <3>1, <3>2
  <2>4. \A m \in DOMAIN mp : mp[m].of \in L2
    BY <1>1, <1>5
  <2>5. Linked(L2, cr) # {} => Program \in L2
    BY <1>6 DEF Sound, Reached
  <2>6. QED
    BY <1>6, <2>1, <2>2, <2>3, <2>4, <2>5 DEF Reached
<1>12. QED
  BY <1>1, <1>2, <1>4, <1>10, <1>11 DEF Sound

\* A new program retains its context.
ProgramMade(c, L, u, c2, u2) ==
  /\ Program \notin L /\ u[Context] > 0
  /\ c2 \in [Objects -> Int] /\ u2 \in [Objects -> Nat]
  /\ c2[Program] = 1 /\ u2[Program] = 1 /\ c2[Context] = c[Context] + 1
  /\ \A x \in Objects : x \notin {Program, Context} => c2[x] = c[x]
  /\ \A x \in Objects : x # Program => u2[x] = u[x]

LEMMA SoundCreateProgram ==
  ASSUME NEW c, NEW L, NEW u, NEW pa, NEW mp, NEW cr, Sound(c, L, u, pa, mp, cr),
         NEW c2, NEW u2, ProgramMade(c, L, u, c2, u2)
  PROVE  Sound(c2, L \cup {Program}, u2, pa, mp, cr)
<1>1. PICK L2 : L2 = L \cup {Program}
  OBVIOUS
<1>2. /\ Typed(c, L, u, pa, mp, cr) /\ \A x \in Objects : c[x] \in Int /\ u[x] \in Nat
      /\ Context \in L
  BY SoundNumbers, KindsDisjoint DEF Sound, Reached, ProgramMade
<1>3. Typed(c2, L2, u2, pa, mp, cr)
  BY <1>1, <1>2, KindsDisjoint, FS_AddElement DEF Typed, ProgramMade
<1>4. /\ Linked(L2, cr) = Linked(L, cr) /\ Linked(L, cr) = {}
      /\ \A b : SubsIn(L2, pa, b) = SubsIn(L, pa, b)
      /\ OfContext(L2) = OfContext(L) \cup {Program} /\ Program \notin OfContext(L)
      /\ Context \in L2 /\ Program \in L2
  BY <1>1, <1>2, KindsDisjoint DEF Linked, OfContext, SubsIn, Sound, Reached, ProgramMade
<1>5. \A x \in Kernels \cup Buffers :
        /\ x \in Objects /\ c2[x] = c[x] /\ u2[x] = u[x] /\ (x \in L2 <=> x \in L)
  BY <1>1, KindsDisjoint DEF ProgramMade
<1>6. c2[Program] = u2[Program] + Cardinality(Linked(L2, cr))
  BY <1>4, FS_EmptySet DEF ProgramMade
<1>7. c2[Context] = u2[Context] + Cardinality(OfContext(L2))
  <2>1. IsFiniteSet(OfContext(L)) /\ Cardinality(OfContext(L)) \in Nat
    BY <1>2, CountedFinite
  <2>2. Cardinality(OfContext(L2)) = Cardinality(OfContext(L)) + 1
    BY <2>1, <1>4, FS_AddElement
  <2>3. c[Context] = u[Context] + Cardinality(OfContext(L)) /\ u2[Context] = u[Context]
    BY <1>2, KindsDisjoint DEF Sound, Exact, ProgramMade
  <2>4. u[Context] \in Nat
    BY <1>2, KindsDisjoint
  <2>5. c2[Context] = c[Context] + 1
    BY DEF ProgramMade
  <2>6. QED
    BY <2>1, <2>2, <2>3, <2>4, <2>5
<1>8. Exact(c2, L2, u2, pa, mp, cr)
  BY <1>4, <1>5, <1>6, <1>7 DEF Sound, Exact, KernelCount, BufferCount
<1>9. Reached(c2, L2, u2, pa, mp, cr)
  BY <1>1, <1>4, <1>5, KindsDisjoint DEF Sound, Reached, ProgramMade
<1>10. QED
  BY <1>1, <1>3, <1>8, <1>9 DEF Sound

\* The client gives back a reference of the context.
LEMMA SoundReleaseContext ==
  ASSUME NEW c, NEW L, NEW u, NEW pa, NEW mp, NEW cr, Sound(c, L, u, pa, mp, cr), u[Context] > 0
  PROVE  Sound(Less(c, Context), IF c[Context] - 1 = 0 THEN L \ {Context} ELSE L,
               Less(u, Context), pa, mp, cr)
<1>1. PICK L2 : L2 = IF c[Context] - 1 = 0 THEN L \ {Context} ELSE L
  OBVIOUS
<1>2. /\ Typed(c, L, u, pa, mp, cr) /\ \A x \in Objects : c[x] \in Int /\ u[x] \in Nat
      /\ Context \in L /\ Context \in Objects /\ c \in [Objects -> Int] /\ u \in [Objects -> Int]
  BY SoundNumbers, KindsDisjoint DEF Sound, Typed, Reached
<1>3. PICK c2 \in [Objects -> Int] :
        /\ c2 = Less(c, Context) /\ c2[Context] = c[Context] - 1
        /\ \A x \in Objects : x # Context => c2[x] = c[x]
  BY <1>2, LessOne
<1>4. PICK u2 \in [Objects -> Int] :
        /\ u2 = Less(u, Context) /\ u2[Context] = u[Context] - 1
        /\ \A x \in Objects : x # Context => u2[x] = u[x]
  BY <1>2, LessOne
<1>5. u2 \in [Objects -> Nat]
  <2>1. \A x \in Objects : u2[x] \in Nat
    BY <1>2, <1>4
  <2>2. QED
    BY <2>1
<1>6. IsFiniteSet(OfContext(L)) /\ Cardinality(OfContext(L)) \in Nat
  BY <1>2, CountedFinite
<1>7. c[Context] = u[Context] + Cardinality(OfContext(L))
  BY <1>2 DEF Sound, Exact
<1>8. Typed(c2, L2, u2, pa, mp, cr)
  BY <1>1, <1>2, <1>5, FS_RemoveElement DEF Typed
<1>9. /\ Linked(L2, cr) = Linked(L, cr) /\ OfContext(L2) = OfContext(L)
      /\ \A b : SubsIn(L2, pa, b) = SubsIn(L, pa, b)
      /\ \A x \in Objects : x # Context => (x \in L2 <=> x \in L)
  BY <1>1, KindsDisjoint DEF Linked, OfContext, SubsIn
<1>10. \A x \in Kernels \cup Buffers \cup {Program} :
        /\ x \in Objects /\ c2[x] = c[x] /\ u2[x] = u[x] /\ (x \in L2 <=> x \in L)
  BY <1>3, <1>4, <1>9, KindsDisjoint
<1>11. c2[Context] = u2[Context] + Cardinality(OfContext(L2))
  BY <1>2, <1>3, <1>4, <1>6, <1>7, <1>9
<1>12. Exact(c2, L2, u2, pa, mp, cr)
  BY <1>9, <1>10, <1>11 DEF Sound, Exact, KernelCount, BufferCount
<1>13. Context \notin L2 => u2[Context] = 0 /\ OfContext(L) = {}
  <2>1. ASSUME Context \notin L2 PROVE u2[Context] = 0 /\ Cardinality(OfContext(L)) = 0
    BY <1>1, <1>2, <1>4, <1>6, <1>7, <2>1
  <2>2. QED
    BY <2>1, <1>6, FS_EmptySet
<1>14. Reached(c2, L2, u2, pa, mp, cr)
  <2>1. \A o \in Objects : u2[o] > 0 => o \in L2
    BY <1>2, <1>4, <1>9, <1>13 DEF Sound, Reached
  <2>2. \A x \in Buffers \cap L2 : pa[x] \in L2 \cup {Null}
    BY <1>10, SoundNumbers DEF Sound, Reached
  <2>3. /\ \A x \in Buffers \cap L2 : (\A s \in Buffers : pa[s] # x) => c2[x] >= 1
        /\ Linked(L2, cr) # {} => Program \in L2
        /\ OfContext(L2) # {} => Context \in L2
    BY <1>9, <1>10, <1>13 DEF Sound, Reached
  <2>4. \A m \in DOMAIN mp : mp[m].of \in L2
    BY <1>2, <1>10, MapsAreOfBuffers DEF Sound, Reached, Typed
  <2>5. QED
    BY <2>1, <2>2, <2>3, <2>4 DEF Reached
<1>15. QED
  BY <1>1, <1>3, <1>4, <1>8, <1>12, <1>14 DEF Sound

\* A kernel that was created and never linked, and has no further reference.
LEMMA SoundCreateKernel ==
  ASSUME NEW c, NEW L, NEW u, NEW pa, NEW mp, NEW cr, Sound(c, L, u, pa, mp, cr),
         NEW k \in Kernels, k \notin L, NEW c2 \in [Objects -> Int], c2[k] = NumDevices,
         \A x \in Objects : x # k => c2[x] = c[x]
  PROVE  Sound(c2, L \cup {k}, u, pa, mp, cr \cup {k})
<1>1. PICK L2, cr2 : L2 = L \cup {k} /\ cr2 = cr \cup {k}
  OBVIOUS
<1>2. Typed(c, L, u, pa, mp, cr) /\ k \in Objects
  BY KindsDisjoint DEF Sound
<1>3. Typed(c2, L2, u, pa, mp, cr2)
  BY <1>1, <1>2, FS_AddElement DEF Typed
<1>4. /\ Linked(L2, cr2) = Linked(L, cr) /\ OfContext(L2) = OfContext(L)
      /\ \A b : SubsIn(L2, pa, b) = SubsIn(L, pa, b)
  BY <1>1, KindsDisjoint DEF Linked, OfContext, SubsIn
<1>5. \A x \in Objects : x # k => c2[x] = c[x] /\ (x \in L2 <=> x \in L) /\ (x \in cr2 <=> x \in cr)
  BY <1>1
<1>6. u[k] = 0
  BY <1>2 DEF Sound, Reached, Typed
<1>7. c2[k] = KernelCount(u, cr2, k)
  BY <1>1, <1>6, KindsDisjoint DEF KernelCount
<1>8. ASSUME NEW x \in Kernels \cap L2, x # k PROVE c2[x] = KernelCount(u, cr2, x)
  BY <1>5, <1>8, KindsDisjoint DEF KernelCount, Sound, Exact
<1>9. \A x \in Buffers \cup {Program, Context} :
        c2[x] = c[x] /\ (x \in L2 <=> x \in L)
  BY <1>5, KindsDisjoint
<1>10. Exact(c2, L2, u, pa, mp, cr2)
  BY <1>4, <1>7, <1>8, <1>9 DEF Sound, Exact, BufferCount
<1>11. Reached(c2, L2, u, pa, mp, cr2)
  <2>1. \A o \in Objects : u[o] > 0 => o \in L2
    BY <1>1 DEF Sound, Reached
  <2>2. \A x \in Buffers \cap L2 : pa[x] \in L2 \cup {Null}
    BY <1>1, <1>9 DEF Sound, Reached
  <2>3. \A m \in DOMAIN mp : mp[m].of \in L2
    BY <1>1 DEF Sound, Reached
  <2>4. /\ \A x \in Buffers \cap L2 : (\A s \in Buffers : pa[s] # x) => c2[x] >= 1
        /\ Linked(L2, cr2) # {} => Program \in L2
        /\ OfContext(L2) # {} => Context \in L2
    BY <1>4, <1>9 DEF Sound, Reached
  <2>5. QED
    BY <2>1, <2>2, <2>3, <2>4 DEF Reached
<1>12. QED
  BY <1>1, <1>3, <1>10, <1>11 DEF Sound

\* Linking a created kernel retains its program; the creation's reference is
\* from then on the client's.
KernelLinked(c, L, u, cr, k, c2, u2) ==
  /\ k \in cr /\ k \in L /\ u[k] = 0 /\ u[Program] > 0
  /\ c2 \in [Objects -> Int] /\ u2 \in [Objects -> Nat]
  /\ c2[Program] = c[Program] + 1 /\ u2[k] = 1
  /\ \A x \in Objects : x # Program => c2[x] = c[x]
  /\ \A x \in Objects : x # k => u2[x] = u[x]

LEMMA SoundLinkKernel ==
  ASSUME NEW c, NEW L, NEW u, NEW pa, NEW mp, NEW cr, Sound(c, L, u, pa, mp, cr),
         NEW k \in Kernels, NEW c2, NEW u2, KernelLinked(c, L, u, cr, k, c2, u2)
  PROVE  Sound(c2, L, u2, pa, mp, cr \ {k})
<1>1. PICK cr2 : cr2 = cr \ {k}
  OBVIOUS
<1>2. /\ Typed(c, L, u, pa, mp, cr) /\ k \in Objects /\ k \in L /\ k \in cr /\ k # Program
      /\ \A x \in Objects : c[x] \in Int /\ u[x] \in Nat
      /\ Program \in L
  BY SoundNumbers, KindsDisjoint DEF Sound, Reached, KernelLinked
<1>3. Typed(c2, L, u2, pa, mp, cr2)
  BY <1>1, <1>2 DEF Typed, KernelLinked
<1>4. Linked(L, cr2) = Linked(L, cr) \cup {k} /\ k \notin Linked(L, cr)
  BY <1>1, <1>2 DEF Linked
<1>5. \A x \in Objects : x # k => (x \in cr2 <=> x \in cr) /\ u2[x] = u[x]
  BY <1>1 DEF KernelLinked
<1>6. c2[k] = KernelCount(u2, cr2, k)
  <2>1. c[k] = 0 + NumDevices - 1 + 1 /\ c2[k] = c[k] /\ u2[k] = 1 /\ k \notin cr2
    BY <1>1, <1>2 DEF Sound, Exact, KernelCount, KernelLinked
  <2>2. QED
    BY <2>1, KindsDisjoint DEF KernelCount
<1>7. ASSUME NEW x \in Kernels \cap L, x # k PROVE c2[x] = KernelCount(u2, cr2, x)
  BY <1>5, <1>7, KindsDisjoint DEF KernelCount, Sound, Exact, KernelLinked
<1>8. \A x \in Buffers \cup {Context} : c2[x] = c[x] /\ u2[x] = u[x]
  BY <1>5, KindsDisjoint DEF KernelLinked
<1>9. c2[Program] = u2[Program] + Cardinality(Linked(L, cr2))
  <2>1. IsFiniteSet(Linked(L, cr)) /\ Cardinality(Linked(L, cr)) \in Nat
    BY <1>2, CountedFinite
  <2>2. Cardinality(Linked(L, cr2)) = Cardinality(Linked(L, cr)) + 1
    BY <2>1, <1>4, FS_AddElement
  <2>3. c[Program] = u[Program] + Cardinality(Linked(L, cr)) /\ u2[Program] = u[Program]
    BY <1>2, <1>5, KindsDisjoint DEF Sound, Exact
  <2>4. u[Program] \in Nat
    BY <1>2, KindsDisjoint
  <2>5. c2[Program] = c[Program] + 1
    BY DEF KernelLinked
  <2>6. QED
    BY <2>1, <2>2, <2>3, <2>4, <2>5
<1>10. Exact(c2, L, u2, pa, mp, cr2)
  BY <1>6, <1>7, <1>8, <1>9 DEF Sound, Exact, BufferCount
<1>11. Reached(c2, L, u2, pa, mp, cr2)
  <2>1. \A o \in Objects : u2[o] > 0 => o \in L
    BY <1>2, <1>5 DEF Sound, Reached
  <2>2. QED
    BY <1>2, <1>8, <2>1 DEF Sound, Reached
<1>12. QED
  BY <1>1, <1>3, <1>10, <1>11 DEF Sound

\* A release of a kernel: the count alone; the kernel is freed by a later step.
LEMMA SoundDropKernel ==
  ASSUME NEW c, NEW L, NEW u, NEW pa, NEW mp, NEW cr, Sound(c, L, u, pa, mp, cr),
         NEW k \in Kernels, u[k] > 0
  PROVE  Sound(Less(c, k), L, Less(u, k), pa, mp, cr)
<1>1. /\ Typed(c, L, u, pa, mp, cr) /\ \A x \in Objects : c[x] \in Int /\ u[x] \in Nat
      /\ k \in Objects /\ c \in [Objects -> Int] /\ u \in [Objects -> Int]
  BY SoundNumbers, KindsDisjoint DEF Sound, Typed
<1>2. PICK c2 \in [Objects -> Int] :
        c2 = Less(c, k) /\ c2[k] = c[k] - 1 /\ \A x \in Objects : x # k => c2[x] = c[x]
  BY <1>1, LessOne
<1>3. PICK u2 \in [Objects -> Int] :
        u2 = Less(u, k) /\ u2[k] = u[k] - 1 /\ \A x \in Objects : x # k => u2[x] = u[x]
  BY <1>1, LessOne
<1>4. u2 \in [Objects -> Nat]
  <2>1. \A x \in Objects : u2[x] \in Nat
    BY <1>1, <1>3
  <2>2. QED
    BY <2>1
<1>5. Typed(c2, L, u2, pa, mp, cr)
  BY <1>1, <1>4 DEF Typed
<1>6. ASSUME k \in L PROVE c2[k] = KernelCount(u2, cr, k)
  <2>1. PICK n \in Int : n = NumDevices - 1 + (IF k \in cr THEN 1 ELSE 0)
    BY KindsDisjoint
  <2>2. c[k] = u[k] + n
    BY <1>1, <1>6, <2>1, KindsDisjoint DEF Sound, Exact, KernelCount
  <2>3. c2[k] = u2[k] + n
    BY <1>1, <1>2, <1>3, <2>2
  <2>4. QED
    BY <1>1, <1>4, <2>1, <2>3, KindsDisjoint DEF KernelCount
<1>7. \A x \in Objects : x # k => c2[x] = c[x] /\ u2[x] = u[x]
  BY <1>2, <1>3
<1>8. ASSUME NEW x \in Kernels \cap L, x # k PROVE c2[x] = KernelCount(u2, cr, x)
  BY <1>7, <1>8, KindsDisjoint DEF Sound, Exact, KernelCount
<1>9. \A x \in Buffers \cup {Program, Context} : c2[x] = c[x] /\ u2[x] = u[x]
  BY <1>7, KindsDisjoint
<1>10. Exact(c2, L, u2, pa, mp, cr)
  BY <1>6, <1>8, <1>9 DEF Sound, Exact, BufferCount
<1>11. \A x \in Objects : u2[x] > 0 => u[x] > 0
  BY <1>1, <1>3
<1>12. Reached(c2, L, u2, pa, mp, cr)
  BY <1>9, <1>11 DEF Sound, Reached
<1>13. QED
  BY <1>2, <1>3, <1>5, <1>10, <1>12 DEF Sound

\* A release of the program, by the client (D is empty) or with a linked kernel
\* that is freed (D is that kernel).  The program goes at its last reference.
ProgramGivenBack(c, L, u, cr, D, c2, L2, u2) ==
  /\ Program \in L /\ c2 \in [Objects -> Int] /\ u2 \in [Objects -> Nat]
  /\ c2[Program] = c[Program] - 1
  /\ c2[Context] = IF c[Program] > 1 THEN c[Context] ELSE c[Context] - 1
  /\ \A x \in Objects : x \notin {Program, Context} => c2[x] = c[x]
  /\ L2 = (IF c[Program] > 1 THEN L ELSE L \ {Program}) \ D
  /\ \A x \in Objects : x # Program => u2[x] = u[x]
  /\ \/ D = {} /\ u[Program] > 0 /\ u2[Program] = u[Program] - 1
     \/ \E k \in Linked(L, cr) : D = {k} /\ u[k] = 0 /\ u2[Program] = u[Program]

LEMMA SoundReleaseProgram ==
  ASSUME NEW c, NEW L, NEW u, NEW pa, NEW mp, NEW cr, Sound(c, L, u, pa, mp, cr),
         NEW D, NEW c2, NEW L2, NEW u2, ProgramGivenBack(c, L, u, cr, D, c2, L2, u2)
  PROVE  Sound(c2, L2, u2, pa, mp, cr)
<1>1. /\ Typed(c, L, u, pa, mp, cr) /\ \A x \in Objects : c[x] \in Int /\ u[x] \in Nat
      /\ Program \in L /\ Context \in L /\ Program \in OfContext(L)
      /\ c2 \in [Objects -> Int] /\ u2 \in [Objects -> Nat]
  BY SoundNumbers, KindsDisjoint DEF Sound, Reached, OfContext, ProgramGivenBack
<1>2. PICK n \in Nat : n = Cardinality(Linked(L, cr))
  BY <1>1, CountedFinite
<1>3. c[Program] = u[Program] + n
  BY <1>1, <1>2 DEF Sound, Exact
<1>4. PICK n2 \in Nat : /\ n2 = Cardinality(Linked(L, cr) \ D)
                        /\ u2[Program] + n2 = u[Program] + n - 1
                        /\ D \subseteq Linked(L, cr)
  <2>1. CASE D = {} /\ u[Program] > 0 /\ u2[Program] = u[Program] - 1
    <3>1. Linked(L, cr) \ D = Linked(L, cr)
      BY <2>1
    <3>2. u[Program] \in Nat
      BY <1>1, KindsDisjoint
    <3>3. QED
      BY <2>1, <3>1, <3>2, <1>2
  <2>2. ASSUME NEW k \in Linked(L, cr), D = {k}, u2[Program] = u[Program]
        PROVE  \E m \in Nat : /\ m = Cardinality(Linked(L, cr) \ D)
                              /\ u2[Program] + m = u[Program] + n - 1
                              /\ D \subseteq Linked(L, cr)
    <3>1. PICK S : S = Linked(L, cr)
      OBVIOUS
    <3>2. IsFiniteSet(S) /\ k \in S
      BY <1>1, <3>1, CountedFinite
    <3>3. IsFiniteSet(S \ {k}) /\ Cardinality(S \ {k}) = n - 1
      BY <3>1, <3>2, <1>2, FS_RemoveElement
    <3>4. n - 1 \in Nat
      BY <3>3, FS_CardinalityType
    <3>5. u[Program] \in Nat
      BY <1>1, KindsDisjoint
    <3>6. u2[Program] + (n - 1) = u[Program] + n - 1
      BY <2>2, <3>5
    <3>7. QED
      BY <2>2, <3>1, <3>3, <3>4, <3>6
  <2>3. QED
    BY <2>1, <2>2 DEF ProgramGivenBack
<1>5. D \subseteq Kernels
  BY <1>4 DEF Linked
<1>6. /\ \A b : SubsIn(L2, pa, b) = SubsIn(L, pa, b)
      /\ Linked(L2, cr) = Linked(L, cr) \ D
      /\ \A x \in Buffers : x \in L2 <=> x \in L
      /\ Context \in L2 /\ L2 \subseteq L
  BY <1>1, <1>5, KindsDisjoint DEF SubsIn, Linked, ProgramGivenBack
<1>7. IsFiniteSet(L2)
  BY <1>1, <1>6, FS_Subset DEF Typed
<1>8. Typed(c2, L2, u2, pa, mp, cr)
  BY <1>1, <1>6, <1>7 DEF Typed
<1>9. \A x \in Buffers \cup Kernels : c2[x] = c[x] /\ u2[x] = u[x] /\ x \in Objects
  BY KindsDisjoint DEF ProgramGivenBack
<1>10. u2[Context] = u[Context] /\ c2[Program] = c[Program] - 1
  BY KindsDisjoint DEF ProgramGivenBack
<1>11. c2[Program] = u2[Program] + Cardinality(Linked(L2, cr))
  <2>1. u[Program] \in Nat /\ u2[Program] \in Nat
    BY <1>1, KindsDisjoint
  <2>2. c2[Program] = u2[Program] + n2
    BY <2>1, <1>3, <1>4, <1>10
  <2>3. QED
    BY <2>2, <1>4, <1>6
<1>12. IsFiniteSet(OfContext(L)) /\ Cardinality(OfContext(L)) \in Nat
  BY <1>1, CountedFinite
<1>13. c[Context] = u[Context] + Cardinality(OfContext(L)) /\ c[Context] \in Int /\ u[Context] \in Nat
  BY <1>1, KindsDisjoint DEF Sound, Exact
<1>14. c2[Context] = u2[Context] + Cardinality(OfContext(L2))
  <2>1. CASE c[Program] > 1
    <3>1. OfContext(L2) = OfContext(L) /\ c2[Context] = c[Context]
      BY <2>1, <1>5, KindsDisjoint DEF OfContext, ProgramGivenBack
    <3>2. QED
      BY <3>1, <1>10, <1>13
  <2>2. CASE ~(c[Program] > 1)
    <3>1. OfContext(L2) = OfContext(L) \ {Program} /\ c2[Context] = c[Context] - 1
      BY <2>2, <1>5, KindsDisjoint DEF OfContext, ProgramGivenBack
    <3>2. PICK S : S = OfContext(L)
      OBVIOUS
    <3>3. Cardinality(S \ {Program}) = Cardinality(S) - 1
      BY <1>1, <1>12, <3>2, FS_RemoveElement
    <3>4. QED
      BY <3>1, <3>2, <3>3, <1>10, <1>12, <1>13
  <2>3. QED
    BY <2>1, <2>2
<1>15. Exact(c2, L2, u2, pa, mp, cr)
  <2>1. \A b \in Buffers \cap L2 : c2[b] = BufferCount(L2, u2, pa, mp, b)
    BY <1>6, <1>9 DEF Sound, Exact, BufferCount
  <2>2. \A k \in Kernels \cap L2 : c2[k] = KernelCount(u2, cr, k)
    BY <1>6, <1>9 DEF Sound, Exact, KernelCount
  <2>3. QED
    BY <2>1, <2>2, <1>11, <1>14 DEF Exact
<1>16. Program \notin L2 => u2[Program] = 0 /\ Linked(L2, cr) = {}
  <2> SUFFICES ASSUME Program \notin L2 PROVE u2[Program] = 0 /\ Linked(L2, cr) = {}
    OBVIOUS
  <2>1. ~(c[Program] > 1)
    BY <1>1, <1>5, KindsDisjoint DEF ProgramGivenBack
  <2>2. u2[Program] \in Nat /\ u2[Program] + n2 <= 0
    BY <2>1, <1>1, <1>3, <1>4, KindsDisjoint
  <2>3. u2[Program] = 0 /\ n2 = 0
    BY <2>2
  <2>4. IsFiniteSet(Linked(L2, cr)) /\ Cardinality(Linked(L2, cr)) = 0
    BY <2>3, <1>4, <1>6, <1>8, CountedFinite
  <2>5. QED
    BY <2>3, <2>4, FS_EmptySet
<1>17. Reached(c2, L2, u2, pa, mp, cr)
  <2>1. ASSUME NEW o \in Objects, u2[o] > 0 PROVE o \in L2
    <3>1. CASE o = Program
      BY <2>1, <3>1, <1>16
    <3>2. CASE o # Program
      <4>1. u[o] > 0 /\ o \in L
        BY <2>1, <3>2 DEF Sound, Reached, ProgramGivenBack
      <4>2. o \notin D
        BY <4>1, <1>1 DEF ProgramGivenBack
      <4>3. QED
        BY <4>1, <4>2, <3>2 DEF ProgramGivenBack
    <3>3. QED
      BY <3>1, <3>2
  <2>2. /\ \A x \in Buffers \cap L2 : pa[x] \in L2 \cup {Null}
        /\ \A x \in Buffers \cap L2 : (\A s \in Buffers : pa[s] # x) => c2[x] >= 1
    BY <1>6, <1>9, SoundNumbers DEF Sound, Reached
  <2>3. \A m \in DOMAIN mp : mp[m].of \in L2
    BY <1>1, <1>6, MapsAreOfBuffers DEF Sound, Reached, Typed
  <2>4. QED
    BY <2>1, <2>2, <2>3, <1>6, <1>16 DEF Reached
<1>18. QED
  BY <1>8, <1>15, <1>17 DEF Sound

-----------------------------------------------------------------------------
\* Queues.  The places of a sequence at which an element of G is.
Hits(q, G) == {i \in DOMAIN q : q[i] \in G}

LEMMA HitsFinite ==
  ASSUME NEW S, NEW q \in Seq(S), NEW G
  PROVE  IsFiniteSet(Hits(q, G)) /\ Cardinality(Hits(q, G)) \in Nat
<1>1. Len(q) \in Nat /\ DOMAIN q = 1..Len(q)
  BY LenProperties
<1>2. \A i, j \in Int : IsFiniteSet(i..j)
  BY FS_Interval
<1>3. IsFiniteSet(DOMAIN q)
  BY <1>1, <1>2
<1>4. Hits(q, G) \in SUBSET DOMAIN q
  BY DEF Hits
<1>5. QED
  BY <1>3, <1>4, FS_Subset, FS_CardinalityType

LEMMA HitsAppend ==
  ASSUME NEW S, NEW q \in Seq(S), NEW c \in S, NEW G
  PROVE  Cardinality(Hits(Append(q, c), G)) = Cardinality(Hits(q, G)) + IF c \in G THEN 1 ELSE 0
<1>1. PICK N \in Nat : N = Len(q) /\ DOMAIN q = 1..N
  BY LenProperties
<1>2. PICK q2 \in Seq(S) : /\ q2 = Append(q, c) /\ Len(q2) = N + 1 /\ q2[N + 1] = c
                           /\ \A i \in 1..N : q2[i] = q[i]
  <2>1. PICK r : r = Append(q, c)
    OBVIOUS
  <2>2. /\ r \in Seq(S) /\ Len(r) = Len(q) + 1 /\ r[Len(q) + 1] = c
        /\ \A i \in 1..Len(q) : r[i] = q[i]
    BY <2>1, AppendProperties
  <2>3. QED
    BY <1>1, <2>1, <2>2
<1>3. DOMAIN q2 = 1..(N + 1)
  BY <1>2, LenProperties
<1>4. 1..(N + 1) = 1..N \cup {N + 1} /\ N + 1 \notin 1..N
  OBVIOUS
<1>5. /\ \A i \in 1..N : i \in Hits(q2, G) <=> i \in Hits(q, G)
      /\ Hits(q, G) \subseteq 1..N /\ Hits(q2, G) \subseteq 1..N \cup {N + 1}
      /\ N + 1 \in Hits(q2, G) <=> c \in G
  BY <1>1, <1>2, <1>3, <1>4 DEF Hits
<1>6. PICK H : H = Hits(q, G)
  OBVIOUS
<1>7. IsFiniteSet(H) /\ N + 1 \notin H /\ Cardinality(H) \in Nat
  BY <1>4, <1>5, <1>6, HitsFinite
<1>8. CASE c \in G
  <2>1. Hits(q2, G) = H \cup {N + 1}
    BY <1>5, <1>6, <1>8
  <2>2. Cardinality(H \cup {N + 1}) = Cardinality(H) + 1
    BY <1>7, FS_AddElement
  <2>3. QED
    BY <1>2, <1>6, <1>8, <2>1, <2>2
<1>9. CASE c \notin G
  <2>1. Hits(q2, G) = H
    BY <1>5, <1>6, <1>9
  <2>2. QED
    BY <1>2, <1>6, <1>7, <1>9, <2>1
<1>10. QED
  BY <1>8, <1>9

\* The tail of a sequence.
LEMMA TailParts ==
  ASSUME NEW S, NEW q \in Seq(S), q # <<>>
  PROVE  /\ Tail(q) \in Seq(S) /\ Len(q) \in Nat /\ Len(q) >= 1
         /\ Len(Tail(q)) = Len(q) - 1 /\ DOMAIN q = 1..Len(q) /\ DOMAIN Tail(q) = 1..(Len(q) - 1)
         /\ 1 \in DOMAIN q /\ q[1] \in S
         /\ \A i \in DOMAIN Tail(q) : i + 1 \in DOMAIN q /\ Tail(q)[i] = q[i + 1]
         /\ \A i \in DOMAIN q : i # 1 => i - 1 \in DOMAIN Tail(q) /\ Tail(q)[i - 1] = q[i]
<1>1. /\ Tail(q) \in Seq(S) /\ Len(Tail(q)) = Len(q) - 1
      /\ \A i \in 1..Len(Tail(q)) : Tail(q)[i] = q[i + 1]
  BY HeadTailProperties
<1>2. Len(q) \in Nat \ {0}
  BY EmptySeq
<1>3. /\ DOMAIN q = 1..Len(q) /\ DOMAIN Tail(q) = 1..Len(Tail(q))
  BY <1>1, LenProperties
<1>4. PICK N \in Nat : N = Len(q) /\ N >= 1
  BY <1>2
<1>5. DOMAIN q = 1..N /\ DOMAIN Tail(q) = 1..(N - 1) /\ 1 \in 1..N
  BY <1>1, <1>3, <1>4
<1>6. \A i \in 1..(N - 1) : i + 1 \in 1..N
  BY <1>4
<1>7. \A i \in 1..N : i # 1 => i - 1 \in 1..(N - 1) /\ (i - 1) + 1 = i
  BY <1>4
<1>8. q[1] \in S
  BY <1>4, <1>5, ElementOfSeq
<1>9. \A i \in 1..(N - 1) : Tail(q)[i] = q[i + 1]
  BY <1>1, <1>4
<1>10. \A i \in 1..N : i # 1 => Tail(q)[i - 1] = q[i]
  BY <1>7, <1>9
<1>11. QED
  BY <1>1, <1>4, <1>5, <1>6, <1>7, <1>8, <1>9, <1>10

LEMMA HitsTail ==
  ASSUME NEW S, NEW q \in Seq(S), q # <<>>, NEW G
  PROVE  Cardinality(Hits(q, G)) = Cardinality(Hits(Tail(q), G)) + IF q[1] \in G THEN 1 ELSE 0
<1>1. PICK N \in Nat : N = Len(q) /\ DOMAIN q = 1..N /\ N >= 1 /\ DOMAIN Tail(q) = 1..(N - 1)
  BY TailParts
<1>2. /\ \A i \in 1..(N - 1) : i + 1 \in 1..N /\ i + 1 # 1 /\ Tail(q)[i] = q[i + 1]
      /\ \A i \in 1..N : i # 1 => i - 1 \in 1..(N - 1) /\ (i - 1) + 1 = i /\ Tail(q)[i - 1] = q[i]
  BY <1>1, TailParts
<1>3. PICK A, B : A = Hits(Tail(q), G) /\ B = Hits(q, G) \ {1}
  OBVIOUS
<1>4. /\ \A i \in A : i \in 1..(N - 1) /\ i + 1 \in B
      /\ \A j \in B : j \in 1..N /\ j - 1 \in A /\ (j - 1) + 1 = j
  BY <1>1, <1>2, <1>3 DEF Hits
<1>5. PICK F : F = [i \in A |-> i + 1]
  OBVIOUS
<1>6. F \in [A -> B]
  BY <1>4, <1>5
<1>7. \A a, b \in A : F[a] = F[b] => a = b
  BY <1>4, <1>5
<1>8. \A j \in B : \E i \in A : F[i] = j
  BY <1>4, <1>5
<1>9. F \in Bijection(A, B)
  BY <1>6, <1>7, <1>8, Fun_IsBij
<1>10. ExistsBijection(A, B)
  BY <1>9 DEF ExistsBijection
<1>11. IsFiniteSet(A) /\ Cardinality(A) \in Nat
  BY <1>3, TailParts, HitsFinite
<1>12. Cardinality(A) = Cardinality(B)
  BY <1>10, <1>11, FS_Bijection
<1>13. PICK H : H = Hits(q, G)
  OBVIOUS
<1>14. IsFiniteSet(H) /\ Cardinality(H) \in Nat
  BY <1>13, HitsFinite
<1>15. PICK n \in Nat : n = 1
  OBVIOUS
<1>16. Cardinality(H \ {n}) = IF n \in H THEN Cardinality(H) - 1 ELSE Cardinality(H)
  BY <1>14, FS_RemoveElement
<1>17. n \in H <=> q[1] \in G
  BY <1>13, <1>15, TailParts DEF Hits
<1>18. Cardinality(A) = IF n \in H THEN Cardinality(H) - 1 ELSE Cardinality(H)
  BY <1>3, <1>12, <1>13, <1>15, <1>16
<1>19. QED
  BY <1>3, <1>11, <1>13, <1>14, <1>17, <1>18

\* A queued command names an object once for each reference that it retained.
Commands(D) ==
  [kind : {"use", "map", "unmap"}, buffers : {<<b>> : b \in Buffers} \cup (Buffers \X Buffers),
   kernel : Kernels \cup {Null}, map : {0} \cup D]
FirstIs(o) == {c \in Commands(Int) : c.kind = "use" /\ c.buffers[1] = o}
SecondIs(o) == {c \in Commands(Int) : c.kind = "use" /\ Len(c.buffers) = 2 /\ c.buffers[2] = o}
KernelIs(o) == {c \in Commands(Int) : c.kind = "use" /\ c.kernel = o}
One(b) == IF b THEN 1 ELSE 0
Names(c, o) == One(c \in FirstIs(o)) + One(c \in SecondIs(o)) + One(c \in KernelIs(o))
PendingIn(q, o) == Cardinality(Hits(q, FirstIs(o))) + Cardinality(Hits(q, SecondIs(o)))
                     + Cardinality(Hits(q, KernelIs(o)))

LEMMA PendingNumber ==
  ASSUME NEW q \in Seq(Commands(Int)), NEW o
  PROVE  PendingIn(q, o) \in Nat
<1>1. /\ Cardinality(Hits(q, FirstIs(o))) \in Nat /\ Cardinality(Hits(q, SecondIs(o))) \in Nat
      /\ Cardinality(Hits(q, KernelIs(o))) \in Nat
  BY HitsFinite
<1>2. QED
  BY <1>1 DEF PendingIn

LEMMA PendingAppended ==
  ASSUME NEW q \in Seq(Commands(Int)), NEW c \in Commands(Int), NEW o
  PROVE  PendingIn(Append(q, c), o) = PendingIn(q, o) + Names(c, o)
<1>1. PICK x \in Nat, y \in Nat, z \in Nat :
        /\ x = Cardinality(Hits(q, FirstIs(o))) /\ y = Cardinality(Hits(q, SecondIs(o)))
        /\ z = Cardinality(Hits(q, KernelIs(o)))
  BY HitsFinite
<1>2. /\ Cardinality(Hits(Append(q, c), FirstIs(o))) = x + One(c \in FirstIs(o))
      /\ Cardinality(Hits(Append(q, c), SecondIs(o))) = y + One(c \in SecondIs(o))
      /\ Cardinality(Hits(Append(q, c), KernelIs(o))) = z + One(c \in KernelIs(o))
  BY <1>1, HitsAppend DEF One
<1>3. PICK f \in Nat, s \in Nat, k \in Nat :
        f = One(c \in FirstIs(o)) /\ s = One(c \in SecondIs(o)) /\ k = One(c \in KernelIs(o))
  BY DEF One
<1>4. /\ PendingIn(Append(q, c), o) = (x + f) + (y + s) + (z + k)
      /\ PendingIn(q, o) = x + y + z /\ Names(c, o) = f + s + k
  BY <1>1, <1>2, <1>3 DEF PendingIn, Names
<1>5. QED
  BY <1>4

LEMMA PendingTaken ==
  ASSUME NEW q \in Seq(Commands(Int)), q # <<>>, NEW o
  PROVE  PendingIn(q, o) = PendingIn(Tail(q), o) + Names(q[1], o)
<1>1. PICK x \in Nat, y \in Nat, z \in Nat :
        /\ x = Cardinality(Hits(Tail(q), FirstIs(o))) /\ y = Cardinality(Hits(Tail(q), SecondIs(o)))
        /\ z = Cardinality(Hits(Tail(q), KernelIs(o)))
  BY HitsFinite, TailParts
<1>2. /\ Cardinality(Hits(q, FirstIs(o))) = x + One(q[1] \in FirstIs(o))
      /\ Cardinality(Hits(q, SecondIs(o))) = y + One(q[1] \in SecondIs(o))
      /\ Cardinality(Hits(q, KernelIs(o))) = z + One(q[1] \in KernelIs(o))
  BY <1>1, HitsTail DEF One
<1>3. PICK f \in Nat, s \in Nat, k \in Nat :
        f = One(q[1] \in FirstIs(o)) /\ s = One(q[1] \in SecondIs(o)) /\ k = One(q[1] \in KernelIs(o))
  BY DEF One
<1>4. /\ PendingIn(q, o) = (x + f) + (y + s) + (z + k)
      /\ PendingIn(Tail(q), o) = x + y + z /\ Names(q[1], o) = f + s + k
  BY <1>1, <1>2, <1>3 DEF PendingIn, Names
<1>5. QED
  BY <1>4

-----------------------------------------------------------------------------
\* What the operators of Objects do to the counts.
Counts == [count : [Objects -> Int], freed : SUBSET Objects]

LEMMA CountsReplaced ==
  ASSUME NEW r \in Counts, NEW f \in [Objects -> Int], NEW s, s = [r EXCEPT !.count = f]
  PROVE  s \in Counts /\ s.count = f /\ s.freed = r.freed
BY DEF Counts

LEMMA FreedMore ==
  ASSUME NEW r \in Counts, NEW o \in Objects, NEW s, s = [r EXCEPT !.freed = @ \cup {o}]
  PROVE  s \in Counts /\ s.count = r.count /\ s.freed = r.freed \cup {o}
BY DEF Counts

LEMMA CountSet ==
  ASSUME NEW r \in Counts, NEW o \in Objects, NEW n \in Int, NEW s, s = [r EXCEPT !.count[o] = n]
  PROVE  /\ s \in Counts /\ s.freed = r.freed /\ s.count[o] = n
         /\ \A x \in Objects : x # o => s.count[x] = r.count[x]
BY DEF Counts

LEMMA DroppedOne ==
  ASSUME NEW r \in Counts, NEW o \in Objects
  PROVE  Dropped(r, o) \in Counts /\ Dropped(r, o).count = Less(r.count, o)
         /\ Dropped(r, o).freed = r.freed
<1>1. r.count \in [Objects -> Int]
  BY DEF Counts
<1>2. PICK f \in [Objects -> Int] : f = Less(r.count, o)
  BY <1>1, LessOne
<1>3. Dropped(r, o) = [r EXCEPT !.count = f]
  BY <1>2 DEF Dropped, Less, Counts
<1>4. QED
  BY <1>2, <1>3, CountsReplaced

LEMMA RetainedOne ==
  ASSUME NEW r \in Counts, NEW o \in Objects
  PROVE  /\ Retained(r, <<o>>) \in Counts /\ Retained(r, <<o>>).count = More(r.count, o)
         /\ Retained(r, <<o>>).freed = r.freed
<1> DEFINE n(x) == Cardinality({i \in DOMAIN <<o>> : <<o>>[i] = x})
<1>1. ASSUME NEW x PROVE n(x) = IF x = o THEN 1 ELSE 0
  <2>1. {i \in DOMAIN <<o>> : <<o>>[i] = x} = IF x = o THEN {1} ELSE {}
    OBVIOUS
  <2>2. Cardinality({1}) = 1 /\ Cardinality({}) = 0
    BY FS_Singleton, FS_EmptySet
  <2>3. QED
    BY <2>1, <2>2
<1>2. Retained(r, <<o>>) = [r EXCEPT !.count = [x \in Objects |-> r.count[x] + n(x)]]
  BY DEF Retained, Counts
<1> HIDE DEF n
<1>3. PICK f \in [Objects -> Int] :
        f = More(r.count, o) /\ f[o] = r.count[o] + 1 /\ \A x \in Objects : x # o => f[x] = r.count[x]
  BY MoreOne DEF Counts
<1>4. PICK g : g = [x \in Objects |-> r.count[x] + n(x)]
  OBVIOUS
<1>5. \A x \in Objects : r.count[x] \in Int
  BY DEF Counts
<1>6. \A x \in Objects : g[x] = f[x]
  BY <1>1, <1>3, <1>4, <1>5
<1>7. g = f
  BY <1>4, <1>6, <1>3
<1>8. QED
  BY <1>2, <1>3, <1>4, <1>7, CountsReplaced

LEMMA RetainedTwo ==
  ASSUME NEW r \in Counts, NEW o \in Objects, NEW p \in Objects
  PROVE  /\ Retained(r, <<o, p>>) \in Counts
         /\ Retained(r, <<o, p>>).count = More(More(r.count, o), p)
         /\ Retained(r, <<o, p>>).freed = r.freed
<1> DEFINE n(x) == Cardinality({i \in DOMAIN <<o, p>> : <<o, p>>[i] = x})
<1>1. ASSUME NEW x PROVE n(x) = One(x = o) + One(x = p)
  <2>1. {i \in DOMAIN <<o, p>> : <<o, p>>[i] = x}
          = (IF x = o THEN {1} ELSE {}) \cup (IF x = p THEN {2} ELSE {})
    OBVIOUS
  <2>2. \A y : IsFiniteSet({y}) /\ Cardinality({y}) = 1
    BY FS_Singleton
  <2>3. Cardinality({}) = 0
    BY FS_EmptySet
  <2>4. Cardinality({1} \cup {2}) = 2
    <3>1. PICK j, k : j = 1 /\ k = 2 /\ k \notin {j}
      OBVIOUS
    <3>2. IsFiniteSet({j}) /\ Cardinality({j}) = 1
      BY <2>2
    <3>3. Cardinality({j} \cup {k}) = Cardinality({j}) + 1
      BY <3>1, <3>2, FS_AddElement
    <3>4. QED
      BY <3>1, <3>2, <3>3
  <2>5. CASE x = o /\ x = p
    BY <2>1, <2>4, <2>5 DEF One
  <2>6. CASE ~(x = o /\ x = p)
    <3>1. n(x) = IF x = o \/ x = p THEN 1 ELSE 0
      BY <2>1, <2>2, <2>3, <2>6
    <3>2. QED
      BY <3>1, <2>6 DEF One
  <2>7. QED
    BY <2>5, <2>6
<1>2. Retained(r, <<o, p>>) = [r EXCEPT !.count = [x \in Objects |-> r.count[x] + n(x)]]
  BY DEF Retained, Counts
<1> HIDE DEF n
<1>3. PICK e \in [Objects -> Int] :
        e = More(r.count, o) /\ e[o] = r.count[o] + 1 /\ \A x \in Objects : x # o => e[x] = r.count[x]
  BY MoreOne DEF Counts
<1>4. PICK f \in [Objects -> Int] :
        f = More(e, p) /\ f[p] = e[p] + 1 /\ \A x \in Objects : x # p => f[x] = e[x]
  BY MoreOne
<1>5. PICK g : g = [x \in Objects |-> r.count[x] + n(x)]
  OBVIOUS
<1>6. ASSUME NEW x \in Objects PROVE g[x] = f[x]
  <2>1. r.count[x] \in Int /\ g[x] = r.count[x] + n(x)
    BY <1>5 DEF Counts
  <2>2. e[x] = r.count[x] + One(x = o)
    BY <1>3, <2>1 DEF One
  <2>3. f[x] = e[x] + One(x = p)
    BY <1>4 DEF One
  <2>4. One(x = o) \in Int /\ One(x = p) \in Int
    BY DEF One
  <2>5. QED
    BY <1>1, <2>1, <2>2, <2>3, <2>4
<1>7. g = f
  BY <1>4, <1>5, <1>6
<1>8. QED
  BY <1>2, <1>3, <1>4, <1>5, <1>7, CountsReplaced

LEMMA MemReleasedIs ==
  ASSUME NEW r \in Counts, NEW b \in Buffers, parent[b] \in Buffers \cup {Null}
  PROVE  /\ MemReleased(r, b) \in Counts
         /\ MemReleased(r, b).count = CountAfter(r.count, parent, b)
         /\ MemReleased(r, b).freed = IF r.count[b] > 1 THEN r.freed ELSE r.freed \cup {b}
<1>1. b \in Objects /\ Context \in Objects /\ (parent[b] # Null => parent[b] \in Objects)
  BY KindsDisjoint
<1>2. PICK d \in Counts : d = Dropped(r, b) /\ d.count = Less(r.count, b) /\ d.freed = r.freed
  BY <1>1, DroppedOne
<1>3. CASE r.count[b] > 1
  BY <1>2, <1>3 DEF MemReleased, CountAfter
<1>4. CASE ~(r.count[b] > 1)
  <2>1. PICK f : f = [d EXCEPT !.freed = @ \cup {b}]
    OBVIOUS
  <2>2. f \in Counts /\ f.count = d.count /\ f.freed = r.freed \cup {b}
    BY <1>1, <1>2, <2>1, FreedMore
  <2>3. MemReleased(r, b) = Dropped(IF parent[b] = Null THEN f ELSE Dropped(f, parent[b]), Context)
    BY <1>2, <1>4, <2>1 DEF MemReleased
  <2>4. PICK g : g = IF parent[b] = Null THEN f ELSE Dropped(f, parent[b])
    OBVIOUS
  <2>5. /\ g \in Counts /\ g.freed = f.freed
        /\ g.count = IF parent[b] = Null THEN f.count ELSE Less(f.count, parent[b])
    BY <1>1, <2>2, <2>4, DroppedOne
  <2>6. /\ Dropped(g, Context) \in Counts /\ Dropped(g, Context).count = Less(g.count, Context)
        /\ Dropped(g, Context).freed = g.freed
    BY <1>1, <2>5, DroppedOne
  <2>7. MemReleased(r, b) = Dropped(g, Context)
    BY <2>3, <2>4
  <2>8. CountAfter(r.count, parent, b) = Less(g.count, Context)
    BY <1>2, <1>4, <2>2, <2>5 DEF CountAfter
  <2>9. QED
    BY <1>4, <2>2, <2>5, <2>6, <2>7, <2>8
<1>5. QED
  BY <1>3, <1>4

LEMMA ProgramReleasedIs ==
  ASSUME NEW r \in Counts
  PROVE  /\ ProgramReleased(r) \in Counts
         /\ ProgramReleased(r).count[Program] = r.count[Program] - 1
         /\ ProgramReleased(r).count[Context] =
              IF r.count[Program] > 1 THEN r.count[Context] ELSE r.count[Context] - 1
         /\ \A x \in Objects : x \notin {Program, Context} => ProgramReleased(r).count[x] = r.count[x]
         /\ ProgramReleased(r).freed = IF r.count[Program] > 1 THEN r.freed ELSE r.freed \cup {Program}
<1>1. Program \in Objects /\ Context \in Objects /\ Program # Context /\ r.count \in [Objects -> Int]
  BY KindsDisjoint DEF Counts
<1>2. PICK d \in Counts :
        /\ d = Dropped(r, Program) /\ d.freed = r.freed
        /\ d.count[Program] = r.count[Program] - 1
        /\ \A x \in Objects : x # Program => d.count[x] = r.count[x]
  <2>1. PICK d : d = Dropped(r, Program)
    OBVIOUS
  <2>2. d \in Counts /\ d.freed = r.freed /\ d.count = Less(r.count, Program)
    BY <1>1, <2>1, DroppedOne
  <2>3. /\ Less(r.count, Program)[Program] = r.count[Program] - 1
        /\ \A x \in Objects : x # Program => Less(r.count, Program)[x] = r.count[x]
    BY <1>1, LessOne
  <2>4. QED
    BY <2>1, <2>2, <2>3
<1>3. CASE r.count[Program] > 1
  BY <1>1, <1>2, <1>3 DEF ProgramReleased
<1>4. CASE ~(r.count[Program] > 1)
  <2>1. PICK f : f = [d EXCEPT !.freed = @ \cup {Program}]
    OBVIOUS
  <2>2. f \in Counts /\ f.count = d.count /\ f.freed = r.freed \cup {Program}
    BY <1>1, <1>2, <2>1, FreedMore
  <2>3. f.count \in [Objects -> Int]
    BY <2>2 DEF Counts
  <2>4. PICK g \in Counts :
          /\ g = Dropped(f, Context) /\ g.freed = f.freed
          /\ g.count[Context] = f.count[Context] - 1
          /\ \A x \in Objects : x # Context => g.count[x] = f.count[x]
    <3>1. PICK g : g = Dropped(f, Context)
      OBVIOUS
    <3>2. g \in Counts /\ g.freed = f.freed /\ g.count = Less(f.count, Context)
      BY <1>1, <2>2, <3>1, DroppedOne
    <3>3. /\ Less(f.count, Context)[Context] = f.count[Context] - 1
          /\ \A x \in Objects : x # Context => Less(f.count, Context)[x] = f.count[x]
      BY <1>1, <2>3, LessOne
    <3>4. QED
      BY <3>1, <3>2, <3>3
  <2>5. ProgramReleased(r) = g
    BY <1>2, <1>4, <2>1, <2>4 DEF ProgramReleased
  <2>6. QED
    BY <1>1, <1>2, <1>4, <2>2, <2>4, <2>5
<1>5. QED
  BY <1>3, <1>4

-----------------------------------------------------------------------------
\* The invariant.  What the client and the queued commands use.
UseIn(h, q) == [o \in Objects |-> h[o] + PendingIn(q, o)]
Alive == made \ refs.freed

CountsOK == Sound(refs.count, Alive, UseIn(held, queue), parent, mapping, Creating)

MadeOK ==
  /\ IsFiniteSet(made) /\ Len(mapping) <= MaxMaps
  /\ \A b \in Buffers : parent[b] # Null => b \in made /\ parent[b] \in made /\ parent[b] # b

\* A call on a kernel has it to itself: it is not used, and while it is walked
\* to and unlinked its count is 0.
Calling(t) == call[t].at # "idle"
Unused(k) == held[k] = 0 /\ PendingIn(queue, k) = 0
CallsOK ==
  /\ \A t \in Threads : Calling(t) => call[t].kernel \in Kernels \cap Alive
  /\ \A t \in Threads : call[t].at = "create" => Unused(call[t].kernel)
  /\ \A t \in Threads : call[t].at \in {"walk", "unlink"} => refs.count[call[t].kernel] = 0
  /\ \A s, t \in Threads : s # t /\ Calling(s) /\ Calling(t) => call[s].kernel # call[t].kernel
  /\ Creating # {} => held[Program] > 0

\* A queued map or unmap is of one buffer and of a mapping of it.
QueueOK ==
  \A i \in DOMAIN queue : queue[i].kind # "use" =>
    /\ queue[i].buffers \in {<<b>> : b \in Buffers} /\ queue[i].kernel = Null
    /\ queue[i].map \in MapsIn(mapping, queue[i].buffers[1])

\* A thread that executes a map or an unmap is at a buffer that was mapped.
EditsOK ==
  \A t \in Threads : edit[t].at # "none" =>
    edit[t].of \in Buffers /\ MapsIn(mapping, edit[t].of) # {}

CoreOK == TypeOK /\ CountsOK /\ MadeOK /\ CallsOK /\ QueueOK /\ EditsOK

-----------------------------------------------------------------------------
\* Types, before a step and after it.
Maps == [of : Buffers, at : Addresses \cup {Null}]
CallStates == [at : {"idle", "create", "walk", "unlink"}, kernel : Kernels \cup {Null},
               link : Kernels \cup {Null}]

EditStates == [at : {"none", "delete", "count"}, of : Buffers \cup {Null}, value : Int]
EditsTyped == edit \in [Threads -> EditStates] /\ torn \subseteq Buffers /\ miscounted \subseteq Buffers

LEMMA TypeParts ==
  TypeOK <=>
    /\ refs \in Counts /\ refs.freed \subseteq made /\ made \subseteq Objects
    /\ held \in [Objects -> 0..MaxRefs] /\ parent \in [Buffers -> Buffers \cup {Null}]
    /\ mapping \in Seq(Maps) /\ mappings \in [Buffers -> Seq(DOMAIN mapping)]
    /\ mapCount \in [Buffers -> Int] /\ unmapped \in [Buffers -> [Addresses -> 0..MaxMaps]]
    /\ EditsTyped
    /\ queue \in Seq(Commands(DOMAIN mapping))
    /\ head \in Kernels \cup {Null} /\ next \in [Kernels -> Kernels \cup {Null}]
    /\ call \in [Threads -> CallStates] /\ raced \in BOOLEAN /\ corrupt \in BOOLEAN
BY DEF TypeOK, Counts, Maps, Commands, CallStates, EditsTyped, EditStates

LEMMA TypePartsNext ==
  TypeOK' <=>
    /\ refs' \in Counts /\ refs'.freed \subseteq made' /\ made' \subseteq Objects
    /\ held' \in [Objects -> 0..MaxRefs] /\ parent' \in [Buffers -> Buffers \cup {Null}]
    /\ mapping' \in Seq(Maps) /\ mappings' \in [Buffers -> Seq(DOMAIN mapping')]
    /\ mapCount' \in [Buffers -> Int] /\ unmapped' \in [Buffers -> [Addresses -> 0..MaxMaps]]
    /\ EditsTyped'
    /\ queue' \in Seq(Commands(DOMAIN mapping'))
    /\ head' \in Kernels \cup {Null} /\ next' \in [Kernels -> Kernels \cup {Null}]
    /\ call' \in [Threads -> CallStates] /\ raced' \in BOOLEAN /\ corrupt' \in BOOLEAN
BY DEF TypeOK, Counts, Maps, Commands, CallStates, EditsTyped, EditStates

LEMMA CountsNext ==
  CountsOK' <=> Sound(refs'.count, made' \ refs'.freed, UseIn(held', queue'), parent', mapping', Creating')
BY DEF CountsOK, Alive

LEMMA CountsNow ==
  CountsOK <=> Sound(refs.count, made \ refs.freed, UseIn(held, queue), parent, mapping, Creating)
BY DEF CountsOK, Alive

\* The places of the mappings are numbers.
LEMMA MappingPlaces ==
  ASSUME NEW mp \in Seq(Maps)
  PROVE  /\ Len(mp) \in Nat /\ DOMAIN mp = 1..Len(mp) /\ DOMAIN mp \subseteq Int
         /\ \A m \in DOMAIN mp : mp[m] \in Maps /\ mp[m].of \in Buffers
                                   /\ mp[m].at \in Addresses \cup {Null}
<1>1. Len(mp) \in Nat /\ DOMAIN mp = 1..Len(mp) /\ mp \in [1..Len(mp) -> Maps]
  BY LenProperties
<1>2. \A m \in DOMAIN mp : mp[m] \in Maps
  BY <1>1
<1>3. QED
  BY <1>1, <1>2 DEF Maps

LEMMA CommandsWider ==
  ASSUME NEW D, NEW E, D \subseteq E, NEW q \in Seq(Commands(D))
  PROVE  q \in Seq(Commands(E))
<1>1. Commands(D) \subseteq Commands(E)
  BY DEF Commands
<1>2. QED
  BY <1>1, SeqMonotonic

\* The parts of the state that the lemmas on values speak of.
LEMMA StateTyped ==
  ASSUME TypeOK
  PROVE  /\ refs \in Counts /\ refs.count \in [Objects -> Int] /\ refs.freed \subseteq made
         /\ made \subseteq Objects
         /\ held \in [Objects -> Nat] /\ parent \in [Buffers -> Buffers \cup {Null}]
         /\ mapping \in Seq(Maps) /\ queue \in Seq(Commands(Int))
         /\ \A i \in DOMAIN queue : queue[i] \in Commands(Int)
<1>1. 0..MaxRefs \subseteq Nat
  BY ObjectsAssumption
<1>2. held \in [Objects -> Nat]
  BY <1>1, TypeParts
<1>3. queue \in Seq(Commands(Int))
  BY TypeParts, MappingPlaces, CommandsWider
<1>4. \A i \in DOMAIN queue : queue[i] \in Commands(Int)
  BY <1>3, LenProperties, ElementOfSeq
<1>5. QED
  BY <1>2, <1>3, <1>4, TypeParts DEF Counts

\* A command that has the kind "use" names its first buffer, its second and its
\* kernel; the others name nothing.
LEMMA CommandParts ==
  ASSUME NEW c \in Commands(Int)
  PROVE  /\ c.kind \in {"use", "map", "unmap"} /\ c.kernel \in Kernels \cup {Null} /\ c.map \in Int
         /\ c.buffers[1] \in Buffers
         /\ \/ Len(c.buffers) = 1 /\ c.buffers = <<c.buffers[1]>>
            \/ Len(c.buffers) = 2 /\ c.buffers[2] \in Buffers
         /\ DOMAIN c.buffers = 1..Len(c.buffers)
<1>1. /\ c.kind \in {"use", "map", "unmap"} /\ c.kernel \in Kernels \cup {Null} /\ c.map \in Int
      /\ c.buffers \in {<<b>> : b \in Buffers} \cup (Buffers \X Buffers)
  BY DEF Commands
<1>2. CASE c.buffers \in {<<b>> : b \in Buffers}
  <2>1. PICK b \in Buffers : c.buffers = <<b>>
    BY <1>2
  <2>2. QED
    BY <1>1, <2>1
<1>3. CASE c.buffers \in Buffers \X Buffers
  <2>1. PICK b \in Buffers, p \in Buffers : c.buffers = <<b, p>>
    BY <1>3
  <2>2. QED
    BY <1>1, <2>1
<1>4. QED
  BY <1>1, <1>2, <1>3

LEMMA NamesAre ==
  ASSUME NEW c \in Commands(Int), NEW o
  PROVE  Names(c, o) = IF c.kind = "use"
                       THEN One(c.buffers[1] = o) + One(Len(c.buffers) = 2 /\ c.buffers[2] = o)
                              + One(c.kernel = o)
                       ELSE 0
BY DEF Names, FirstIs, SecondIs, KernelIs, One

\* A function that differs in one place.
LEMMA FunctionSet ==
  ASSUME NEW A, NEW B, NEW h \in [A -> B], NEW o \in A, NEW n \in B
  PROVE  /\ [h EXCEPT ![o] = n] \in [A -> B] /\ [h EXCEPT ![o] = n][o] = n
         /\ \A x \in A : x # o => [h EXCEPT ![o] = n][x] = h[x]
OBVIOUS

\* Uses, and how they change.
LEMMA UseValues ==
  ASSUME NEW h \in [Objects -> Nat], NEW q \in Seq(Commands(Int))
  PROVE  /\ UseIn(h, q) \in [Objects -> Nat] /\ UseIn(h, q) \in [Objects -> Int]
         /\ \A o \in Objects : /\ UseIn(h, q)[o] = h[o] + PendingIn(q, o)
                               /\ h[o] \in Nat /\ PendingIn(q, o) \in Nat
<1>1. \A o \in Objects : PendingIn(q, o) \in Nat /\ h[o] \in Nat
  BY PendingNumber
<1>2. \A o \in Objects : h[o] + PendingIn(q, o) \in Nat
  BY <1>1
<1>3. QED
  BY <1>1, <1>2 DEF UseIn

Differs(g, h, o) == \A x \in Objects : x # o => g[x] = h[x]

LEMMA UseHeldSet ==
  ASSUME NEW h \in [Objects -> Nat], NEW g \in [Objects -> Nat], NEW q \in Seq(Commands(Int)),
         NEW o \in Objects, Differs(g, h, o)
  PROVE  UseIn(g, q)[o] = g[o] + PendingIn(q, o) /\ Differs(UseIn(g, q), UseIn(h, q), o)
<1>1. \A x \in Objects : UseIn(g, q)[x] = g[x] + PendingIn(q, x)
  BY UseValues
<1>2. \A x \in Objects : UseIn(h, q)[x] = h[x] + PendingIn(q, x)
  BY UseValues
<1>3. QED
  BY <1>1, <1>2 DEF Differs

LEMMA UseHeldMore ==
  ASSUME NEW h \in [Objects -> Nat], NEW q \in Seq(Commands(Int)), NEW o \in Objects
  PROVE  UseIn([h EXCEPT ![o] = @ + 1], q) = More(UseIn(h, q), o)
<1>1. PICK n \in Nat : n = h[o] + 1
  OBVIOUS
<1>2. PICK u \in [Objects -> Int] : u = UseIn(h, q) /\ u[o] = h[o] + PendingIn(q, o)
  BY UseValues
<1>3. PICK g \in [Objects -> Nat] : g = [h EXCEPT ![o] = n] /\ g[o] = n /\ Differs(g, h, o)
  <2>1. PICK g : g = [h EXCEPT ![o] = n]
    OBVIOUS
  <2>2. g \in [Objects -> Nat] /\ g[o] = n /\ \A x \in Objects : x # o => g[x] = h[x]
    BY <2>1
  <2>3. QED
    BY <2>1, <2>2 DEF Differs
<1>4. PICK v \in [Objects -> Int] :
        /\ v = UseIn(g, q) /\ v[o] = n + PendingIn(q, o)
        /\ \A x \in Objects : x # o => v[x] = u[x]
  <2>1. UseIn(g, q) \in [Objects -> Int] /\ \A x \in Objects : UseIn(g, q)[x] = g[x] + PendingIn(q, x)
    BY UseValues
  <2>2. \A x \in Objects : UseIn(h, q)[x] = h[x] + PendingIn(q, x)
    BY UseValues
  <2>3. g[o] = n /\ \A x \in Objects : x # o => g[x] = h[x]
    BY <1>3 DEF Differs
  <2>4. QED
    BY <2>1, <2>2, <2>3, <1>2
<1>5. PICK w \in [Objects -> Int] :
        w = More(u, o) /\ w[o] = u[o] + 1 /\ \A x \in Objects : x # o => w[x] = u[x]
  BY MoreOne
<1>6. h[o] \in Nat /\ PendingIn(q, o) \in Nat
  BY UseValues
<1>7. v[o] = w[o]
  BY <1>1, <1>2, <1>5, <1>6, <1>4
<1>8. \A x \in Objects : v[x] = w[x]
  BY <1>5, <1>7, <1>4
<1>9. v = w
  BY <1>8
<1>10. [h EXCEPT ![o] = @ + 1] = [h EXCEPT ![o] = n]
  BY <1>1
<1>11. QED
  BY <1>2, <1>3, <1>5, <1>9, <1>10, <1>4

LEMMA UseHeldLess ==
  ASSUME NEW h \in [Objects -> Nat], NEW q \in Seq(Commands(Int)), NEW o \in Objects, h[o] > 0
  PROVE  UseIn([h EXCEPT ![o] = @ - 1], q) = Less(UseIn(h, q), o) /\ UseIn(h, q)[o] > 0
<1>1. PICK n \in Nat : n = h[o] - 1
  OBVIOUS
<1>2. PICK u \in [Objects -> Int] : u = UseIn(h, q) /\ u[o] = h[o] + PendingIn(q, o)
  BY UseValues
<1>3. PICK g \in [Objects -> Nat] : g = [h EXCEPT ![o] = n] /\ g[o] = n /\ Differs(g, h, o)
  <2>1. PICK g : g = [h EXCEPT ![o] = n]
    OBVIOUS
  <2>2. g \in [Objects -> Nat] /\ g[o] = n /\ \A x \in Objects : x # o => g[x] = h[x]
    BY <2>1
  <2>3. QED
    BY <2>1, <2>2 DEF Differs
<1>4. PICK v \in [Objects -> Int] :
        /\ v = UseIn(g, q) /\ v[o] = n + PendingIn(q, o)
        /\ \A x \in Objects : x # o => v[x] = u[x]
  <2>1. UseIn(g, q) \in [Objects -> Int] /\ \A x \in Objects : UseIn(g, q)[x] = g[x] + PendingIn(q, x)
    BY UseValues
  <2>2. \A x \in Objects : UseIn(h, q)[x] = h[x] + PendingIn(q, x)
    BY UseValues
  <2>3. g[o] = n /\ \A x \in Objects : x # o => g[x] = h[x]
    BY <1>3 DEF Differs
  <2>4. QED
    BY <2>1, <2>2, <2>3, <1>2
<1>5. PICK w \in [Objects -> Int] :
        w = Less(u, o) /\ w[o] = u[o] - 1 /\ \A x \in Objects : x # o => w[x] = u[x]
  BY LessOne
<1>6. h[o] \in Nat /\ PendingIn(q, o) \in Nat
  BY UseValues
<1>7. v[o] = w[o] /\ u[o] > 0
  BY <1>1, <1>2, <1>5, <1>6, <1>4
<1>8. \A x \in Objects : v[x] = w[x]
  BY <1>5, <1>7, <1>4
<1>9. v = w
  BY <1>8
<1>10. [h EXCEPT ![o] = @ - 1] = [h EXCEPT ![o] = n]
  BY <1>1
<1>11. QED
  BY <1>2, <1>3, <1>5, <1>7, <1>9, <1>10, <1>4

\* A new object has one use, its maker's reference.
LEMMA UseHeldOne ==
  ASSUME NEW h \in [Objects -> Nat], NEW q \in Seq(Commands(Int)), NEW o \in Objects,
         UseIn(h, q)[o] = 0, NEW g \in [Objects -> Nat], g[o] = 1, Differs(g, h, o)
  PROVE  /\ UseIn(g, q) \in [Objects -> Nat] /\ UseIn(g, q)[o] = 1
         /\ Differs(UseIn(g, q), UseIn(h, q), o)
<1>1. UseIn(h, q)[o] = h[o] + PendingIn(q, o) /\ h[o] \in Nat /\ PendingIn(q, o) \in Nat
  BY UseValues
<1>2. PendingIn(q, o) = 0
  BY <1>1
<1>3. /\ UseIn(g, q) \in [Objects -> Nat] /\ UseIn(g, q)[o] = g[o] + PendingIn(q, o)
      /\ Differs(UseIn(g, q), UseIn(h, q), o)
  BY UseHeldSet, UseValues
<1>4. g[o] + PendingIn(q, o) = 1
  BY <1>2
<1>5. QED
  BY <1>3, <1>4

-----------------------------------------------------------------------------
\* Counts.  What is used lives, and what was not created is not used.
LEMMA UsedLives ==
  ASSUME TypeOK, CountsOK, NEW o \in Objects
  PROVE  /\ held[o] > 0 => UseIn(held, queue)[o] > 0
         /\ PendingIn(queue, o) > 0 => UseIn(held, queue)[o] > 0
         /\ UseIn(held, queue)[o] > 0 => o \in made /\ o \notin refs.freed
         /\ o \notin made => UseIn(held, queue)[o] = 0
         /\ UseIn(held, queue)[o] = 0 <=> held[o] = 0 /\ PendingIn(queue, o) = 0
<1>1. /\ UseIn(held, queue)[o] = held[o] + PendingIn(queue, o)
      /\ held[o] \in Nat /\ PendingIn(queue, o) \in Nat
  BY StateTyped, UseValues
<1>2. UseIn(held, queue)[o] > 0 => o \in made \ refs.freed
  BY CountsNow DEF Sound, Reached
<1>3. QED
  BY <1>1, <1>2

\* The counts after a step, and what was freed.
CountsDone == refs \in Counts /\ refs.freed \subseteq made /\ CountsOK

LEMMA CountsDoneNext ==
  CountsDone' <=>
    /\ refs' \in Counts /\ refs'.freed \subseteq made'
    /\ Sound(refs'.count, made' \ refs'.freed, UseIn(held', queue'), parent', mapping', Creating')
BY CountsNext DEF CountsDone, Counts

LEMMA CreatingSame ==
  ASSUME call' = call
  PROVE  Creating' = Creating
BY DEF Creating

LEMMA CountsCreateBuffer ==
  ASSUME TypeOK, CountsOK, MadeOK, NEW t \in Threads, NEW b \in Buffers, CreateBuffer(t, b)
  PROVE  CountsDone'
<1>1. /\ refs \in Counts /\ refs.count \in [Objects -> Int] /\ refs.freed \subseteq made
      /\ held \in [Objects -> Nat] /\ queue \in Seq(Commands(Int))
      /\ parent \in [Buffers -> Buffers \cup {Null}] /\ b \in Objects /\ Context \in Objects
      /\ b # Context /\ NumDevices \in Int
  BY StateTyped, KindsDisjoint
<1>2. /\ refs' = Retained([refs EXCEPT !.count[b] = NumDevices], <<Context>>)
      /\ made' = made \cup {b} /\ held' = [held EXCEPT ![b] = 1]
      /\ parent' = parent /\ mapping' = mapping /\ queue' = queue /\ call' = call
      /\ held[Context] > 0 /\ b \notin made
  BY DEF CreateBuffer, CanMake, mapVars, kernelVars
<1>3. PICK r : r = [refs EXCEPT !.count[b] = NumDevices]
  OBVIOUS
<1>4. /\ r \in Counts /\ r.freed = refs.freed /\ r.count[b] = NumDevices
      /\ r.count \in [Objects -> Int]
      /\ \A x \in Objects : x # b => r.count[x] = refs.count[x]
  BY <1>1, <1>3, CountSet DEF Counts
<1>5. /\ refs' \in Counts /\ refs'.freed = refs.freed /\ refs'.count = More(r.count, Context)
  BY <1>1, <1>2, <1>3, <1>4, RetainedOne
<1>6. /\ More(r.count, Context) \in [Objects -> Int]
      /\ More(r.count, Context)[Context] = r.count[Context] + 1
      /\ \A x \in Objects : x # Context => More(r.count, Context)[x] = r.count[x]
  BY <1>1, <1>4, MoreOne
<1>7. UseIn(held, queue)[b] = 0 /\ Context \in made /\ Context \notin refs.freed
  BY <1>1, <1>2, UsedLives
<1>8. /\ UseIn(held', queue) \in [Objects -> Nat] /\ UseIn(held', queue)[b] = 1
      /\ Differs(UseIn(held', queue), UseIn(held, queue), b)
  <2>1. held' \in [Objects -> Nat] /\ held'[b] = 1 /\ Differs(held', held, b)
    BY <1>1, <1>2 DEF Differs
  <2>2. QED
    BY <1>1, <1>7, <2>1, UseHeldOne
<1>9. parent[b] = Null
  BY <1>2 DEF MadeOK
<1>10. BufferMade(refs.count, made \ refs.freed, UseIn(held, queue), parent, b, Null,
                  refs'.count, UseIn(held', queue))
  BY <1>1, <1>2, <1>4, <1>5, <1>6, <1>7, <1>8, <1>9 DEF BufferMade, Differs
<1>11. Sound(refs'.count, (made \ refs.freed) \cup {b}, UseIn(held', queue),
             [parent EXCEPT ![b] = Null], mapping, Creating)
  BY <1>10, CountsNow, SoundCreateBuffer
<1>12. /\ (made \ refs.freed) \cup {b} = made' \ refs'.freed /\ refs'.freed \subseteq made'
       /\ [parent EXCEPT ![b] = Null] = parent'
  BY <1>1, <1>2, <1>5, <1>9
<1>13. QED
  BY <1>2, <1>5, <1>11, <1>12, CreatingSame, CountsDoneNext

LEMMA CountsCreateSubBuffer ==
  ASSUME TypeOK, CountsOK, MadeOK, NEW t \in Threads, NEW b \in Buffers, NEW p \in Buffers,
         CreateSubBuffer(t, b, p)
  PROVE  CountsDone'
<1>1. /\ refs \in Counts /\ refs.count \in [Objects -> Int] /\ refs.freed \subseteq made
      /\ held \in [Objects -> Nat] /\ queue \in Seq(Commands(Int))
      /\ parent \in [Buffers -> Buffers \cup {Null}] /\ b \in Objects /\ Context \in Objects
      /\ b # Context /\ p \in Objects /\ p # Context /\ p # Null
  BY StateTyped, KindsDisjoint
<1>2. /\ refs' = Retained([refs EXCEPT !.count[b] = 1], <<p, Context>>)
      /\ made' = made \cup {b} /\ held' = [held EXCEPT ![b] = 1]
      /\ parent' = [parent EXCEPT ![b] = p] /\ mapping' = mapping /\ queue' = queue /\ call' = call
      /\ held[p] > 0 /\ parent[p] = Null /\ b \notin made
  BY DEF CreateSubBuffer, CanMake, mapVars, kernelVars
<1>3. PICK n \in Int : n = 1
  OBVIOUS
<1>4. PICK r : r = [refs EXCEPT !.count[b] = n]
  OBVIOUS
<1>5. /\ r \in Counts /\ r.freed = refs.freed /\ r.count[b] = n
      /\ r.count \in [Objects -> Int]
      /\ \A x \in Objects : x # b => r.count[x] = refs.count[x]
  BY <1>1, <1>4, CountSet DEF Counts
<1>6. refs' = Retained(r, <<p, Context>>)
  BY <1>2, <1>3, <1>4
<1>7. /\ refs' \in Counts /\ refs'.freed = refs.freed
      /\ refs'.count = More(More(r.count, p), Context)
  BY <1>1, <1>5, <1>6, RetainedTwo
<1>8. PICK e \in [Objects -> Int] :
        e = More(r.count, p) /\ e[p] = r.count[p] + 1 /\ \A x \in Objects : x # p => e[x] = r.count[x]
  <2>1. PICK e : e = More(r.count, p)
    OBVIOUS
  <2>2. /\ e \in [Objects -> Int] /\ e[p] = r.count[p] + 1
        /\ \A x \in Objects : x # p => e[x] = r.count[x]
    BY <1>1, <1>5, <2>1, MoreOne
  <2>3. QED
    BY <2>1, <2>2
<1>9. PICK g : g = More(e, Context) /\ refs'.count = g
  BY <1>7, <1>8
<1>10. /\ UseIn(held, queue)[b] = 0 /\ UseIn(held, queue)[p] > 0
       /\ p \in made /\ p \notin refs.freed
  BY <1>1, <1>2, UsedLives
<1>11. PICK L, u : L = made \ refs.freed /\ u = UseIn(held, queue)
  OBVIOUS
<1>12. Sound(refs.count, L, u, parent, mapping, Creating)
  BY <1>11, CountsNow
<1>13. PICK u2 \in [Objects -> Nat] : /\ u2 = UseIn(held', queue) /\ u2[b] = 1
                                     /\ \A x \in Objects : x # b => u2[x] = u[x]
  <2>1. held' \in [Objects -> Nat] /\ held'[b] = 1 /\ Differs(held', held, b)
    BY <1>1, <1>2 DEF Differs
  <2>2. /\ UseIn(held', queue) \in [Objects -> Nat] /\ UseIn(held', queue)[b] = 1
        /\ Differs(UseIn(held', queue), UseIn(held, queue), b)
    BY <1>1, <1>10, <2>1, UseHeldOne
  <2>3. QED
    BY <2>2, <1>11 DEF Differs
<1>14. parent[b] = Null /\ p # b
  BY <1>2, <1>10 DEF MadeOK
<1>15. Context \in L
  <2>1. OfContext(L) # {}
    BY <1>10, <1>11 DEF OfContext
  <2>2. QED
    BY <2>1, <1>12 DEF Sound, Reached
<1>16. /\ g \in [Objects -> Int] /\ g[b] = 1 /\ g[p] = refs.count[p] + 1
       /\ g[Context] = refs.count[Context] + 1
       /\ \A x \in Objects : x \notin {b, p, Context} => g[x] = refs.count[x]
  <2>1. /\ g \in [Objects -> Int] /\ g[Context] = e[Context] + 1
        /\ \A x \in Objects : x # Context => g[x] = e[x]
    <3>1. OneMore(More(e, Context), e, Context)
      BY <1>1, OneChanged
    <3>2. QED
      BY <3>1, <1>9 DEF OneMore
  <2>2. QED
    BY <1>1, <1>3, <1>5, <1>8, <1>14, <2>1
<1>17. BufferMade(refs.count, L, u, parent, b, p, g, u2)
  <2>1. b \notin L /\ u[b] = 0 /\ u[p] > 0
    BY <1>2, <1>10, <1>11
  <2>2. p \in Buffers \cup {Null} /\ p # Null /\ p # b /\ parent[p] = Null /\ parent[b] = Null
    BY <1>1, <1>2, <1>14
  <2>3. \A x \in Objects : x # b => u2[x] = u[x]
    BY <1>13
  <2>4. u2 \in [Objects -> Nat] /\ u2[b] = 1
    BY <1>13
  <2>5. g[b] = IF p = Null THEN NumDevices ELSE 1
    BY <2>2, <1>16
  <2>6. QED
    BY <2>1, <2>2, <2>3, <2>4, <2>5, <1>15, <1>16 DEF BufferMade
<1>18. Sound(g, L \cup {b}, u2, [parent EXCEPT ![b] = p], mapping, Creating)
  BY <1>12, <1>17, SoundCreateBuffer
<1>19. L \cup {b} = made' \ refs'.freed /\ refs'.freed \subseteq made'
  BY <1>1, <1>2, <1>7, <1>11
<1>20. QED
  BY <1>2, <1>7, <1>9, <1>13, <1>18, <1>19, CreatingSame, CountsDoneNext

LEMMA CountsRetain ==
  ASSUME TypeOK, CountsOK, NEW t \in Threads, NEW o \in Objects, Retain(t, o)
  PROVE  CountsDone'
<1>1. /\ refs \in Counts /\ refs.count \in [Objects -> Int] /\ refs.freed \subseteq made
      /\ held \in [Objects -> Nat] /\ queue \in Seq(Commands(Int))
  BY StateTyped
<1>2. /\ refs' = Retained(refs, <<o>>) /\ held' = [held EXCEPT ![o] = @ + 1]
      /\ made' = made /\ parent' = parent /\ mapping' = mapping /\ queue' = queue /\ call' = call
      /\ held[o] > 0
  BY <1>1 DEF Retain, mapVars, kernelVars
<1>3. /\ refs' \in Counts /\ refs'.freed = refs.freed /\ refs'.count = More(refs.count, o)
  BY <1>1, <1>2, RetainedOne
<1>4. UseIn(held', queue) = More(UseIn(held, queue), o)
  BY <1>1, <1>2, UseHeldMore
<1>5. UseIn(held, queue)[o] > 0
  BY <1>2, UsedLives
<1>6. Sound(refs'.count, made \ refs.freed, UseIn(held', queue), parent, mapping, Creating)
  BY <1>3, <1>4, <1>5, CountsNow, SoundRetain
<1>7. QED
  BY <1>1, <1>2, <1>3, <1>6, CreatingSame, CountsDoneNext

LEMMA CountsReleaseMemObject ==
  ASSUME TypeOK, CountsOK, NEW t \in Threads, NEW b \in Buffers, ReleaseMemObject(t, b)
  PROVE  CountsDone'
<1>1. /\ refs \in Counts /\ refs.count \in [Objects -> Int] /\ refs.freed \subseteq made
      /\ held \in [Objects -> Nat] /\ queue \in Seq(Commands(Int)) /\ b \in Objects
      /\ parent \in [Buffers -> Buffers \cup {Null}] /\ parent[b] \in Buffers \cup {Null}
  BY StateTyped, KindsDisjoint
<1>2. /\ refs' = MemReleased(refs, b) /\ held' = [held EXCEPT ![b] = @ - 1]
      /\ made' = made /\ parent' = parent /\ mapping' = mapping /\ queue' = queue /\ call' = call
      /\ held[b] > 0
  BY DEF ReleaseMemObject, kernelVars
<1>3. /\ refs' \in Counts /\ refs'.count = CountAfter(refs.count, parent, b)
      /\ refs'.freed = IF refs.count[b] > 1 THEN refs.freed ELSE refs.freed \cup {b}
  BY <1>1, <1>2, MemReleasedIs
<1>4. UseIn(held', queue) = Less(UseIn(held, queue), b) /\ UseIn(held, queue)[b] > 0
  BY <1>1, <1>2, UseHeldLess
<1>5. b \in made
  BY <1>1, <1>4, UsedLives
<1>6. LeftBy(refs.count, made \ refs.freed, b) = made' \ refs'.freed /\ refs'.freed \subseteq made'
  BY <1>1, <1>2, <1>3, <1>5 DEF LeftBy
<1>7. Sound(refs'.count, LeftBy(refs.count, made \ refs.freed, b), UseIn(held', queue), parent, mapping,
            Creating)
  BY <1>3, <1>4, CountsNow, SoundMemRelease
<1>8. QED
  BY <1>2, <1>3, <1>6, <1>7, CreatingSame, CountsDoneNext

LEMMA CountsReleaseContext ==
  ASSUME TypeOK, CountsOK, NEW t \in Threads, ReleaseContext(t)
  PROVE  CountsDone'
<1>1. /\ refs \in Counts /\ refs.count \in [Objects -> Int] /\ refs.freed \subseteq made
      /\ held \in [Objects -> Nat] /\ queue \in Seq(Commands(Int)) /\ Context \in Objects
  BY StateTyped, KindsDisjoint
<1>2. /\ held' = [held EXCEPT ![Context] = @ - 1] /\ held[Context] > 0
      /\ made' = made /\ parent' = parent /\ mapping' = mapping /\ queue' = queue /\ call' = call
  BY DEF ReleaseContext, mapVars, kernelVars
<1>3. PICK r : r = Dropped(refs, Context)
  OBVIOUS
<1>4. refs' = IF r.count[Context] = 0 THEN [r EXCEPT !.freed = @ \cup {Context}] ELSE r
  BY <1>3 DEF ReleaseContext
<1>5. r \in Counts /\ r.count = Less(refs.count, Context) /\ r.freed = refs.freed
  BY <1>1, <1>3, DroppedOne
<1>6. r.count[Context] = refs.count[Context] - 1
  <2>1. OneLess(Less(refs.count, Context), refs.count, Context)
    BY <1>1, OneChanged
  <2>2. QED
    BY <2>1, <1>5 DEF OneLess
<1>7. PICK f : f = [r EXCEPT !.freed = @ \cup {Context}]
  OBVIOUS
<1>8. f \in Counts /\ f.count = r.count /\ f.freed = refs.freed \cup {Context}
  BY <1>1, <1>5, <1>7, FreedMore
<1>9. refs' = IF r.count[Context] = 0 THEN f ELSE r
  BY <1>4, <1>7
<1>10. /\ refs' \in Counts /\ refs'.count = r.count
       /\ refs'.freed = IF r.count[Context] = 0 THEN refs.freed \cup {Context} ELSE refs.freed
  BY <1>5, <1>8, <1>9
<1>11. UseIn(held', queue) = Less(UseIn(held, queue), Context) /\ UseIn(held, queue)[Context] > 0
  BY <1>1, <1>2, UseHeldLess
<1>12. Context \in made
  BY <1>1, <1>11, UsedLives
<1>13. PICK L : L = made \ refs.freed
  OBVIOUS
<1>14. Sound(Less(refs.count, Context), IF refs.count[Context] - 1 = 0 THEN L \ {Context} ELSE L,
             Less(UseIn(held, queue), Context), parent, mapping, Creating)
  BY <1>11, <1>13, CountsNow, SoundReleaseContext
<1>15. /\ (IF refs.count[Context] - 1 = 0 THEN L \ {Context} ELSE L) = made' \ refs'.freed
       /\ refs'.freed \subseteq made'
  BY <1>1, <1>2, <1>6, <1>10, <1>12, <1>13
<1>16. Sound(refs'.count, made' \ refs'.freed, UseIn(held', queue'), parent', mapping', Creating)
  BY <1>2, <1>5, <1>10, <1>11, <1>14, <1>15
<1>17. QED
  BY <1>2, <1>10, <1>15, <1>16, CreatingSame, CountsDoneNext

LEMMA CountsCreateProgram ==
  ASSUME TypeOK, CountsOK, NEW t \in Threads, CreateProgram(t)
  PROVE  CountsDone'
<1>1. /\ refs \in Counts /\ refs.count \in [Objects -> Int] /\ refs.freed \subseteq made
      /\ held \in [Objects -> Nat] /\ queue \in Seq(Commands(Int)) /\ Context \in Objects
      /\ Program \in Objects /\ Program # Context
  BY StateTyped, KindsDisjoint
<1>2. /\ refs' = Retained([refs EXCEPT !.count[Program] = 1], <<Context>>)
      /\ held' = [held EXCEPT ![Program] = 1] /\ held[Context] > 0 /\ Program \notin made
      /\ made' = made \cup {Program}
      /\ parent' = parent /\ mapping' = mapping /\ queue' = queue /\ call' = call
  BY DEF CreateProgram, CanMake, mapVars, kernelVars
<1>3. PICK n \in Int : n = 1
  OBVIOUS
<1>4. PICK r : r = [refs EXCEPT !.count[Program] = n]
  OBVIOUS
<1>5. /\ r \in Counts /\ r.freed = refs.freed /\ r.count[Program] = n /\ r.count \in [Objects -> Int]
      /\ \A x \in Objects : x # Program => r.count[x] = refs.count[x]
  BY <1>1, <1>4, CountSet DEF Counts
<1>6. refs' = Retained(r, <<Context>>)
  BY <1>2, <1>3, <1>4
<1>7. PICK g : g = More(r.count, Context)
  OBVIOUS
<1>8. refs' \in Counts /\ refs'.freed = refs.freed /\ refs'.count = g
  BY <1>1, <1>5, <1>6, <1>7, RetainedOne
<1>9. /\ g \in [Objects -> Int] /\ g[Context] = r.count[Context] + 1
      /\ \A x \in Objects : x # Context => g[x] = r.count[x]
  BY <1>1, <1>5, <1>7, MoreOne
<1>10. PICK L, u : L = made \ refs.freed /\ u = UseIn(held, queue)
  OBVIOUS
<1>11. u[Program] = 0 /\ u[Context] > 0
  BY <1>1, <1>2, <1>10, UsedLives
<1>12. PICK u2 \in [Objects -> Nat] : /\ u2 = UseIn(held', queue) /\ u2[Program] = 1
                                      /\ \A x \in Objects : x # Program => u2[x] = u[x]
  <2>1. held' \in [Objects -> Nat] /\ held'[Program] = 1 /\ Differs(held', held, Program)
    BY <1>1, <1>2 DEF Differs
  <2>2. /\ UseIn(held', queue) \in [Objects -> Nat] /\ UseIn(held', queue)[Program] = 1
        /\ Differs(UseIn(held', queue), UseIn(held, queue), Program)
    BY <1>1, <1>10, <1>11, <2>1, UseHeldOne
  <2>3. QED
    BY <2>2, <1>10 DEF Differs
<1>13. ProgramMade(refs.count, L, u, g, u2)
  BY <1>1, <1>2, <1>3, <1>5, <1>9, <1>10, <1>11, <1>12 DEF ProgramMade
<1>14. Sound(g, L \cup {Program}, u2, parent, mapping, Creating)
  BY <1>10, <1>13, CountsNow, SoundCreateProgram
<1>15. L \cup {Program} = made' \ refs'.freed /\ refs'.freed \subseteq made'
  BY <1>1, <1>2, <1>8, <1>10
<1>16. QED
  BY <1>2, <1>8, <1>12, <1>14, <1>15, CreatingSame, CountsDoneNext

LEMMA CountsReleaseProgram ==
  ASSUME TypeOK, CountsOK, NEW t \in Threads, ReleaseProgram(t)
  PROVE  CountsDone'
<1>1. /\ refs \in Counts /\ refs.count \in [Objects -> Int] /\ refs.freed \subseteq made
      /\ held \in [Objects -> Nat] /\ queue \in Seq(Commands(Int)) /\ Program \in Objects
  BY StateTyped, KindsDisjoint
<1>2. /\ refs' = ProgramReleased(refs) /\ held' = [held EXCEPT ![Program] = @ - 1]
      /\ made' = made /\ parent' = parent /\ mapping' = mapping /\ queue' = queue /\ call' = call
      /\ held[Program] > 0
  BY <1>1 DEF ReleaseProgram, mapVars, kernelVars
<1>3. PICK r : r = ProgramReleased(refs)
  OBVIOUS
<1>4. /\ r \in Counts /\ r.count \in [Objects -> Int]
      /\ r.count[Program] = refs.count[Program] - 1
      /\ r.count[Context] = IF refs.count[Program] > 1 THEN refs.count[Context] ELSE refs.count[Context] - 1
      /\ \A x \in Objects : x \notin {Program, Context} => r.count[x] = refs.count[x]
      /\ r.freed = IF refs.count[Program] > 1 THEN refs.freed ELSE refs.freed \cup {Program}
  <2>1. r \in Counts
    BY <1>1, <1>3, ProgramReleasedIs
  <2>2. r.count \in [Objects -> Int]
    BY <2>1 DEF Counts
  <2>3. QED
    BY <1>1, <1>3, <2>1, <2>2, ProgramReleasedIs
<1>5. UseIn(held', queue) = Less(UseIn(held, queue), Program) /\ UseIn(held, queue)[Program] > 0
  BY <1>1, <1>2, UseHeldLess
<1>6. Program \in made /\ Program \notin refs.freed
  BY <1>1, <1>5, UsedLives
<1>7. PICK L, u, u2, L2 : /\ L = made \ refs.freed /\ u = UseIn(held, queue) /\ u2 = UseIn(held', queue)
                          /\ L2 = made \ r.freed
  OBVIOUS
<1>8. u \in [Objects -> Int] /\ held' \in [Objects -> Nat]
  <2>1. PICK n \in Nat : n = held[Program] - 1
    BY <1>1, <1>2
  <2>2. held' = [held EXCEPT ![Program] = n]
    BY <1>2, <2>1
  <2>3. QED
    BY <1>1, <1>7, <2>2, UseValues
<1>9. u2 \in [Objects -> Nat]
  BY <1>1, <1>7, <1>8, UseValues
<1>10. u2[Program] = u[Program] - 1 /\ \A x \in Objects : x # Program => u2[x] = u[x]
  <2>1. OneLess(Less(u, Program), u, Program)
    BY <1>1, <1>8, OneChanged
  <2>2. QED
    BY <2>1, <1>5, <1>7 DEF OneLess
<1>11. L2 = IF refs.count[Program] > 1 THEN L ELSE L \ {Program}
  BY <1>4, <1>7
<1>12. ProgramGivenBack(refs.count, L, u, Creating, {}, r.count, L2, u2)
  <2>1. L2 = (IF refs.count[Program] > 1 THEN L ELSE L \ {Program}) \ {}
    BY <1>11
  <2>2. Program \in L /\ u[Program] > 0
    BY <1>5, <1>6, <1>7
  <2>3. QED
    BY <1>4, <1>9, <1>10, <2>1, <2>2 DEF ProgramGivenBack
<1>13. Sound(r.count, L2, u2, parent, mapping, Creating)
  BY <1>7, <1>12, CountsNow, SoundReleaseProgram
<1>14. r.freed \subseteq made
  BY <1>1, <1>4, <1>6
<1>15. QED
  BY <1>2, <1>3, <1>4, <1>7, <1>13, <1>14, CreatingSame, CountsDoneNext

\* Uses of a longer queue, and of a shorter one.
LEMMA UseAppended ==
  ASSUME NEW h \in [Objects -> Nat], NEW q \in Seq(Commands(Int)), NEW c \in Commands(Int)
  PROVE  /\ UseIn(h, Append(q, c)) \in [Objects -> Int]
         /\ \A x \in Objects : UseIn(h, Append(q, c))[x] = UseIn(h, q)[x] + Names(c, x)
<1>1. PICK r : r = Append(q, c)
  OBVIOUS
<1>2. r \in Seq(Commands(Int))
  BY <1>1, AppendProperties
<1>3. UseIn(h, r) \in [Objects -> Int] /\ \A x \in Objects : UseIn(h, r)[x] = h[x] + PendingIn(r, x)
  BY <1>2, UseValues
<1>4. \A x \in Objects : PendingIn(r, x) = PendingIn(q, x) + Names(c, x)
  BY <1>1, PendingAppended
<1>5. \A x \in Objects : /\ UseIn(h, q)[x] = h[x] + PendingIn(q, x)
                         /\ h[x] \in Nat /\ PendingIn(q, x) \in Nat
  BY UseValues
<1>6. \A x \in Objects : Names(c, x) \in Nat
  BY DEF Names, One
<1>7. QED
  BY <1>1, <1>3, <1>4, <1>5, <1>6

LEMMA UseTaken ==
  ASSUME NEW h \in [Objects -> Nat], NEW q \in Seq(Commands(Int)), q # <<>>
  PROVE  /\ UseIn(h, Tail(q)) \in [Objects -> Nat]
         /\ \A x \in Objects : /\ UseIn(h, q)[x] = UseIn(h, Tail(q))[x] + Names(q[1], x)
                               /\ UseIn(h, Tail(q))[x] \in Nat /\ UseIn(h, q)[x] \in Nat
<1>1. PICK r : r = Tail(q)
  OBVIOUS
<1>2. r \in Seq(Commands(Int))
  BY <1>1, TailParts
<1>3. /\ UseIn(h, r) \in [Objects -> Nat]
      /\ \A x \in Objects : UseIn(h, r)[x] = h[x] + PendingIn(r, x) /\ PendingIn(r, x) \in Nat
  BY <1>2, UseValues
<1>4. \A x \in Objects : PendingIn(q, x) = PendingIn(r, x) + Names(q[1], x)
  BY <1>1, PendingTaken
<1>5. \A x \in Objects : /\ UseIn(h, q)[x] = h[x] + PendingIn(q, x)
                         /\ h[x] \in Nat /\ PendingIn(q, x) \in Nat
  BY UseValues
<1>6. \A x \in Objects : Names(q[1], x) \in Nat
  BY DEF Names, One
<1>7. QED
  BY <1>1, <1>3, <1>4, <1>5, <1>6

\* A command that names no object, one or two.
LEMMA UseNamesNone ==
  ASSUME NEW h \in [Objects -> Nat], NEW q \in Seq(Commands(Int)), NEW c \in Commands(Int),
         c.kind # "use"
  PROVE  UseIn(h, Append(q, c)) = UseIn(h, q)
<1>1. PICK u \in [Objects -> Int], v \in [Objects -> Int] :
        /\ u = UseIn(h, q) /\ v = UseIn(h, Append(q, c))
        /\ \A x \in Objects : v[x] = u[x] + Names(c, x)
  BY UseValues, UseAppended
<1>2. \A x \in Objects : Names(c, x) = 0
  BY NamesAre
<1>3. \A x \in Objects : v[x] = u[x]
  BY <1>1, <1>2
<1>4. v = u
  BY <1>3
<1>5. QED
  BY <1>1, <1>4

LEMMA UseNamesOne ==
  ASSUME NEW h \in [Objects -> Nat], NEW q \in Seq(Commands(Int)), NEW c \in Commands(Int),
         c.kind = "use", NEW o \in Buffers, c.buffers = <<o>>, c.kernel = Null
  PROVE  UseIn(h, Append(q, c)) = More(UseIn(h, q), o)
<1>1. PICK u \in [Objects -> Int], v \in [Objects -> Int] :
        /\ u = UseIn(h, q) /\ v = UseIn(h, Append(q, c))
        /\ \A x \in Objects : v[x] = u[x] + Names(c, x)
  BY UseValues, UseAppended
<1>2. PICK w \in [Objects -> Int] : w = More(u, o) /\ OneMore(w, u, o)
  <2>1. o \in Objects
    BY KindsDisjoint
  <2>2. OneMore(More(u, o), u, o)
    BY <2>1, OneChanged
  <2>3. QED
    BY <2>2 DEF OneMore
<1>3. ASSUME NEW x \in Objects PROVE v[x] = w[x]
  <2>1. x # Null
    BY ObjectsAssumption
  <2>2. c.buffers[1] = o /\ Len(c.buffers) = 1
    OBVIOUS
  <2>3. Names(c, x) = One(c.buffers[1] = x) + One(Len(c.buffers) = 2 /\ c.buffers[2] = x)
                        + One(c.kernel = x)
    BY NamesAre
  <2>4. Names(c, x) = IF o = x THEN 1 ELSE 0
    BY <2>1, <2>2, <2>3 DEF One
  <2>5. w[x] = IF o = x THEN u[x] + 1 ELSE u[x]
    BY <1>2 DEF OneMore
  <2>6. QED
    BY <2>4, <2>5, <1>1
<1>4. v = w
  BY <1>3
<1>5. QED
  BY <1>1, <1>2, <1>4

LEMMA UseNamesTwo ==
  ASSUME NEW h \in [Objects -> Nat], NEW q \in Seq(Commands(Int)), NEW c \in Commands(Int),
         c.kind = "use", NEW o \in Buffers, NEW p \in Objects,
         \/ c.buffers = <<o, p>> /\ c.kernel = Null
         \/ c.buffers = <<o>> /\ c.kernel = p
  PROVE  UseIn(h, Append(q, c)) = More(More(UseIn(h, q), o), p)
<1>1. PICK u \in [Objects -> Int], v \in [Objects -> Int] :
        /\ u = UseIn(h, q) /\ v = UseIn(h, Append(q, c))
        /\ \A x \in Objects : v[x] = u[x] + Names(c, x)
  BY UseValues, UseAppended
<1>2. PICK w \in [Objects -> Int] : w = More(u, o) /\ OneMore(w, u, o)
  <2>1. o \in Objects
    BY KindsDisjoint
  <2>2. OneMore(More(u, o), u, o)
    BY <2>1, OneChanged
  <2>3. QED
    BY <2>2 DEF OneMore
<1>3. PICK z \in [Objects -> Int] : z = More(w, p) /\ OneMore(z, w, p)
  <2>1. OneMore(More(w, p), w, p)
    BY OneChanged
  <2>2. QED
    BY <2>1 DEF OneMore
<1>4. ASSUME NEW x \in Objects PROVE v[x] = z[x]
  <2>1. x # Null
    BY ObjectsAssumption
  <2>2. Names(c, x) = One(o = x) + One(p = x)
    <3>1. Names(c, x) = One(c.buffers[1] = x) + One(Len(c.buffers) = 2 /\ c.buffers[2] = x)
                          + One(c.kernel = x)
      BY NamesAre
    <3>2. CASE c.buffers = <<o, p>> /\ c.kernel = Null
      BY <2>1, <3>1, <3>2 DEF One
    <3>3. CASE c.buffers = <<o>> /\ c.kernel = p
      BY <3>1, <3>3 DEF One
    <3>4. QED
      BY <3>2, <3>3
  <2>3. w[x] = u[x] + One(o = x) /\ z[x] = w[x] + One(p = x) /\ u[x] \in Int
    <3>1. w[x] = IF o = x THEN u[x] + 1 ELSE u[x]
      BY <1>2 DEF OneMore
    <3>2. z[x] = IF p = x THEN w[x] + 1 ELSE w[x]
      BY <1>3 DEF OneMore
    <3>3. u[x] \in Int /\ w[x] \in Int
      BY <1>1
    <3>4. QED
      BY <3>1, <3>2, <3>3 DEF One
  <2>4. One(o = x) \in Int /\ One(p = x) \in Int
    BY DEF One
  <2>5. QED
    BY <2>2, <2>3, <2>4, <1>1
<1>5. v = z
  BY <1>4
<1>6. QED
  BY <1>1, <1>2, <1>3, <1>5

\* The commands that the client enqueues.
UseCommand(bs, k) == [kind |-> "use", buffers |-> bs, kernel |-> k, map |-> 0]
MapCommand(kind, b, m) == [kind |-> kind, buffers |-> <<b>>, kernel |-> Null, map |-> m]

LEMMA CommandsMade ==
  ASSUME NEW D
  PROVE  /\ \A b \in Buffers : UseCommand(<<b>>, Null) \in Commands(D)
         /\ \A b, p \in Buffers : UseCommand(<<b, p>>, Null) \in Commands(D)
         /\ \A b \in Buffers, k \in Kernels : UseCommand(<<b>>, k) \in Commands(D)
         /\ \A b \in Buffers, m \in D : /\ MapCommand("map", b, m) \in Commands(D)
                                        /\ MapCommand("unmap", b, m) \in Commands(D)
BY DEF UseCommand, MapCommand, Commands

LEMMA CountsEnqueueOne ==
  ASSUME TypeOK, CountsOK, NEW t \in Threads, NEW b \in Buffers, EnqueueUse(t, <<b>>, Null)
  PROVE  CountsDone'
<1>1. /\ refs \in Counts /\ refs.freed \subseteq made
      /\ held \in [Objects -> Nat] /\ queue \in Seq(Commands(Int)) /\ b \in Objects
  BY StateTyped, KindsDisjoint
<1>2. PICK c \in Commands(Int) : c = UseCommand(<<b>>, Null)
  BY CommandsMade
<1>3. /\ refs' = Retained(refs, <<b>>) /\ queue' = Append(queue, c)
      /\ made' = made /\ held' = held /\ parent' = parent /\ mapping' = mapping /\ call' = call
      /\ held[b] > 0
  BY <1>2 DEF EnqueueUse, CanEnqueue, Uses, UseCommand, mapVars, kernelVars
<1>4. /\ refs' \in Counts /\ refs'.freed = refs.freed /\ refs'.count = More(refs.count, b)
  BY <1>1, <1>3, RetainedOne
<1>5. UseIn(held, Append(queue, c)) = More(UseIn(held, queue), b)
  BY <1>1, <1>2, UseNamesOne DEF UseCommand
<1>6. UseIn(held, queue)[b] > 0
  BY <1>1, <1>3, UsedLives
<1>7. Sound(refs'.count, made \ refs.freed, UseIn(held, Append(queue, c)), parent, mapping, Creating)
  BY <1>1, <1>4, <1>5, <1>6, CountsNow, SoundRetain
<1>8. QED
  BY <1>1, <1>3, <1>4, <1>7, CreatingSame, CountsDoneNext

LEMMA CountsEnqueueTwo ==
  ASSUME TypeOK, CountsOK, NEW t \in Threads, NEW b \in Buffers, NEW p \in Objects, NEW c \in Commands(Int),
         /\ refs' = Retained(refs, <<b, p>>) /\ queue' = Append(queue, c)
         /\ made' = made /\ held' = held /\ parent' = parent /\ mapping' = mapping /\ call' = call
         /\ held[b] > 0 /\ held[p] > 0
         /\ c.kind = "use" /\ \/ c.buffers = <<b, p>> /\ c.kernel = Null
                              \/ c.buffers = <<b>> /\ c.kernel = p
  PROVE  CountsDone'
<1>1. /\ refs \in Counts /\ refs.freed \subseteq made
      /\ held \in [Objects -> Nat] /\ queue \in Seq(Commands(Int)) /\ b \in Objects
  BY StateTyped, KindsDisjoint
<1>2. /\ refs' \in Counts /\ refs'.freed = refs.freed
      /\ refs'.count = More(More(refs.count, b), p)
  BY <1>1, RetainedTwo
<1>3. UseIn(held, Append(queue, c)) = More(More(UseIn(held, queue), b), p)
  BY <1>1, UseNamesTwo
<1>4. PICK u \in [Objects -> Int] : u = UseIn(held, queue) /\ u[b] > 0 /\ u[p] > 0
  BY <1>1, UsedLives, UseValues
<1>5. Sound(More(refs.count, b), made \ refs.freed, More(u, b), parent, mapping, Creating)
  BY <1>1, <1>4, CountsNow, SoundRetain
<1>6. More(u, b)[p] > 0
  <2>1. OneMore(More(u, b), u, b)
    BY <1>1, OneChanged
  <2>2. u[b] \in Int /\ u[p] \in Int
    BY <1>1
  <2>3. QED
    BY <2>1, <2>2, <1>4 DEF OneMore
<1>7. Sound(refs'.count, made \ refs.freed, UseIn(held, Append(queue, c)), parent, mapping, Creating)
  BY <1>2, <1>3, <1>4, <1>5, <1>6, SoundRetain
<1>8. QED
  BY <1>1, <1>2, <1>7, CreatingSame, CountsDoneNext

LEMMA AppendedPair ==
  ASSUME NEW b \in Objects, NEW k \in Objects
  PROVE  Append(<<b>>, k) = <<b, k>>
<1>1. PICK s : s = Append(<<b>>, k)
  OBVIOUS
<1>2. <<b>> \in Seq(Objects) /\ <<b, k>> \in Seq(Objects)
  OBVIOUS
<1>3. s \in Seq(Objects) /\ Len(s) = 2 /\ s[1] = b /\ s[2] = k
  BY <1>1
<1>4. \A i \in 1..Len(s) : s[i] = <<b, k>>[i]
  BY <1>3
<1>5. s = <<b, k>>
  BY <1>2, <1>3, <1>4, SeqEqual
<1>6. QED
  BY <1>1, <1>5

LEMMA CountsEnqueueUse ==
  ASSUME TypeOK, CountsOK, NEW t \in Threads,
         \/ \E b \in Buffers : EnqueueUse(t, <<b>>, Null)
         \/ \E b, p \in Buffers : EnqueueUse(t, <<b, p>>, Null)
         \/ \E b \in Buffers, k \in Kernels : EnqueueUse(t, <<b>>, k)
  PROVE  CountsDone'
<1>1. CASE \E b \in Buffers : EnqueueUse(t, <<b>>, Null)
  BY <1>1, CountsEnqueueOne
<1>2. ASSUME NEW b \in Buffers, NEW p \in Buffers, EnqueueUse(t, <<b, p>>, Null) PROVE CountsDone'
  <2>1. PICK c \in Commands(Int) : c = UseCommand(<<b, p>>, Null)
    BY CommandsMade
  <2>2. /\ refs' = Retained(refs, <<b, p>>) /\ queue' = Append(queue, c)
        /\ made' = made /\ held' = held /\ parent' = parent /\ mapping' = mapping /\ call' = call
        /\ held[b] > 0 /\ held[p] > 0
    <3>1. held[<<b, p>>[1]] > 0 /\ held[<<b, p>>[2]] > 0
      BY <1>2 DEF EnqueueUse, CanEnqueue
    <3>2. QED
      BY <1>2, <2>1, <3>1 DEF EnqueueUse, Uses, UseCommand, mapVars, kernelVars
  <2>3. c.kind = "use" /\ c.buffers = <<b, p>> /\ c.kernel = Null /\ p \in Objects
    BY <2>1, KindsDisjoint DEF UseCommand
  <2>4. QED
    BY <2>2, <2>3, CountsEnqueueTwo
<1>3. ASSUME NEW b \in Buffers, NEW k \in Kernels, EnqueueUse(t, <<b>>, k) PROVE CountsDone'
  <2>1. PICK c \in Commands(Int) : c = UseCommand(<<b>>, k)
    BY CommandsMade
  <2>2. k # Null /\ k \in Objects /\ b \in Objects
    BY KindsDisjoint
  <2>3. /\ refs' = Retained(refs, Append(<<b>>, k)) /\ queue' = Append(queue, c)
        /\ made' = made /\ held' = held /\ parent' = parent /\ mapping' = mapping /\ call' = call
        /\ held[b] > 0 /\ held[k] > 0
    BY <1>3, <2>1, <2>2 DEF EnqueueUse, CanEnqueue, Uses, UseCommand, mapVars, kernelVars
  <2>4. Append(<<b>>, k) = <<b, k>>
    BY <2>2, AppendedPair
  <2>5. c.kind = "use" /\ c.buffers = <<b>> /\ c.kernel = k
    BY <2>1 DEF UseCommand
  <2>6. QED
    BY <2>2, <2>3, <2>4, <2>5, CountsEnqueueTwo
<1>4. QED
  BY <1>1, <1>2, <1>3

LEMMA CountsMap ==
  ASSUME TypeOK, CountsOK, NEW t \in Threads, NEW b \in Buffers, NEW a,
         \/ a \in Addresses /\ MapBuffer(t, b, a)
         \/ a = Null /\ EnqueueFails(t, b)
  PROVE  CountsDone'
<1>1. /\ refs \in Counts /\ refs.freed \subseteq made /\ a \in Addresses \cup {Null}
      /\ held \in [Objects -> Nat] /\ queue \in Seq(Commands(Int)) /\ b \in Objects
      /\ Len(mapping) + 1 \in Int
  BY StateTyped, KindsDisjoint, MappingPlaces
<1>2. /\ refs' = Retained(refs, <<b>>) /\ mapping' = Append(mapping, [of |-> b, at |-> a])
      /\ made' = made /\ held' = held /\ parent' = parent /\ call' = call
      /\ held[b] > 0
  BY DEF MapBuffer, EnqueueFails, CanEnqueue, MapRetains, kernelVars
<1>3. UseIn(held, queue') = UseIn(held, queue)
  <2>1. CASE EnqueueFails(t, b)
    BY <2>1 DEF EnqueueFails
  <2>2. CASE MapBuffer(t, b, a)
    <3>1. PICK c \in Commands(Int) : c = MapCommand("map", b, Len(mapping) + 1)
      BY <1>1, CommandsMade
    <3>2. queue' = Append(queue, c) /\ c.kind # "use"
      BY <2>2, <3>1 DEF MapBuffer, MapCommand
    <3>3. QED
      BY <1>1, <3>2, UseNamesNone
  <2>3. QED
    BY <2>1, <2>2
<1>4. /\ refs' \in Counts /\ refs'.freed = refs.freed /\ refs'.count = More(refs.count, b)
  BY <1>1, <1>2, RetainedOne
<1>5. UseIn(held, queue)[b] > 0
  BY <1>1, <1>2, UsedLives
<1>6. Sound(refs'.count, made \ refs.freed, UseIn(held, queue), parent, mapping', Creating)
  BY <1>1, <1>2, <1>4, <1>5, CountsNow, SoundMap
<1>7. QED
  BY <1>1, <1>2, <1>3, <1>4, <1>6, CreatingSame, CountsDoneNext

LEMMA CountsUnmap ==
  ASSUME TypeOK, CountsOK, NEW t \in Threads, NEW b \in Buffers, NEW a \in Addresses,
         UnmapMemObject(t, b, a), NEW m \in Int,
         queue' = Append(queue, MapCommand("unmap", b, m))
  PROVE  CountsDone'
<1>1. /\ refs \in Counts /\ refs.freed \subseteq made
      /\ held \in [Objects -> Nat] /\ queue \in Seq(Commands(Int))
  BY StateTyped
<1>2. PICK c \in Commands(Int) : c = MapCommand("unmap", b, m)
  BY CommandsMade
<1>3. /\ queue' = Append(queue, c) /\ c.kind # "use"
      /\ refs' = refs /\ made' = made /\ held' = held /\ parent' = parent /\ mapping' = mapping
      /\ call' = call
  BY <1>2 DEF UnmapMemObject, MapCommand, kernelVars
<1>4. UseIn(held', queue') = UseIn(held, queue)
  BY <1>1, <1>3, UseNamesNone
<1>5. QED
  BY <1>1, <1>3, <1>4, CountsNow, CreatingSame, CountsDoneNext

\* Calls on kernels.
LEMMA CreatingNow ==
  ASSUME TypeOK, NEW t \in Threads, NEW v, call' = [call EXCEPT ![t] = v]
  PROVE  /\ v.at = "create" /\ call[t].at # "create" => Creating' = Creating \cup {v.kernel}
         /\ v.at # "create" /\ call[t].at # "create" => Creating' = Creating
<1>1. call \in [Threads -> CallStates]
  BY TypeParts
<1>2. call'[t] = v /\ \A s \in Threads : s # t => call'[s] = call[s]
  BY <1>1
<1>3. Creating' = {call'[s].kernel : s \in {u \in Threads : call'[u].at = "create"}}
  BY DEF Creating
<1>4. \A k : k \in Creating <=> \E s \in Threads : call[s].at = "create" /\ call[s].kernel = k
  BY DEF Creating
<1>5. \A k : k \in Creating' <=> \E s \in Threads : call'[s].at = "create" /\ call'[s].kernel = k
  BY <1>3
<1>6. ASSUME call[t].at # "create", v.at = "create" PROVE Creating' = Creating \cup {v.kernel}
  <2>1. \A k : k \in Creating' <=> k \in Creating \cup {v.kernel}
    BY <1>2, <1>4, <1>5, <1>6
  <2>2. QED
    BY <2>1
<1>7. ASSUME call[t].at # "create", v.at # "create" PROVE Creating' = Creating
  <2>1. \A k : k \in Creating' <=> k \in Creating
    BY <1>2, <1>4, <1>5, <1>7
  <2>2. QED
    BY <2>1
<1>8. QED
  BY <1>6, <1>7

\* The kernel that is linked is no longer being created: no other thread creates it.
LEMMA CreatingLess ==
  ASSUME TypeOK, CallsOK, NEW t \in Threads, call[t].at = "create", NEW v,
         call' = [call EXCEPT ![t] = v], v.at # "create"
  PROVE  Creating' = Creating \ {call[t].kernel} /\ call[t].kernel \in Creating
<1>1. call \in [Threads -> CallStates]
  BY TypeParts
<1>2. call'[t] = v /\ \A s \in Threads : s # t => call'[s] = call[s]
  BY <1>1
<1>3. Creating' = {call'[s].kernel : s \in {u \in Threads : call'[u].at = "create"}}
  BY DEF Creating
<1>4. \A k : k \in Creating <=> \E s \in Threads : call[s].at = "create" /\ call[s].kernel = k
  BY DEF Creating
<1>5. \A k : k \in Creating' <=> \E s \in Threads : call'[s].at = "create" /\ call'[s].kernel = k
  BY <1>3
<1>6. \A s \in Threads : s # t /\ call[s].at = "create" => call[s].kernel # call[t].kernel
  BY DEF CallsOK, Calling
<1>7. QED
  BY <1>2, <1>4, <1>5, <1>6

LEMMA CallOfState ==
  ASSUME TypeOK, NEW t \in Threads
  PROVE  call[t] \in CallStates /\ call[t].kernel \in Kernels \cup {Null}
         /\ call[t].link \in Kernels \cup {Null} /\ NoCall \in CallStates
BY TypeParts DEF CallStates, NoCall

LEMMA CountsCreateKernel ==
  ASSUME TypeOK, CountsOK, NEW t \in Threads, NEW k \in Kernels, CreateKernel(t, k)
  PROVE  CountsDone'
<1>1. /\ refs \in Counts /\ refs.freed \subseteq made /\ k \in Objects /\ NumDevices \in Int
      /\ held \in [Objects -> Nat] /\ queue \in Seq(Commands(Int))
  BY StateTyped, KindsDisjoint
<1>2. /\ refs' = [refs EXCEPT !.count[k] = NumDevices] /\ made' = made \cup {k} /\ k \notin made
      /\ held' = held /\ parent' = parent /\ mapping' = mapping /\ queue' = queue
      /\ call[t].at = "idle"
  BY DEF CreateKernel, CanMake, Idle, mapVars
<1>3. PICK v : v = [at |-> "create", kernel |-> k, link |-> head]
  OBVIOUS
<1>4. v \in CallStates /\ v.at = "create" /\ v.kernel = k /\ call' = [call EXCEPT ![t] = v]
  BY <1>3, TypeParts DEF CreateKernel, Enter, CallStates
<1>5. Creating' = Creating \cup {k}
  BY <1>2, <1>4, CreatingNow
<1>6. /\ refs' \in Counts /\ refs'.freed = refs.freed /\ refs'.count[k] = NumDevices
      /\ refs'.count \in [Objects -> Int]
      /\ \A x \in Objects : x # k => refs'.count[x] = refs.count[x]
  BY <1>1, <1>2, CountSet DEF Counts
<1>7. PICK c2, L : /\ c2 = refs'.count /\ L = made \ refs.freed /\ c2 \in [Objects -> Int]
                   /\ c2[k] = NumDevices /\ \A x \in Objects : x # k => c2[x] = refs.count[x]
  BY <1>6
<1>8. Sound(c2, L \cup {k}, UseIn(held, queue), parent, mapping, Creating \cup {k})
  <2>1. Sound(refs.count, L, UseIn(held, queue), parent, mapping, Creating) /\ k \notin L
    BY <1>2, <1>7, CountsNow
  <2>2. QED
    BY <2>1, <1>7, SoundCreateKernel
<1>9. L \cup {k} = made' \ refs'.freed /\ refs'.freed \subseteq made'
  BY <1>1, <1>2, <1>6, <1>7
<1>10. QED
  BY <1>2, <1>5, <1>6, <1>7, <1>8, <1>9, CountsDoneNext

LEMMA CountsLinkOthers ==
  ASSUME TypeOK, CountsOK, CallsOK, NEW t \in Threads, LinkOthers(t)
  PROVE  CountsDone'
<1>1. /\ refs \in Counts /\ refs.freed \subseteq made /\ Program \in Objects
      /\ held \in [Objects -> Nat] /\ queue \in Seq(Commands(Int))
  BY StateTyped, KindsDisjoint
<1>2. PICK k : k = call[t].kernel
  OBVIOUS
<1>3. /\ refs' = Retained(refs, <<Program>>) /\ held' = [held EXCEPT ![k] = 1]
      /\ made' = made /\ parent' = parent /\ mapping' = mapping /\ queue' = queue
      /\ call[t].at = "create" /\ call' = [call EXCEPT ![t] = NoCall]
  BY <1>2 DEF LinkOthers, At, Leave, mapVars
<1>4. Creating' = Creating \ {k} /\ k \in Creating
  <2>1. PICK v : v = NoCall
    OBVIOUS
  <2>2. v.at # "create" /\ call' = [call EXCEPT ![t] = v]
    BY <1>3, <2>1 DEF NoCall
  <2>3. QED
    BY <1>2, <1>3, <2>2, CreatingLess
<1>5. /\ k \in Kernels /\ k \in made \ refs.freed /\ held[k] = 0 /\ PendingIn(queue, k) = 0
      /\ held[Program] > 0 /\ k \in Objects /\ k # Program
  BY <1>2, <1>3, <1>4, KindsDisjoint DEF CallsOK, Calling, Unused, Alive
<1>6. PICK L, u : L = made \ refs.freed /\ u = UseIn(held, queue)
  OBVIOUS
<1>7. u[k] = 0 /\ u[Program] > 0
  BY <1>1, <1>5, <1>6, UsedLives
<1>8. PICK u2 \in [Objects -> Nat] : /\ u2 = UseIn(held', queue) /\ u2[k] = 1
                                     /\ \A x \in Objects : x # k => u2[x] = u[x]
  <2>1. held' \in [Objects -> Nat] /\ held'[k] = 1 /\ Differs(held', held, k)
    BY <1>1, <1>3, <1>5 DEF Differs
  <2>2. /\ UseIn(held', queue) \in [Objects -> Nat] /\ UseIn(held', queue)[k] = 1
        /\ Differs(UseIn(held', queue), UseIn(held, queue), k)
    BY <1>1, <1>5, <1>6, <1>7, <2>1, UseHeldOne
  <2>3. QED
    BY <2>2, <1>6 DEF Differs
<1>9. PICK g : g = More(refs.count, Program)
  OBVIOUS
<1>10. refs' \in Counts /\ refs'.freed = refs.freed /\ refs'.count = g
  BY <1>1, <1>3, <1>9, RetainedOne
<1>11. OneMore(g, refs.count, Program)
  BY <1>1, <1>9, OneChanged, StateTyped
<1>12. KernelLinked(refs.count, L, u, Creating, k, g, u2)
  BY <1>4, <1>5, <1>6, <1>7, <1>8, <1>11 DEF KernelLinked, OneMore
<1>13. Sound(g, L, u2, parent, mapping, Creating \ {k})
  BY <1>5, <1>6, <1>12, CountsNow, SoundLinkKernel
<1>14. QED
  BY <1>1, <1>3, <1>4, <1>6, <1>8, <1>10, <1>13, CountsDoneNext

LEMMA CountsReleaseKernel ==
  ASSUME TypeOK, CountsOK, NEW t \in Threads, NEW k \in Kernels, ReleaseKernel(t, k)
  PROVE  CountsDone'
<1>1. /\ refs \in Counts /\ refs.freed \subseteq made /\ k \in Objects
      /\ held \in [Objects -> Nat] /\ queue \in Seq(Commands(Int))
  BY StateTyped, KindsDisjoint
<1>2. /\ refs' = Dropped(refs, k) /\ held' = [held EXCEPT ![k] = @ - 1] /\ held[k] > 0
      /\ made' = made /\ parent' = parent /\ mapping' = mapping /\ queue' = queue
      /\ call[t].at = "idle"
  BY DEF ReleaseKernel, Idle, mapVars
<1>3. Creating' = Creating
  <2>1. CASE call' = call
    BY <2>1, CreatingSame
  <2>2. CASE Enter(t, "walk", k, Null)
    <3>1. PICK v : v = [at |-> "walk", kernel |-> k, link |-> Null]
      OBVIOUS
    <3>2. v \in CallStates /\ v.at = "walk" /\ call' = [call EXCEPT ![t] = v]
      BY <2>2, <3>1 DEF Enter, CallStates
    <3>3. QED
      BY <1>2, <3>2, CreatingNow
  <2>3. QED
    BY <2>1, <2>2 DEF ReleaseKernel
<1>4. refs' \in Counts /\ refs'.freed = refs.freed /\ refs'.count = Less(refs.count, k)
  BY <1>1, <1>2, DroppedOne
<1>5. UseIn(held', queue) = Less(UseIn(held, queue), k) /\ UseIn(held, queue)[k] > 0
  BY <1>1, <1>2, UseHeldLess
<1>6. Sound(refs'.count, made \ refs.freed, UseIn(held', queue), parent, mapping, Creating)
  BY <1>4, <1>5, CountsNow, SoundDropKernel
<1>7. QED
  BY <1>1, <1>2, <1>3, <1>4, <1>6, CountsDoneNext

LEMMA CountsUnchanged ==
  ASSUME TypeOK, CountsOK,
         refs' = refs /\ made' = made /\ held' = held /\ parent' = parent /\ mapping' = mapping,
         UseIn(held, queue') = UseIn(held, queue), Creating' = Creating
  PROVE  CountsDone'
BY CountsNow, CountsDoneNext, StateTyped

LEMMA CountsWalk ==
  ASSUME TypeOK, CountsOK, NEW t \in Threads, Walk(t)
  PROVE  CountsDone'
<1>1. /\ refs' = refs /\ made' = made /\ held' = held /\ parent' = parent /\ mapping' = mapping
      /\ queue' = queue /\ call[t].at = "walk"
      /\ \/ call' = call
         \/ \E s \in {"walk", "unlink"} : \E l :
              call' = [call EXCEPT ![t] = [at |-> s, kernel |-> call[t].kernel, link |-> l]]
         \/ call' = [call EXCEPT ![t] = NoCall]
  BY DEF Walk, At, Corrupts, Enter, Leave, mapVars, kernelVars
<1>2. Creating' = Creating
  <2>1. ASSUME NEW v, call' = [call EXCEPT ![t] = v], v.at # "create" PROVE Creating' = Creating
    BY <1>1, <2>1, CreatingNow
  <2>2. QED
    BY <1>1, <2>1, CreatingSame DEF NoCall
<1>3. QED
  BY <1>1, <1>2, CountsUnchanged

\* The step that unlinks a kernel.  It either finds something freed, or frees
\* the kernel and gives back a reference of the program.
LEMMA CountsUnlink ==
  ASSUME TypeOK, CountsOK, CallsOK, NEW t \in Threads, Unlink(t)
  PROVE  CountsDone' /\ (refs' = refs \/ refs'.freed \cap Kernels = (refs.freed \cap Kernels) \cup {call[t].kernel})
         /\ refs.freed \subseteq refs'.freed
         /\ \A k \in Kernels : refs'.count[k] = refs.count[k]
<1>1. CASE Corrupts
  <2>1. /\ refs' = refs /\ made' = made /\ held' = held /\ parent' = parent /\ mapping' = mapping
        /\ queue' = queue /\ call' = call
    BY <1>1 DEF Corrupts, mapVars, kernelVars
  <2>2. CountsDone'
    BY <2>1, CountsUnchanged, CreatingSame
  <2>3. QED
    BY <2>1, <2>2
<1>2. CASE ~Corrupts
  <2>1. PICK k : k = call[t].kernel
    OBVIOUS
  <2>2. /\ refs' = FreeKernel(refs, k) /\ Leave(t) /\ call[t].at = "unlink"
        /\ made' = made /\ held' = held /\ parent' = parent /\ mapping' = mapping /\ queue' = queue
    BY <1>2, <2>1 DEF Unlink, At, mapVars
  <2>3. /\ refs \in Counts /\ refs.freed \subseteq made
        /\ held \in [Objects -> Nat] /\ queue \in Seq(Commands(Int))
        /\ Context \in Objects /\ Program \in Objects
    BY StateTyped, KindsDisjoint
  <2>4. k \in Kernels /\ k \in made \ refs.freed /\ refs.count[k] = 0 /\ k \in Objects
        /\ k # Program /\ k # Context /\ Program \notin Kernels /\ Context \notin Kernels
        /\ \A x \in Kernels : x \in Objects
    BY <2>1, <2>2, KindsDisjoint DEF CallsOK, Calling, Alive
  <2>5. Creating' = Creating
    <3>1. PICK v : v = NoCall
      OBVIOUS
    <3>2. v.at # "create" /\ call' = [call EXCEPT ![t] = v] /\ call[t].at # "create"
      BY <2>2, <3>1 DEF NoCall, Leave
    <3>3. QED
      BY <3>2, CreatingNow
  <2>6. PICK r : r = ProgramReleased(refs)
    OBVIOUS
  <2>7. /\ r \in Counts /\ r.count \in [Objects -> Int]
        /\ r.count[Program] = refs.count[Program] - 1
        /\ r.count[Context] = IF refs.count[Program] > 1 THEN refs.count[Context] ELSE refs.count[Context] - 1
        /\ \A x \in Objects : x \notin {Program, Context} => r.count[x] = refs.count[x]
        /\ r.freed = IF refs.count[Program] > 1 THEN refs.freed ELSE refs.freed \cup {Program}
    <3>1. r \in Counts
      BY <2>3, <2>6, ProgramReleasedIs
    <3>2. r.count \in [Objects -> Int]
      BY <3>1 DEF Counts
    <3>3. QED
      BY <2>3, <2>6, <3>1, <3>2, ProgramReleasedIs
  <2>8. refs' \in Counts /\ refs'.count = r.count /\ refs'.freed = r.freed \cup {k}
    <3>1. PICK s : s = [r EXCEPT !.freed = @ \cup {k}]
      OBVIOUS
    <3>2. s \in Counts /\ s.count = r.count /\ s.freed = r.freed \cup {k}
      BY <2>4, <2>7, <3>1, FreedMore
    <3>3. refs' = s
      BY <2>2, <2>6, <3>1 DEF FreeKernel
    <3>4. QED
      BY <3>2, <3>3
  <2>9. PICK L, u : L = made \ refs.freed /\ u = UseIn(held, queue)
    OBVIOUS
  <2>10. Sound(refs.count, L, u, parent, mapping, Creating) /\ k \in L
    BY <2>4, <2>9, CountsNow
  <2>11. u \in [Objects -> Nat] /\ \A x \in Objects : u[x] \in Nat
    BY <2>3, <2>9, UseValues
  <2>12. u[k] = 0 /\ k \notin Creating
    <3>1. refs.count[k] = KernelCount(u, Creating, k)
      BY <2>4, <2>10 DEF Sound, Exact
    <3>2. PICK n \in Nat : n = IF k \in Creating THEN 1 ELSE 0
      OBVIOUS
    <3>3. u[k] + NumDevices - 1 + n = 0
      BY <2>4, <3>1, <3>2 DEF KernelCount
    <3>4. u[k] = 0 /\ n = 0
      BY <3>3, <2>4, <2>11, KindsDisjoint
    <3>5. QED
      BY <3>2, <3>4
  <2>13. k \in Linked(L, Creating) /\ Program \in L
    BY <2>4, <2>10, <2>12 DEF Linked, Sound, Reached
  <2>14. PICK L2 : L2 = (IF refs.count[Program] > 1 THEN L ELSE L \ {Program}) \ {k}
    OBVIOUS
  <2>15. ProgramGivenBack(refs.count, L, u, Creating, {k}, r.count, L2, u)
    BY <2>7, <2>11, <2>12, <2>13, <2>14 DEF ProgramGivenBack
  <2>16. Sound(r.count, L2, u, parent, mapping, Creating)
    BY <2>10, <2>15, SoundReleaseProgram
  <2>17. L2 = made' \ refs'.freed /\ refs'.freed \subseteq made'
    BY <2>2, <2>3, <2>4, <2>7, <2>8, <2>9, <2>13, <2>14
  <2>18. CountsDone'
    BY <2>2, <2>5, <2>8, <2>9, <2>16, <2>17, CountsDoneNext
  <2>19. /\ refs'.freed \cap Kernels = (refs.freed \cap Kernels) \cup {k}
         /\ refs.freed \subseteq refs'.freed
         /\ \A x \in Kernels : refs'.count[x] = refs.count[x]
    BY <2>4, <2>7, <2>8
  <2>20. QED
    BY <2>1, <2>18, <2>19
<1>3. QED
  BY <1>1, <1>2

\* A release by a command.  No kernel is touched.
Rel(r, u, cr) == r \in Counts /\ r.freed \subseteq made
                 /\ Sound(r.count, made \ r.freed, u, parent, mapping, cr)
Spares(r, s) ==
  /\ r.freed \subseteq s.freed /\ s.freed \cap Kernels = r.freed \cap Kernels
  /\ \A k \in Kernels : s.count[k] = r.count[k]

LEMMA ReleaseOne ==
  ASSUME NEW r, NEW u, NEW cr, Rel(r, u, cr), NEW b \in Buffers, u[b] > 0
  PROVE  Rel(MemReleased(r, b), Less(u, b), cr) /\ Spares(r, MemReleased(r, b))
<1>1. /\ r \in Counts /\ r.freed \subseteq made /\ r.count \in [Objects -> Int]
      /\ Sound(r.count, made \ r.freed, u, parent, mapping, cr)
  BY DEF Rel, Counts
<1>2. parent[b] \in Buffers \cup {Null} /\ b \in made /\ b \in Objects
  BY <1>1, SoundNumbers, KindsDisjoint DEF Sound, Reached
<1>3. PICK s : s = MemReleased(r, b)
  OBVIOUS
<1>4. /\ s \in Counts /\ s.count = CountAfter(r.count, parent, b)
      /\ s.freed = IF r.count[b] > 1 THEN r.freed ELSE r.freed \cup {b}
  BY <1>1, <1>2, <1>3, MemReleasedIs
<1>5. Sound(s.count, LeftBy(r.count, made \ r.freed, b), Less(u, b), parent, mapping, cr)
  BY <1>1, <1>4, SoundMemRelease
<1>6. LeftBy(r.count, made \ r.freed, b) = made \ s.freed /\ s.freed \subseteq made
  BY <1>1, <1>2, <1>4 DEF LeftBy
<1>7. \A k \in Kernels : s.count[k] = r.count[k]
  <2>1. CASE r.count[b] > 1
    <3>1. s.count = Less(r.count, b)
      BY <1>4, <2>1 DEF CountAfter
    <3>2. OneLess(Less(r.count, b), r.count, b)
      BY <1>1, <1>2, OneChanged
    <3>3. QED
      BY <3>1, <3>2, KindsDisjoint DEF OneLess
  <2>2. CASE ~(r.count[b] > 1)
    <3>1. parent[b] \in (Buffers \ {b}) \cup {Null}
      BY <1>1, <2>2, LastReference
    <3>2. \A x \in Objects : x \notin {b, parent[b], Context} =>
            CountAfter(r.count, parent, b)[x] = r.count[x]
      BY <1>1, <2>2, <3>1, CountsAfterLast
    <3>3. QED
      BY <1>2, <1>4, <3>2, KindsDisjoint
  <2>3. QED
    BY <2>1, <2>2
<1>8. s.freed \cap Kernels = r.freed \cap Kernels /\ r.freed \subseteq s.freed
  BY <1>4, KindsDisjoint
<1>9. QED
  BY <1>3, <1>4, <1>5, <1>6, <1>7, <1>8 DEF Rel, Spares

LEMMA SparesBoth ==
  ASSUME NEW q, NEW r, NEW s, Spares(q, r), Spares(r, s)
  PROVE  Spares(q, s)
BY DEF Spares

\* What the first command of the queue uses.
LEMMA FirstUses ==
  ASSUME TypeOK, CountsOK, queue # <<>>
  PROVE  /\ queue[1] \in Commands(Int)
         /\ UseIn(held, queue) \in [Objects -> Int]
         /\ UseIn(held, Tail(queue)) \in [Objects -> Nat]
         /\ \A x \in Objects : /\ UseIn(held, queue)[x] = UseIn(held, Tail(queue))[x] + Names(queue[1], x)
                               /\ UseIn(held, Tail(queue))[x] \in Nat
<1>1. held \in [Objects -> Nat] /\ queue \in Seq(Commands(Int))
  BY StateTyped
<1>2. queue[1] \in Commands(Int)
  BY <1>1, TailParts
<1>3. QED
  BY <1>1, <1>2, UseTaken, UseValues

\* The buffers of the first command are released, one or two of them.
LEMMA CountsReleaseBuffers ==
  ASSUME TypeOK, CountsOK, queue # <<>>, queue[1].kind = "use"
  PROVE  \E u2 \in [Objects -> Int] :
           /\ Rel(BuffersReleased(refs, queue[1].buffers), u2, Creating)
           /\ Spares(refs, BuffersReleased(refs, queue[1].buffers))
           /\ \A x \in Objects : u2[x] = UseIn(held, Tail(queue))[x] + One(queue[1].kernel = x)
<1>1. PICK c \in Commands(Int) : c = queue[1] /\ c.kind = "use"
  BY FirstUses
<1>2. PICK u \in [Objects -> Int], w \in [Objects -> Nat] :
        u = UseIn(held, queue) /\ w = UseIn(held, Tail(queue))
  BY FirstUses
<1>3. \A x \in Objects : /\ u[x] = w[x] + Names(c, x) /\ w[x] \in Nat
                         /\ Names(c, x) = One(c.buffers[1] = x)
                              + One(Len(c.buffers) = 2 /\ c.buffers[2] = x) + One(c.kernel = x)
  BY <1>1, <1>2, FirstUses, NamesAre
<1>4. PICK b \in Buffers : b = c.buffers[1]
  BY CommandParts
<1>5. Rel(refs, u, Creating)
  BY <1>2, CountsNow, StateTyped DEF Rel
<1>6. b \in Objects /\ u[b] > 0
  <2>1. b \in Objects
    BY KindsDisjoint
  <2>2. PICK i, j : i = One(Len(c.buffers) = 2 /\ c.buffers[2] = b) /\ j = One(c.kernel = b)
    OBVIOUS
  <2>3. i \in Nat /\ j \in Nat /\ w[b] \in Nat
    BY <1>3, <2>1, <2>2 DEF One
  <2>4. One(c.buffers[1] = b) = 1
    BY <1>4 DEF One
  <2>5. u[b] = w[b] + (1 + i + j)
    BY <1>3, <2>1, <2>2, <2>4
  <2>6. QED
    BY <2>1, <2>3, <2>5
<1>7. PICK r1, u1 : r1 = MemReleased(refs, b) /\ u1 = Less(u, b)
  OBVIOUS
<1>8. Rel(r1, u1, Creating) /\ Spares(refs, r1)
  BY <1>5, <1>6, <1>7, ReleaseOne
<1>9. OneLess(u1, u, b)
  BY <1>6, <1>7, OneChanged
<1>10. CASE Len(c.buffers) = 1
  <2>1. BuffersReleased(refs, c.buffers) = r1
    BY <1>4, <1>7, <1>10 DEF BuffersReleased
  <2>2. ASSUME NEW x \in Objects PROVE u1[x] = w[x] + One(c.kernel = x)
    <3>1. u1[x] = IF x = b THEN u[x] - 1 ELSE u[x]
      BY <1>9 DEF OneLess
    <3>2. u[x] = w[x] + ((IF x = b THEN 1 ELSE 0) + 0 + One(c.kernel = x))
      BY <1>3, <1>4, <1>10 DEF One
    <3>3. One(c.kernel = x) \in Nat /\ w[x] \in Nat
      BY <1>3 DEF One
    <3>4. QED
      BY <3>1, <3>2, <3>3
  <2>3. u1 \in [Objects -> Int]
    BY <1>9 DEF OneLess
  <2>4. QED
    BY <1>1, <1>2, <1>8, <2>1, <2>2, <2>3
<1>11. CASE Len(c.buffers) = 2 /\ c.buffers[2] \in Buffers
  <2>1. PICK p \in Buffers : p = c.buffers[2]
    BY <1>11
  <2>2. PICK r2, u2 : r2 = MemReleased(r1, p) /\ u2 = Less(u1, p)
    OBVIOUS
  <2>3. ASSUME NEW x \in Objects
        PROVE  /\ u1[x] = w[x] + One(p = x) + One(c.kernel = x)
               /\ One(c.kernel = x) \in Nat /\ w[x] \in Nat
    <3>1. u1[x] = IF x = b THEN u[x] - 1 ELSE u[x]
      BY <1>9 DEF OneLess
    <3>2. u[x] = w[x] + ((IF x = b THEN 1 ELSE 0) + One(p = x) + One(c.kernel = x))
      BY <1>3, <1>4, <1>11, <2>1 DEF One
    <3>3. One(p = x) \in Nat /\ One(c.kernel = x) \in Nat /\ w[x] \in Nat
      BY <1>3 DEF One
    <3>4. QED
      BY <3>1, <3>2, <3>3
  <2>4. p \in Objects /\ u1[p] > 0
    BY <2>3, KindsDisjoint DEF One
  <2>5. Rel(r2, u2, Creating) /\ Spares(refs, r2)
    BY <1>8, <2>2, <2>4, ReleaseOne, SparesBoth
  <2>6. u1 \in [Objects -> Int]
    BY <1>9 DEF OneLess
  <2>7. OneLess(u2, u1, p)
    BY <2>2, <2>4, <2>6, OneChanged
  <2>8. \A x \in Objects : u2[x] = w[x] + One(c.kernel = x)
    <3>1. TAKE x \in Objects
    <3>2. u2[x] = IF x = p THEN u1[x] - 1 ELSE u1[x]
      BY <2>7 DEF OneLess
    <3>3. u1[x] = w[x] + (IF x = p THEN 1 ELSE 0) + One(c.kernel = x)
      BY <2>3 DEF One
    <3>4. One(c.kernel = x) \in Nat /\ w[x] \in Nat
      BY <2>3
    <3>5. QED
      BY <3>2, <3>3, <3>4
  <2>9. BuffersReleased(refs, c.buffers) = r2
    BY <1>4, <1>7, <1>11, <2>1, <2>2 DEF BuffersReleased
  <2>10. u2 \in [Objects -> Int]
    BY <2>7 DEF OneLess
  <2>11. QED
    BY <1>1, <1>2, <2>5, <2>8, <2>9, <2>10
<1>12. QED
  BY <1>10, <1>11, CommandParts

LEMMA CountsExecuteUse ==
  ASSUME TypeOK, CountsOK, NEW t \in Threads, ExecuteUse(t)
  PROVE  /\ CountsDone' /\ refs.freed \subseteq refs'.freed
         /\ refs'.freed \cap Kernels = refs.freed \cap Kernels
         /\ \A k \in Kernels : k # queue[1].kernel => refs'.count[k] = refs.count[k]
<1>1. /\ queue # <<>> /\ queue[1].kind = "use" /\ queue' = Tail(queue)
      /\ made' = made /\ held' = held /\ parent' = parent /\ mapping' = mapping
      /\ call[t].at = "idle"
  BY DEF ExecuteUse, Idle
<1>2. PICK k, r : k = queue[1].kernel /\ r = BuffersReleased(refs, queue[1].buffers)
  OBVIOUS
<1>3. PICK u \in [Objects -> Int], w \in [Objects -> Nat] :
        /\ w = UseIn(held, Tail(queue)) /\ Rel(r, u, Creating) /\ Spares(refs, r)
        /\ \A x \in Objects : u[x] = w[x] + One(k = x)
  BY <1>1, <1>2, CountsReleaseBuffers, FirstUses
<1>4. refs' = IF k = Null THEN r ELSE Dropped(r, k)
  BY <1>2 DEF ExecuteUse
<1>5. Creating' = Creating
  <2>1. CASE call' = call
    BY <2>1, CreatingSame
  <2>2. CASE Enter(t, "walk", k, Null)
    <3>1. PICK v : v = [at |-> "walk", kernel |-> k, link |-> Null]
      OBVIOUS
    <3>2. v.at = "walk" /\ call' = [call EXCEPT ![t] = v]
      BY <2>2, <3>1 DEF Enter
    <3>3. QED
      BY <1>1, <3>2, CreatingNow
  <2>3. QED
    BY <1>2, <2>1, <2>2 DEF ExecuteUse
<1>6. CASE k = Null
  <2>1. \A x \in Objects : u[x] = w[x]
    <3>1. \A x \in Objects : x # Null
      BY ObjectsAssumption
    <3>2. \A x \in Objects : w[x] \in Nat
      OBVIOUS
    <3>3. QED
      BY <1>3, <1>6, <3>1, <3>2 DEF One
  <2>2. w = u
    BY <2>1
  <2>3. CountsDone'
    BY <1>1, <1>3, <1>4, <1>5, <1>6, <2>2, CountsDoneNext DEF Rel
  <2>4. QED
    BY <1>3, <1>4, <1>6, <2>3 DEF Spares
<1>7. CASE k # Null
  <2>1. k \in Kernels /\ k \in Objects
    BY <1>1, <1>2, <1>7, FirstUses, CommandParts, KindsDisjoint
  <2>2. u[k] > 0
    <3>1. u[k] = w[k] + 1 /\ w[k] \in Nat
      BY <1>3, <2>1 DEF One
    <3>2. QED
      BY <3>1
  <2>3. r \in Counts /\ r.freed \subseteq made /\ r.count \in [Objects -> Int]
    BY <1>3 DEF Rel, Counts
  <2>4. refs' \in Counts /\ refs'.freed = r.freed /\ refs'.count = Less(r.count, k)
    BY <1>4, <1>7, <2>1, <2>3, DroppedOne
  <2>5. OneLess(Less(u, k), u, k) /\ OneLess(Less(r.count, k), r.count, k)
    BY <2>1, <2>3, OneChanged
  <2>6. Less(u, k) = w
    <3>1. \A x \in Objects : Less(u, k)[x] = w[x]
      <4>1. ASSUME NEW x \in Objects PROVE Less(u, k)[x] = w[x]
        <5>1. Less(u, k)[x] = IF x = k THEN u[x] - 1 ELSE u[x]
          BY <2>5 DEF OneLess
        <5>2. u[x] = IF x = k THEN w[x] + 1 ELSE w[x] + 0
          BY <1>3 DEF One
        <5>3. w[x] \in Nat
          OBVIOUS
        <5>4. QED
          BY <5>1, <5>2, <5>3
      <4>2. QED
        BY <4>1
    <3>2. Less(u, k) \in [Objects -> Int]
      BY <2>5 DEF OneLess
    <3>3. QED
      BY <3>1, <3>2
  <2>7. Sound(refs'.count, made \ r.freed, w, parent, mapping, Creating)
    BY <1>3, <2>1, <2>2, <2>4, <2>6, SoundDropKernel DEF Rel
  <2>8. CountsDone'
    BY <1>1, <1>3, <1>5, <2>3, <2>4, <2>7, CountsDoneNext
  <2>9. \A x \in Kernels : x # k => refs'.count[x] = refs.count[x]
    BY <1>3, <2>4, <2>5, KindsDisjoint DEF Spares, OneLess
  <2>10. QED
    BY <1>2, <1>3, <2>4, <2>8, <2>9 DEF Spares
<1>8. QED
  BY <1>6, <1>7

\* A map and an unmap hold nothing, and nothing is released when they are executed.
LEMMA CountsExecuteMap ==
  ASSUME TypeOK, CountsOK, NEW t \in Threads, ExecuteMap(t) \/ ExecuteUnmap(t)
  PROVE  CountsDone'
<1>1. /\ queue # <<>> /\ queue[1].kind # "use" /\ queue' = Tail(queue)
      /\ refs' = refs /\ made' = made /\ held' = held /\ parent' = parent /\ mapping' = mapping
      /\ call' = call
  BY DEF ExecuteMap, ExecuteUnmap, Takes, kernelVars
<1>2. PICK u \in [Objects -> Int], w \in [Objects -> Nat] :
        /\ u = UseIn(held, queue) /\ w = UseIn(held, Tail(queue))
        /\ \A x \in Objects : u[x] = w[x] + Names(queue[1], x) /\ w[x] \in Nat
  BY <1>1, FirstUses
<1>3. \A x \in Objects : Names(queue[1], x) = 0
  BY <1>1, FirstUses, NamesAre
<1>4. \A x \in Objects : u[x] = w[x]
  BY <1>2, <1>3
<1>5. u = w
  BY <1>4
<1>6. QED
  BY <1>1, <1>2, <1>5, CountsUnchanged, CreatingSame

-----------------------------------------------------------------------------
\* Calls.  The kernel of a call is used by nobody.
LEMMA KernelCounted ==
  ASSUME TypeOK, CountsOK, NEW k \in Kernels, k \in made, k \notin refs.freed
  PROVE  /\ refs.count[k] = UseIn(held, queue)[k] + NumDevices - 1 + One(k \in Creating)
         /\ UseIn(held, queue)[k] = held[k] + PendingIn(queue, k)
         /\ held[k] \in Nat /\ PendingIn(queue, k) \in Nat
         /\ (refs.count[k] = 0 <=> Unused(k) /\ NumDevices = 1 /\ k \notin Creating)
<1>1. refs.count[k] = UseIn(held, queue)[k] + NumDevices - 1 + One(k \in Creating)
  BY CountsNow DEF Sound, Exact, KernelCount, One
<1>2. /\ UseIn(held, queue)[k] = held[k] + PendingIn(queue, k)
      /\ held[k] \in Nat /\ PendingIn(queue, k) \in Nat
  BY StateTyped, UseValues, KindsDisjoint
<1>3. NumDevices \in Nat /\ NumDevices >= 1
  BY KindsDisjoint
<1>4. CASE k \in Creating
  <2>1. refs.count[k] > 0
    BY <1>1, <1>2, <1>3, <1>4 DEF One
  <2>2. QED
    BY <1>1, <1>2, <1>4, <2>1
<1>5. CASE k \notin Creating
  <2>1. refs.count[k] = held[k] + PendingIn(queue, k) + NumDevices - 1
    BY <1>1, <1>2, <1>3, <1>5 DEF One
  <2>2. refs.count[k] = 0 <=> held[k] = 0 /\ PendingIn(queue, k) = 0 /\ NumDevices = 1
    BY <1>2, <1>3, <2>1
  <2>3. QED
    BY <1>1, <1>2, <1>5, <2>2 DEF Unused
<1>6. QED
  BY <1>4, <1>5

UnusedNext(k) == held'[k] = 0 /\ PendingIn(queue', k) = 0

LEMMA KernelCountedNext ==
  ASSUME TypeOK', CountsOK', NEW k \in Kernels, k \in made', k \notin refs'.freed
  PROVE  (refs'.count[k] = 0 <=> UnusedNext(k) /\ NumDevices = 1 /\ k \notin Creating')
<1>1. refs'.count[k] = UseIn(held', queue')[k] + NumDevices - 1 + One(k \in Creating')
  BY CountsNext DEF Sound, Exact, KernelCount, One
<1>2. held' \in [Objects -> Nat] /\ queue' \in Seq(Commands(Int))
  <2>1. 0..MaxRefs \subseteq Nat
    BY ObjectsAssumption
  <2>2. QED
    BY <2>1, TypePartsNext, MappingPlaces, CommandsWider
<1>3. /\ UseIn(held', queue')[k] = held'[k] + PendingIn(queue', k)
      /\ held'[k] \in Nat /\ PendingIn(queue', k) \in Nat
  BY <1>2, UseValues, KindsDisjoint
<1>4. NumDevices \in Nat /\ NumDevices >= 1
  BY KindsDisjoint
<1>5. CASE k \in Creating'
  <2>1. refs'.count[k] > 0
    BY <1>1, <1>3, <1>4, <1>5 DEF One
  <2>2. QED
    BY <1>5, <2>1
<1>6. CASE k \notin Creating'
  <2>1. refs'.count[k] = held'[k] + PendingIn(queue', k) + NumDevices - 1
    BY <1>1, <1>3, <1>4, <1>6 DEF One
  <2>2. refs'.count[k] = 0 <=> held'[k] = 0 /\ PendingIn(queue', k) = 0 /\ NumDevices = 1
    BY <1>3, <1>4, <2>1
  <2>3. QED
    BY <1>6, <2>2 DEF UnusedNext
<1>7. QED
  BY <1>5, <1>6

LEMMA CallsUnused ==
  ASSUME TypeOK, CountsOK, CallsOK, NEW t \in Threads, Calling(t)
  PROVE  /\ call[t].kernel \in Kernels /\ call[t].kernel \in made /\ call[t].kernel \notin refs.freed
         /\ Unused(call[t].kernel)
<1>1. /\ call[t].kernel \in Kernels /\ call[t].kernel \in made /\ call[t].kernel \notin refs.freed
  BY DEF CallsOK, Alive
<1>2. call[t].at \in {"create", "walk", "unlink"}
  BY TypeParts DEF CallStates, Calling
<1>3. Unused(call[t].kernel)
  BY <1>1, <1>2, KernelCounted DEF CallsOK
<1>4. QED
  BY <1>1, <1>3

\* A step of thread t keeps what is required of calls when it leaves the
\* kernels of the others alone and its own is in no other call.
Spared(t) ==
  \A s \in Threads : s # t /\ Calling(s) =>
    call'[s] = call[s] /\ call[s].kernel \in made' \ refs'.freed /\ UnusedNext(call[s].kernel)
OwnCall(t) ==
  call'[t].at # "idle" =>
    /\ call'[t].kernel \in Kernels /\ call'[t].kernel \in made' \ refs'.freed
    /\ call'[t].at = "create" => UnusedNext(call'[t].kernel)
    /\ call'[t].at \in {"walk", "unlink"} => refs'.count[call'[t].kernel] = 0
    /\ \A s \in Threads : s # t /\ Calling(s) => call[s].kernel # call'[t].kernel

LEMMA CallsKept ==
  ASSUME TypeOK, CountsOK, CallsOK, TypeOK', CountsOK', NEW t \in Threads,
         \A s \in Threads : s # t => call'[s] = call[s],
         Spared(t), OwnCall(t), Creating' # {} => held'[Program] > 0
  PROVE  CallsOK'
<1>1. \A s \in Threads : s # t => (Calling(s)' <=> Calling(s)) /\ call'[s] = call[s]
  BY DEF Calling
<1>2. \A s \in Threads : Calling(s)' => call'[s].kernel \in Kernels \cap Alive'
  BY <1>1, CallsUnused DEF Spared, OwnCall, Calling, Alive
<1>3. ASSUME NEW s \in Threads, call'[s].at = "create" PROVE UnusedNext(call'[s].kernel)
  <2>1. CASE s = t
    BY <1>3, <2>1 DEF OwnCall
  <2>2. CASE s # t
    <3>1. call'[s] = call[s] /\ Calling(s)
      BY <1>1, <1>3, <2>2 DEF Calling
    <3>2. PICK k : k = call[s].kernel /\ k = call'[s].kernel
      BY <3>1
    <3>3. UnusedNext(k)
      BY <2>2, <3>1, <3>2 DEF Spared
    <3>4. QED
      BY <3>2, <3>3
  <2>3. QED
    BY <2>1, <2>2
<1>4. \A r, s \in Threads : r # s /\ Calling(r)' /\ Calling(s)' => call'[r].kernel # call'[s].kernel
  <2>1. \A r, s \in Threads : r # s /\ Calling(r) /\ Calling(s) => call[r].kernel # call[s].kernel
    BY DEF CallsOK
  <2>2. \A s \in Threads : Calling(t)' /\ s # t /\ Calling(s) => call[s].kernel # call'[t].kernel
    BY DEF OwnCall, Calling
  <2>3. QED
    BY <1>1, <2>1, <2>2
<1>5. ASSUME NEW s \in Threads, call'[s].at \in {"walk", "unlink"}
      PROVE  refs'.count[call'[s].kernel] = 0
  <2>1. CASE s = t
    BY <1>5, <2>1 DEF OwnCall
  <2>2. CASE s # t
    <3>1. PICK k : k = call[s].kernel
      OBVIOUS
    <3>2. call[s] = call'[s] /\ Calling(s) /\ Calling(s)'
      BY <1>1, <1>5, <2>2 DEF Calling
    <3>3. k \in Kernels /\ k \in made /\ k \notin refs.freed /\ refs.count[k] = 0
      BY <1>5, <3>1, <3>2, CallsUnused DEF CallsOK
    <3>4. k \in made' /\ k \notin refs'.freed /\ UnusedNext(k)
      BY <2>2, <3>1, <3>2 DEF Spared
    <3>5. NumDevices = 1
      BY <3>3, KernelCounted
    <3>6. k \notin Creating'
      <4>1. SUFFICES ASSUME NEW r \in Threads, call'[r].at = "create", call'[r].kernel = k PROVE FALSE
        BY DEF Creating
      <4>2. r # s /\ Calling(r)'
        BY <1>5, <4>1 DEF Calling
      <4>3. QED
        BY <1>4, <3>1, <3>2, <4>1, <4>2
    <3>7. QED
      BY <3>1, <3>2, <3>3, <3>4, <3>5, <3>6, KernelCountedNext
  <2>3. QED
    BY <2>1, <2>2
<1>6. \A s \in Threads : call'[s].at = "create" => UnusedNext(call'[s].kernel)
  BY <1>3
<1>7. \A s \in Threads : call'[s].at \in {"walk", "unlink"} => refs'.count[call'[s].kernel] = 0
  BY <1>5
<1>8. QED
  BY <1>2, <1>4, <1>6, <1>7, Zenon DEF CallsOK, Unused, UnusedNext

-----------------------------------------------------------------------------
\* Calls on objects.  Objects in no call keep their use.
LEMMA OthersSpared ==
  ASSUME TypeOK, CountsOK, CallsOK, NEW t \in Threads,
         \A s \in Threads : s # t => call'[s] = call[s],
         made \subseteq made',
         \A s \in Threads : s # t /\ Calling(s) =>
           /\ call[s].kernel \notin refs'.freed /\ held'[call[s].kernel] = held[call[s].kernel]
           /\ Unused(call[s].kernel) => PendingIn(queue', call[s].kernel) = 0
  PROVE  Spared(t)
<1>1. SUFFICES ASSUME NEW s \in Threads, s # t, Calling(s)
               PROVE  /\ call'[s] = call[s] /\ call[s].kernel \in made' \ refs'.freed
                      /\ UnusedNext(call[s].kernel)
  BY DEF Spared
<1>2. call[s].kernel \in made /\ Unused(call[s].kernel)
  BY <1>1, CallsUnused
<1>3. QED
  BY <1>1, <1>2 DEF Unused, UnusedNext

ParentsOK(pa, ma) ==
  \A b \in Buffers : pa[b] # Null => b \in ma /\ pa[b] \in ma /\ pa[b] # b

\* Where the mappings are kept, so are the threads that execute one.
LEMMA EditsKept ==
  ASSUME CoreOK, edit' = edit, torn' \subseteq Buffers, miscounted' \subseteq Buffers,
         \A b : MapsIn(mapping, b) \subseteq MapsIn(mapping', b)
  PROVE  EditsTyped' /\ EditsOK'
<1>1. EditsTyped /\ EditsOK
  BY TypeParts DEF CoreOK
<1>2. EditsTyped'
  BY <1>1 DEF EditsTyped
<1>3. EditsOK'
  BY <1>1 DEF EditsOK
<1>4. QED
  BY <1>2, <1>3

LEMMA EditsAlone ==
  ASSUME CoreOK, editVars' = editVars, mapping' = mapping
  PROVE  EditsTyped' /\ EditsOK'
<1>1. edit' = edit /\ torn' = torn /\ miscounted' = miscounted
  BY DEF editVars
<1>2. torn' \subseteq Buffers /\ miscounted' \subseteq Buffers
  BY <1>1, TypeParts DEF CoreOK, EditsTyped
<1>3. QED
  BY <1>1, <1>2, EditsKept

\* A call that changes what the client holds of one object.
LEMMA HeldCore ==
  ASSUME CoreOK, CountsDone', NEW t \in Threads, call[t].at = "idle",
         NEW o \in Objects, NEW n \in 0..MaxRefs, held' = [held EXCEPT ![o] = n],
         held[o] > 0 \/ o \notin made \/ o \notin Kernels,
         made' = made \/ made' = made \cup {o},
         parent' \in [Buffers -> Buffers \cup {Null}], ParentsOK(parent', made'),
         mappings' \in [Buffers -> Seq(DOMAIN mapping)],
         \A k \in Kernels : k \in refs'.freed => k \in refs.freed,
         mapping' = mapping /\ mapCount' = mapCount /\ unmapped' = unmapped,
         editVars' = editVars /\ queue' = queue,
         head' = head /\ next' = next /\ call' = call /\ raced' = raced /\ corrupt' = corrupt,
         Creating # {} => held'[Program] > 0
  PROVE  CoreOK'
<1>1. TypeOK /\ CountsOK /\ MadeOK /\ CallsOK /\ QueueOK
  BY DEF CoreOK
<1>2. held \in [Objects -> 0..MaxRefs]
  BY <1>1, TypeParts
<1>3. held' \in [Objects -> 0..MaxRefs] /\ \A x \in Objects : x # o => held'[x] = held[x]
  BY <1>2
<1>4. CountsOK' /\ refs' \in Counts /\ refs'.freed \subseteq made'
  BY DEF CountsDone
<1>5. TypeOK'
  <2>1. made' \subseteq Objects
    BY <1>1, TypeParts
  <2>2. EditsTyped'
    BY EditsAlone
  <2>3. QED
    BY <1>1, <1>3, <1>4, <2>1, <2>2, TypeParts, TypePartsNext
<1>6. MadeOK'
  <2>1. IsFiniteSet(made')
    <3>1. IsFiniteSet(made)
      BY <1>1 DEF MadeOK
    <3>2. IsFiniteSet(made \cup {o})
      BY <3>1, FS_AddElement
    <3>3. QED
      BY <3>1, <3>2
  <2>2. QED
    BY <1>1, <2>1 DEF MadeOK, ParentsOK
<1>7. CallsOK'
  <2>1. ASSUME NEW s \in Threads, s # t, Calling(s)
        PROVE  /\ call[s].kernel \notin refs'.freed /\ held'[call[s].kernel] = held[call[s].kernel]
               /\ Unused(call[s].kernel) => PendingIn(queue', call[s].kernel) = 0
    <3>1. PICK k : k = call[s].kernel
      OBVIOUS
    <3>2. k \in Kernels /\ k \in made /\ k \notin refs.freed /\ Unused(k)
      BY <1>1, <2>1, <3>1, CallsUnused
    <3>3. k # o
      BY <3>2 DEF Unused
    <3>4. k \in Objects
      BY <3>2, KindsDisjoint
    <3>5. QED
      BY <1>3, <3>1, <3>2, <3>3, <3>4 DEF Unused
  <2>2. made \subseteq made'
    OBVIOUS
  <2>3. Spared(t)
    BY <1>1, <2>1, <2>2, OthersSpared
  <2>4. OwnCall(t)
    BY DEF OwnCall
  <2>5. Creating' = Creating
    BY CreatingSame
  <2>6. QED
    BY <1>1, <1>4, <1>5, <2>3, <2>4, <2>5, CallsKept
<1>8. QueueOK' /\ EditsOK'
  BY <1>1, EditsAlone DEF QueueOK
<1>9. QED
  BY <1>1, <1>4, <1>5, <1>6, <1>7, <1>8 DEF CoreOK

\* The program a kernel is being created in stays held.
LEMMA ProgramHeld ==
  ASSUME CoreOK, NEW o \in Objects, NEW n \in 0..MaxRefs, held' = [held EXCEPT ![o] = n],
         o = Program => n > 0
  PROVE  Creating # {} => held'[Program] > 0
<1>1. held \in [Objects -> 0..MaxRefs] /\ (Creating # {} => held[Program] > 0)
  BY TypeParts DEF CoreOK, CallsOK
<1>2. Program \in Objects
  BY KindsDisjoint
<1>3. QED
  BY <1>1, <1>2

LEMMA CoreRetain ==
  ASSUME CoreOK, NEW t \in Threads, NEW o \in Objects, Retain(t, o)
  PROVE  CoreOK'
<1>1. TypeOK /\ CountsOK /\ MadeOK /\ CallsOK /\ QueueOK
  BY DEF CoreOK
<1>2. CountsDone'
  BY <1>1, CountsRetain
<1>3. /\ refs' = Retained(refs, <<o>>) /\ held' = [held EXCEPT ![o] = @ + 1] /\ held[o] \in 1..(MaxRefs - 1)
      /\ made' = made /\ parent' = parent /\ mapping' = mapping /\ mappings' = mappings
      /\ mapCount' = mapCount /\ unmapped' = unmapped /\ editVars' = editVars /\ queue' = queue
      /\ head' = head /\ next' = next /\ call' = call /\ raced' = raced /\ corrupt' = corrupt
      /\ call[t].at = "idle"
  BY DEF Retain, Idle, mapVars, kernelVars
<1>4. PICK n \in 0..MaxRefs : n = held[o] + 1 /\ n > 0 /\ held[o] > 0
  BY <1>3, ObjectsAssumption
<1>5. held' = [held EXCEPT ![o] = n]
  BY <1>3, <1>4
<1>6. refs'.freed = refs.freed
  BY <1>1, <1>3, RetainedOne, StateTyped
<1>7. Creating # {} => held'[Program] > 0
  BY <1>4, <1>5, ProgramHeld
<1>8. ParentsOK(parent', made') /\ parent' \in [Buffers -> Buffers \cup {Null}]
  BY <1>1, <1>3, TypeParts DEF MadeOK, ParentsOK
<1>9. mappings' \in [Buffers -> Seq(DOMAIN mapping)]
  BY <1>1, <1>3, TypeParts
<1>10. QED
  BY <1>2, <1>3, <1>4, <1>5, <1>6, <1>7, <1>8, <1>9, HeldCore

\* The number of references of a new object.
LEMMA OneReference ==
  /\ 1 \in 0..MaxRefs /\ 1 > 0
  /\ \A n \in 0..MaxRefs : n > 0 => n - 1 \in 0..MaxRefs
BY ObjectsAssumption

\* A call that makes an object other than a kernel.
LEMMA CoreCreates ==
  ASSUME CoreOK, CountsDone', NEW t \in Threads, call[t].at = "idle",
         NEW o \in Objects, o \notin Kernels, held' = [held EXCEPT ![o] = 1],
         made' = made \cup {o}, NEW q \in made \cup {Null},
         \/ parent' = parent
         \/ o \in Buffers /\ parent' = [parent EXCEPT ![o] = q] /\ q \in Buffers /\ q # o,
         refs'.freed = refs.freed,
         mapping' = mapping /\ mappings' = mappings /\ mapCount' = mapCount /\ unmapped' = unmapped,
         editVars' = editVars,
         queue' = queue /\ head' = head /\ next' = next /\ call' = call,
         raced' = raced /\ corrupt' = corrupt
  PROVE  CoreOK'
<1>1. TypeOK /\ MadeOK
  BY DEF CoreOK
<1>2. PICK n \in 0..MaxRefs : n = 1 /\ n > 0
  BY OneReference
<1>3. held' = [held EXCEPT ![o] = n]
  BY <1>2
<1>4. Creating # {} => held'[Program] > 0
  BY <1>2, <1>3, ProgramHeld
<1>5. parent \in [Buffers -> Buffers \cup {Null}] /\ ParentsOK(parent, made)
  BY <1>1, TypeParts DEF MadeOK, ParentsOK
<1>6. parent' \in [Buffers -> Buffers \cup {Null}] /\ ParentsOK(parent', made')
  <2>1. CASE parent' = parent
    BY <1>5, <2>1 DEF ParentsOK
  <2>2. CASE o \in Buffers /\ parent' = [parent EXCEPT ![o] = q] /\ q \in Buffers /\ q # o
    <3>1. /\ parent' \in [Buffers -> Buffers \cup {Null}] /\ parent'[o] = q
          /\ \A b \in Buffers : b # o => parent'[b] = parent[b]
      BY <1>5, <2>2
    <3>2. q \in made
      BY <2>2, KindsDisjoint
    <3>3. QED
      BY <1>5, <3>1, <3>2, <2>2 DEF ParentsOK
  <2>3. QED
    BY <2>1, <2>2
<1>7. mappings' \in [Buffers -> Seq(DOMAIN mapping)]
  BY <1>1, TypeParts
<1>8. QED
  BY <1>3, <1>4, <1>6, <1>7, HeldCore

LEMMA CoreCreateBuffer ==
  ASSUME CoreOK, NEW t \in Threads, NEW b \in Buffers, CreateBuffer(t, b)
  PROVE  CoreOK'
<1>1. TypeOK /\ CountsOK /\ MadeOK
  BY DEF CoreOK
<1>2. CountsDone'
  BY <1>1, CountsCreateBuffer
<1>3. /\ refs' = Retained([refs EXCEPT !.count[b] = NumDevices], <<Context>>)
      /\ held' = [held EXCEPT ![b] = 1] /\ made' = made \cup {b} /\ parent' = parent
      /\ mapping' = mapping /\ mappings' = mappings
      /\ mapCount' = mapCount /\ unmapped' = unmapped /\ editVars' = editVars /\ queue' = queue
      /\ head' = head /\ next' = next /\ call' = call /\ raced' = raced /\ corrupt' = corrupt
      /\ call[t].at = "idle"
  BY DEF CreateBuffer, Idle, mapVars, kernelVars
<1>4. b \in Objects /\ b \notin Kernels /\ Context \in Objects /\ NumDevices \in Int
  BY KindsDisjoint
<1>5. PICK r : r = [refs EXCEPT !.count[b] = NumDevices]
  OBVIOUS
<1>6. r \in Counts /\ r.freed = refs.freed
  <2>1. refs \in Counts
    BY <1>1, StateTyped
  <2>2. QED
    BY <1>4, <1>5, <2>1, CountSet
<1>7. refs'.freed = refs.freed
  BY <1>3, <1>4, <1>5, <1>6, RetainedOne
<1>8. Null \in made \cup {Null}
  OBVIOUS
<1>9. QED
  BY <1>2, <1>3, <1>4, <1>7, <1>8, CoreCreates

LEMMA CoreCreateSubBuffer ==
  ASSUME CoreOK, NEW t \in Threads, NEW b \in Buffers, NEW p \in Buffers, CreateSubBuffer(t, b, p)
  PROVE  CoreOK'
<1>1. TypeOK /\ CountsOK /\ MadeOK
  BY DEF CoreOK
<1>2. CountsDone'
  BY <1>1, CountsCreateSubBuffer
<1>3. /\ refs' = Retained([refs EXCEPT !.count[b] = 1], <<p, Context>>)
      /\ held' = [held EXCEPT ![b] = 1] /\ made' = made \cup {b} /\ parent' = [parent EXCEPT ![b] = p]
      /\ mapping' = mapping /\ mappings' = mappings
      /\ mapCount' = mapCount /\ unmapped' = unmapped /\ editVars' = editVars /\ queue' = queue
      /\ head' = head /\ next' = next /\ call' = call /\ raced' = raced /\ corrupt' = corrupt
      /\ call[t].at = "idle" /\ b \notin made /\ held[p] > 0
  BY DEF CreateSubBuffer, CanMake, Idle, mapVars, kernelVars
<1>4. b \in Objects /\ b \notin Kernels /\ Context \in Objects /\ p \in Objects
  BY KindsDisjoint
<1>5. PICK n \in Int : n = 1
  OBVIOUS
<1>6. PICK r : r = [refs EXCEPT !.count[b] = n]
  OBVIOUS
<1>7. r \in Counts /\ r.freed = refs.freed
  <2>1. refs \in Counts
    BY <1>1, StateTyped
  <2>2. QED
    BY <1>4, <1>5, <1>6, <2>1, CountSet
<1>8. refs'.freed = refs.freed
  BY <1>3, <1>4, <1>5, <1>6, <1>7, RetainedTwo
<1>9. p \in made /\ p # b /\ p \in made \cup {Null}
  BY <1>1, <1>3, <1>4, UsedLives
<1>10. QED
  BY <1>2, <1>3, <1>4, <1>8, <1>9, CoreCreates

LEMMA CoreCreateProgram ==
  ASSUME CoreOK, NEW t \in Threads, CreateProgram(t)
  PROVE  CoreOK'
<1>1. TypeOK /\ CountsOK
  BY DEF CoreOK
<1>2. CountsDone'
  BY <1>1, CountsCreateProgram
<1>3. /\ refs' = Retained([refs EXCEPT !.count[Program] = 1], <<Context>>)
      /\ held' = [held EXCEPT ![Program] = 1] /\ made' = made \cup {Program} /\ parent' = parent
      /\ mapping' = mapping /\ mappings' = mappings
      /\ mapCount' = mapCount /\ unmapped' = unmapped /\ editVars' = editVars /\ queue' = queue
      /\ head' = head /\ next' = next /\ call' = call /\ raced' = raced /\ corrupt' = corrupt
      /\ call[t].at = "idle"
  BY DEF CreateProgram, Idle, mapVars, kernelVars
<1>4. Program \in Objects /\ Program \notin Kernels /\ Context \in Objects
  BY KindsDisjoint
<1>5. PICK n \in Int : n = 1
  OBVIOUS
<1>6. PICK r : r = [refs EXCEPT !.count[Program] = n]
  OBVIOUS
<1>7. r \in Counts /\ r.freed = refs.freed
  <2>1. refs \in Counts
    BY <1>1, StateTyped
  <2>2. QED
    BY <1>4, <1>5, <1>6, <2>1, CountSet
<1>8. refs'.freed = refs.freed
  BY <1>3, <1>4, <1>5, <1>6, <1>7, RetainedOne
<1>9. Null \in made \cup {Null}
  OBVIOUS
<1>10. QED
  BY <1>2, <1>3, <1>4, <1>8, <1>9, CoreCreates

\* A call that releases an object other than a kernel.
LEMMA CoreReleases ==
  ASSUME CoreOK, CountsDone', NEW t \in Threads, call[t].at = "idle",
         NEW o \in Objects, o \notin Kernels, held' = [held EXCEPT ![o] = @ - 1], held[o] > 0,
         o = Program /\ Creating # {} => held[o] > 1,
         mappings' \in [Buffers -> Seq(DOMAIN mapping)],
         refs'.freed \subseteq refs.freed \cup {o},
         made' = made /\ parent' = parent /\ mapping' = mapping /\ mapCount' = mapCount,
         unmapped' = unmapped,
         editVars' = editVars /\ queue' = queue /\ head' = head /\ next' = next /\ call' = call,
         raced' = raced /\ corrupt' = corrupt
  PROVE  CoreOK'
<1>1. TypeOK /\ MadeOK
  BY DEF CoreOK
<1>2. held[o] \in 0..MaxRefs
  BY <1>1, TypeParts
<1>3. PICK n \in 0..MaxRefs : n = held[o] - 1
  BY <1>2, OneReference
<1>4. held' = [held EXCEPT ![o] = n]
  BY <1>3
<1>5. Creating # {} => held'[Program] > 0
  <2>1. CASE o = Program /\ Creating # {}
    <3>1. n > 0
      BY <1>2, <1>3, <2>1
    <3>2. QED
      BY <1>4, <3>1, ProgramHeld
  <2>2. CASE o # Program
    BY <1>4, <2>2, ProgramHeld
  <2>3. QED
    BY <2>1, <2>2
<1>6. parent' \in [Buffers -> Buffers \cup {Null}] /\ ParentsOK(parent', made')
  BY <1>1, TypeParts DEF MadeOK, ParentsOK
<1>7. \A k \in Kernels : k \in refs'.freed => k \in refs.freed
  OBVIOUS
<1>8. QED
  BY <1>4, <1>5, <1>6, <1>7, HeldCore

LEMMA CoreReleaseMemObject ==
  ASSUME CoreOK, NEW t \in Threads, NEW b \in Buffers, ReleaseMemObject(t, b)
  PROVE  CoreOK'
<1>1. TypeOK /\ CountsOK
  BY DEF CoreOK
<1>2. CountsDone'
  BY <1>1, CountsReleaseMemObject
<1>3. /\ refs' = MemReleased(refs, b) /\ held' = [held EXCEPT ![b] = @ - 1] /\ held[b] > 0
      /\ mappings' = (IF b \in refs'.freed THEN [mappings EXCEPT ![b] = <<>>] ELSE mappings)
      /\ made' = made /\ parent' = parent /\ mapping' = mapping
      /\ mapCount' = mapCount /\ unmapped' = unmapped /\ editVars' = editVars /\ queue' = queue
      /\ head' = head /\ next' = next /\ call' = call /\ raced' = raced /\ corrupt' = corrupt
      /\ call[t].at = "idle"
  BY DEF ReleaseMemObject, Idle, kernelVars
<1>4. b \in Objects /\ b \notin Kernels /\ b # Program
  BY KindsDisjoint
<1>5. refs'.freed \subseteq refs.freed \cup {b}
  <2>1. parent[b] \in Buffers \cup {Null} /\ refs \in Counts
    BY <1>1, StateTyped
  <2>2. QED
    BY <1>3, <2>1, MemReleasedIs
<1>6. mappings' \in [Buffers -> Seq(DOMAIN mapping)]
  <2>1. mappings \in [Buffers -> Seq(DOMAIN mapping)] /\ <<>> \in Seq(DOMAIN mapping)
    BY <1>1, TypeParts, EmptySeq
  <2>2. QED
    BY <1>3, <2>1
<1>7. QED
  BY <1>2, <1>3, <1>4, <1>5, <1>6, CoreReleases

LEMMA CoreReleaseContext ==
  ASSUME CoreOK, NEW t \in Threads, ReleaseContext(t)
  PROVE  CoreOK'
<1>1. TypeOK /\ CountsOK
  BY DEF CoreOK
<1>2. CountsDone'
  BY <1>1, CountsReleaseContext
<1>3. /\ held' = [held EXCEPT ![Context] = @ - 1] /\ held[Context] > 0 /\ mappings' = mappings
      /\ made' = made /\ parent' = parent /\ mapping' = mapping
      /\ mapCount' = mapCount /\ unmapped' = unmapped /\ editVars' = editVars /\ queue' = queue
      /\ head' = head /\ next' = next /\ call' = call /\ raced' = raced /\ corrupt' = corrupt
      /\ call[t].at = "idle"
  BY DEF ReleaseContext, Idle, mapVars, kernelVars
<1>4. Context \in Objects /\ Context \notin Kernels /\ Context # Program
  BY KindsDisjoint
<1>5. refs'.freed \subseteq refs.freed \cup {Context}
  <2>1. PICK d : d = Dropped(refs, Context)
    OBVIOUS
  <2>2. d \in Counts /\ d.freed = refs.freed
    BY <1>1, <1>4, <2>1, StateTyped, DroppedOne
  <2>3. PICK e : e = [d EXCEPT !.freed = @ \cup {Context}]
    OBVIOUS
  <2>4. e.freed = d.freed \cup {Context}
    BY <1>4, <2>2, <2>3, FreedMore
  <2>5. refs' = d \/ refs' = e
    BY <2>1, <2>3 DEF ReleaseContext
  <2>6. QED
    BY <2>2, <2>4, <2>5
<1>6. mappings' \in [Buffers -> Seq(DOMAIN mapping)]
  BY <1>1, <1>3, TypeParts
<1>7. QED
  BY <1>2, <1>3, <1>4, <1>5, <1>6, CoreReleases

LEMMA CoreReleaseProgram ==
  ASSUME CoreOK, NEW t \in Threads, ReleaseProgram(t)
  PROVE  CoreOK'
<1>1. TypeOK /\ CountsOK
  BY DEF CoreOK
<1>2. CountsDone'
  BY <1>1, CountsReleaseProgram
<1>3. /\ held' = [held EXCEPT ![Program] = @ - 1] /\ mappings' = mappings
      /\ held[Program] > (IF Creating = {} THEN 0 ELSE 1)
      /\ refs' = ProgramReleased(refs)
      /\ made' = made /\ parent' = parent /\ mapping' = mapping
      /\ mapCount' = mapCount /\ unmapped' = unmapped /\ editVars' = editVars /\ queue' = queue
      /\ head' = head /\ next' = next /\ call' = call /\ raced' = raced /\ corrupt' = corrupt
      /\ call[t].at = "idle"
  BY DEF ReleaseProgram, Idle, mapVars, kernelVars
<1>4. Program \in Objects /\ Program \notin Kernels
  BY KindsDisjoint
<1>5. refs'.freed \subseteq refs.freed \cup {Program}
  BY <1>1, <1>3, StateTyped, ProgramReleasedIs
<1>6. mappings' \in [Buffers -> Seq(DOMAIN mapping)]
  BY <1>1, <1>3, TypeParts
<1>7. held[Program] > 0 /\ (Creating # {} => held[Program] > 1)
  <2>1. held[Program] \in Nat
    BY <1>1, <1>4, StateTyped
  <2>2. QED
    BY <1>3, <2>1
<1>8. QED
  BY <1>2, <1>3, <1>4, <1>5, <1>6, <1>7, CoreReleases

-----------------------------------------------------------------------------
\* Mappings.  The mapping an unmap finds is one at its address.
LEMMA LeastNumber ==
  ASSUME NEW S, S \subseteq Nat, S # {}
  PROVE  (CHOOSE i \in S : \A j \in S : i <= j) \in S
<1>1. \E x \in S : \A y \in S : ~(<<y, x>> \in OpToRel(<, Nat))
  BY NatLessThanWellFounded, WFMin
<1>2. PICK x \in S : \A y \in S : ~(y < x)
  BY <1>1 DEF OpToRel
<1>3. \A y \in S : x <= y
  BY <1>2
<1>4. QED
  BY <1>3

LEMMA FoundIs ==
  ASSUME TypeOK, NEW b \in Buffers, NEW a \in Addresses, Found(b, a) # 0
  PROVE  /\ Found(b, a) \in MapsAt(b, a) /\ Found(b, a) \in MapsIn(mapping, b)
         /\ Found(b, a) \in DOMAIN mapping
         /\ \E i \in DOMAIN mappings[b] : mappings[b][i] = Found(b, a)
<1>1. mappings[b] \in Seq(DOMAIN mapping)
  BY TypeParts
<1>2. PICK T : T = {i \in DOMAIN mappings[b] : mappings[b][i] \in MapsAt(b, a)}
  OBVIOUS
<1>3. T \subseteq Nat
  BY <1>1, <1>2, LenProperties
<1>4. Found(b, a) = IF T = {} THEN 0 ELSE mappings[b][CHOOSE i \in T : \A j \in T : i <= j]
  BY <1>2 DEF Found
<1>5. T # {}
  BY <1>4
<1>6. PICK i \in T : i = (CHOOSE k \in T : \A j \in T : k <= j)
  BY <1>3, <1>5, LeastNumber
<1>7. Found(b, a) = mappings[b][i]
  BY <1>4, <1>5, <1>6
<1>8. i \in DOMAIN mappings[b] /\ mappings[b][i] \in MapsAt(b, a)
  BY <1>2
<1>9. MapsAt(b, a) \subseteq MapsIn(mapping, b) /\ MapsAt(b, a) \subseteq DOMAIN mapping
  BY DEF MapsAt, MapsIn
<1>10. QED
  BY <1>7, <1>8, <1>9

\* An unmap is queued for a mapping at its address; unless two threads changed
\* the list at once, for the one it finds.
LEMMA UnmapIs ==
  ASSUME TypeOK, NEW t, NEW b \in Buffers, NEW a \in Addresses, UnmapMemObject(t, b, a)
  PROVE  \E m \in DOMAIN mapping :
           /\ queue' = Append(queue, MapCommand("unmap", b, m))
           /\ m \in MapsAt(b, a) /\ m \in MapsIn(mapping, b)
           /\ b \notin torn => m \in ToSet(mappings[b])
<1>1. PICK m \in Finds(b, a) : queue' = Append(queue, MapCommand("unmap", b, m))
  BY DEF UnmapMemObject, MapCommand
<1>2. MapsAt(b, a) \subseteq MapsIn(mapping, b) /\ MapsAt(b, a) \subseteq DOMAIN mapping
  BY DEF MapsAt, MapsIn
<1>3. CASE b \in torn
  BY <1>1, <1>2, <1>3 DEF Finds
<1>4. CASE b \notin torn
  <2>1. m = Found(b, a) /\ Found(b, a) # 0
    BY <1>1, <1>4 DEF Finds
  <2>2. QED
    BY <1>1, <2>1, FoundIs DEF ToSet
<1>5. QED
  BY <1>3, <1>4

\* There are no more mappings at an address than there are mappings.
LEMMA MapsAtCount ==
  ASSUME TypeOK, MadeOK, NEW b, NEW a
  PROVE  /\ IsFiniteSet(MapsAt(b, a)) /\ Cardinality(MapsAt(b, a)) \in Nat
         /\ Cardinality(MapsAt(b, a)) <= MaxMaps
<1>1. PICK n \in Nat : n = Len(mapping) /\ DOMAIN mapping = 1..n /\ n <= MaxMaps
  BY TypeParts, MappingPlaces DEF MadeOK
<1>2. PICK z \in Int : z = 1
  OBVIOUS
<1>3. PICK D : D = z..n
  OBVIOUS
<1>4. IsFiniteSet(D) /\ Cardinality(D) = IF z > n THEN 0 ELSE n - z + 1
  BY <1>3, FS_Interval
<1>5. PICK M \in SUBSET D : M = MapsAt(b, a)
  BY <1>1, <1>2, <1>3 DEF MapsAt
<1>6. IsFiniteSet(M) /\ Cardinality(M) <= Cardinality(D) /\ Cardinality(M) \in Nat
  BY <1>4, FS_Subset, FS_CardinalityType
<1>7. Cardinality(D) = n
  BY <1>2, <1>4
<1>8. QED
  BY <1>1, <1>5, <1>6, <1>7, ObjectsAssumption

\* A mapping is appended.
LEMMA MappingAppended ==
  ASSUME NEW mp \in Seq(Maps), NEW m \in Maps
  PROVE  /\ Append(mp, m) \in Seq(Maps) /\ Len(Append(mp, m)) = Len(mp) + 1
         /\ DOMAIN mp \subseteq DOMAIN Append(mp, m) /\ Len(mp) + 1 \in DOMAIN Append(mp, m)
         /\ Len(mp) + 1 \notin DOMAIN mp /\ DOMAIN Append(mp, m) = DOMAIN mp \cup {Len(mp) + 1}
         /\ \A i \in DOMAIN mp : Append(mp, m)[i] = mp[i]
         /\ Append(mp, m)[Len(mp) + 1] = m
<1>1. PICK r : r = Append(mp, m)
  OBVIOUS
<1>2. PICK n \in Nat : n = Len(mp) /\ DOMAIN mp = 1..n
  BY LenProperties
<1>3. /\ r \in Seq(Maps) /\ Len(r) = n + 1 /\ r[n + 1] = m
      /\ \A i \in 1..n : r[i] = mp[i]
  BY <1>1, <1>2, AppendProperties
<1>4. DOMAIN r = 1..(n + 1)
  BY <1>3, LenProperties
<1>5. 1..n \subseteq 1..(n + 1) /\ n + 1 \in 1..(n + 1) /\ n + 1 \notin 1..n
      /\ 1..(n + 1) = 1..n \cup {n + 1}
  OBVIOUS
<1>6. QED
  BY <1>1, <1>2, <1>3, <1>4, <1>5

\* The queue is typed with more mappings.
LEMMA QueueAppended ==
  ASSUME NEW D, NEW E, D \subseteq E, NEW q \in Seq(Commands(D)), NEW c \in Commands(E)
  PROVE  /\ Append(q, c) \in Seq(Commands(E))
         /\ \A i \in DOMAIN Append(q, c) : \/ i \in DOMAIN q /\ Append(q, c)[i] = q[i]
                                           \/ Append(q, c)[i] = c
<1>1. q \in Seq(Commands(E))
  BY CommandsWider
<1>2. PICK r : r = Append(q, c)
  OBVIOUS
<1>3. PICK n \in Nat : n = Len(q) /\ DOMAIN q = 1..n
  BY <1>1, LenProperties
<1>4. /\ r \in Seq(Commands(E)) /\ Len(r) = n + 1 /\ r[n + 1] = c
      /\ \A i \in 1..n : r[i] = q[i]
  BY <1>1, <1>2, <1>3, AppendProperties
<1>5. DOMAIN r = 1..(n + 1)
  BY <1>4, LenProperties
<1>6. \A i \in 1..(n + 1) : i \in 1..n \/ i = n + 1
  OBVIOUS
<1>7. QED
  BY <1>2, <1>3, <1>4, <1>5, <1>6

\* Mappings that are kept keep their places.
LEMMA MapsInKept ==
  ASSUME NEW mp, NEW mq, DOMAIN mp \subseteq DOMAIN mq, \A i \in DOMAIN mp : mq[i] = mp[i], NEW b
  PROVE  MapsIn(mp, b) \subseteq MapsIn(mq, b)
BY DEF MapsIn

-----------------------------------------------------------------------------
\* Enqueueing.  A queued command names a kernel that is held, and a map or an
\* unmap a mapping of its buffer.
CommandOK(c, mp) ==
  /\ c.kernel # Null => held[c.kernel] > 0
  /\ c.kind # "use" => /\ c.buffers \in {<<b>> : b \in Buffers} /\ c.kernel = Null
                       /\ c.map \in MapsIn(mp, c.buffers[1])
MappingKept ==
  /\ mapping' \in Seq(Maps) /\ Len(mapping') <= MaxMaps
  /\ DOMAIN mapping \subseteq DOMAIN mapping' /\ \A i \in DOMAIN mapping : mapping'[i] = mapping[i]

LEMMA EnqueueCore ==
  ASSUME CoreOK, CountsDone', NEW t \in Threads, call[t].at = "idle",
         made' = made /\ held' = held /\ parent' = parent /\ mapCount' = mapCount,
         head' = head /\ next' = next /\ call' = call /\ raced' = raced /\ corrupt' = corrupt,
         refs'.freed = refs.freed, MappingKept,
         mappings' \in [Buffers -> Seq(DOMAIN mapping')], EditsTyped', EditsOK',
         unmapped' \in [Buffers -> [Addresses -> 0..MaxMaps]],
         NEW c \in Commands(DOMAIN mapping'), CommandOK(c, mapping'),
         queue' = queue \/ queue' = Append(queue, c)
  PROVE  CoreOK'
<1>1. TypeOK /\ CountsOK /\ MadeOK /\ CallsOK /\ QueueOK
  BY DEF CoreOK
<1>2. CountsOK' /\ refs' \in Counts
  BY DEF CountsDone
<1>3. queue \in Seq(Commands(DOMAIN mapping))
  BY <1>1, TypeParts
<1>4. queue' \in Seq(Commands(DOMAIN mapping'))
  <2>1. queue \in Seq(Commands(DOMAIN mapping'))
    BY <1>3, CommandsWider DEF MappingKept
  <2>2. Append(queue, c) \in Seq(Commands(DOMAIN mapping'))
    BY <2>1, QueueAppended
  <2>3. QED
    BY <2>1, <2>2
<1>5. TypeOK'
  BY <1>1, <1>2, <1>4, TypeParts, TypePartsNext DEF MappingKept
<1>6. MadeOK'
  BY <1>1 DEF MadeOK, MappingKept
<1>7. c \in Commands(Int) /\ queue \in Seq(Commands(Int))
  <2>1. DOMAIN mapping' \subseteq Int
    BY MappingPlaces DEF MappingKept
  <2>2. c \in Commands(Int)
    BY <2>1 DEF Commands
  <2>3. QED
    BY <1>1, <2>2, StateTyped
<1>8. ASSUME NEW k \in Kernels, Unused(k) PROVE PendingIn(queue', k) = 0
  <2>1. PendingIn(queue, k) = 0
    BY <1>8 DEF Unused
  <2>2. c.kernel # k
    BY <1>8, KindsDisjoint DEF Unused, CommandOK
  <2>3. c.buffers[1] # k /\ (Len(c.buffers) = 2 => c.buffers[2] # k)
    BY <1>7, CommandParts, KindsDisjoint
  <2>4. Names(c, k) = 0
    BY <1>7, <2>2, <2>3, NamesAre DEF One
  <2>5. QED
    <3>1. PendingIn(Append(queue, c), k) = 0 + 0
      BY <1>7, <2>1, <2>4, PendingAppended
    <3>2. CASE queue' = queue
      BY <2>1, <3>2
    <3>3. CASE queue' = Append(queue, c)
      BY <3>1, <3>3
    <3>4. QED
      BY <3>2, <3>3
<1>9. CallsOK'
  <2>1. ASSUME NEW s \in Threads, s # t, Calling(s)
        PROVE  /\ call[s].kernel \notin refs'.freed /\ held'[call[s].kernel] = held[call[s].kernel]
               /\ Unused(call[s].kernel) => PendingIn(queue', call[s].kernel) = 0
    BY <1>1, <1>8, <2>1, CallsUnused
  <2>2. Spared(t)
    BY <1>1, <2>1, OthersSpared
  <2>3. OwnCall(t)
    BY DEF OwnCall
  <2>4. Creating' # {} => held'[Program] > 0
    BY <1>1, CreatingSame DEF CallsOK
  <2>5. QED
    BY <1>1, <1>2, <1>5, <2>2, <2>3, <2>4, CallsKept
<1>10. QueueOK'
  <2>1. SUFFICES ASSUME NEW i \in DOMAIN queue', queue'[i].kind # "use"
                 PROVE  /\ queue'[i].buffers \in {<<b>> : b \in Buffers} /\ queue'[i].kernel = Null
                        /\ queue'[i].map \in MapsIn(mapping', queue'[i].buffers[1])
    BY DEF QueueOK
  <2>2. CASE i \in DOMAIN queue /\ queue'[i] = queue[i]
    <3>1. \A b : MapsIn(mapping, b) \subseteq MapsIn(mapping', b)
      BY MapsInKept DEF MappingKept
    <3>2. QED
      BY <1>1, <2>1, <2>2, <3>1 DEF QueueOK
  <2>3. CASE queue'[i] = c
    BY <2>1, <2>3 DEF CommandOK
  <2>4. QED
    <3>1. CASE queue' = queue
      BY <2>1, <2>2, <3>1
    <3>2. CASE queue' = Append(queue, c)
      <4>1. (i \in DOMAIN queue /\ Append(queue, c)[i] = queue[i]) \/ Append(queue, c)[i] = c
        BY <1>3, <2>1, <3>2, QueueAppended DEF MappingKept
      <4>2. QED
        BY <2>2, <2>3, <3>2, <4>1
    <3>3. QED
      BY <3>1, <3>2
<1>11. QED
  BY <1>2, <1>5, <1>6, <1>9, <1>10 DEF CoreOK

\* A step that leaves the mappings alone.
LEMMA MappingSame ==
  ASSUME TypeOK, MadeOK, mapping' = mapping
  PROVE  MappingKept
BY TypeParts DEF MadeOK, MappingKept

LEMMA CoreEnqueueUse ==
  ASSUME CoreOK, NEW t \in Threads,
         \/ \E b \in Buffers : EnqueueUse(t, <<b>>, Null)
         \/ \E b, p \in Buffers : EnqueueUse(t, <<b, p>>, Null)
         \/ \E b \in Buffers, k \in Kernels : EnqueueUse(t, <<b>>, k)
  PROVE  CoreOK'
<1>1. TypeOK /\ CountsOK /\ MadeOK
  BY DEF CoreOK
<1>2. CountsDone'
  BY <1>1, CountsEnqueueUse
<1>3. PICK buffers, kernel :
        /\ EnqueueUse(t, buffers, kernel)
        /\ \/ \E b \in Buffers : buffers = <<b>> /\ kernel = Null
           \/ \E b, p \in Buffers : buffers = <<b, p>> /\ kernel = Null
           \/ \E b \in Buffers : buffers = <<b>> /\ kernel \in Kernels
  OBVIOUS
<1>4. /\ refs' = Retained(refs, Uses(buffers, kernel))
      /\ queue' = Append(queue, UseCommand(buffers, kernel))
      /\ kernel \in {Null} \cup {k \in Kernels : held[k] > 0}
      /\ made' = made /\ held' = held /\ parent' = parent /\ mapping' = mapping /\ mappings' = mappings
      /\ mapCount' = mapCount /\ unmapped' = unmapped /\ editVars' = editVars
      /\ head' = head /\ next' = next /\ call' = call /\ raced' = raced /\ corrupt' = corrupt
      /\ call[t].at = "idle"
  BY <1>3 DEF EnqueueUse, CanEnqueue, Idle, UseCommand, mapVars, kernelVars
<1>5. PICK c : c = UseCommand(buffers, kernel)
  OBVIOUS
<1>6. c \in Commands(DOMAIN mapping')
  BY <1>3, <1>5, CommandsMade
<1>7. c.kind = "use" /\ c.kernel = kernel
  BY <1>5 DEF UseCommand
<1>8. CommandOK(c, mapping')
  BY <1>4, <1>7 DEF CommandOK
<1>9. refs'.freed = refs.freed
  <2>1. \E b \in Objects : Uses(buffers, kernel) = <<b>> \/ \E p \in Objects : Uses(buffers, kernel) = <<b, p>>
    <3>1. CASE \E b \in Buffers : buffers = <<b>> /\ kernel = Null
      BY <3>1, KindsDisjoint DEF Uses
    <3>2. CASE \E b, p \in Buffers : buffers = <<b, p>> /\ kernel = Null
      BY <3>2, KindsDisjoint DEF Uses
    <3>3. ASSUME NEW b \in Buffers, buffers = <<b>>, kernel \in Kernels
          PROVE  \E p \in Objects : Uses(buffers, kernel) = <<b, p>>
      <4>1. Uses(buffers, kernel) = Append(<<b>>, kernel)
        BY <3>3, KindsDisjoint DEF Uses
      <4>2. Append(<<b>>, kernel) = <<b, kernel>>
        BY <3>3, KindsDisjoint, AppendedPair
      <4>3. QED
        BY <3>3, <4>1, <4>2, KindsDisjoint
    <3>4. QED
      BY <1>3, <3>1, <3>2, <3>3, KindsDisjoint
  <2>2. refs \in Counts
    BY <1>1, StateTyped
  <2>3. QED
    BY <1>4, <2>1, <2>2, RetainedOne, RetainedTwo
<1>10. MappingKept
  BY <1>1, <1>4, MappingSame
<1>11. /\ mappings' \in [Buffers -> Seq(DOMAIN mapping')] /\ EditsTyped' /\ EditsOK'
       /\ unmapped' \in [Buffers -> [Addresses -> 0..MaxMaps]]
  BY <1>1, <1>4, TypeParts, EditsAlone
<1>12. QED
  BY <1>2, <1>4, <1>5, <1>6, <1>8, <1>9, <1>10, <1>11, EnqueueCore

LEMMA CoreMap ==
  ASSUME CoreOK, NEW t \in Threads, NEW b \in Buffers, NEW a,
         \/ a \in Addresses /\ MapBuffer(t, b, a)
         \/ a = Null /\ EnqueueFails(t, b)
  PROVE  CoreOK'
<1>1. TypeOK /\ CountsOK /\ MadeOK
  BY DEF CoreOK
<1>2. CountsDone'
  BY <1>1, CountsMap
<1>3. PICK m \in Maps : m = [of |-> b, at |-> a]
  BY DEF Maps
<1>4. PICK n \in Nat : n = Len(mapping) /\ DOMAIN mapping = 1..n
  BY <1>1, TypeParts, MappingPlaces
<1>5. /\ refs' = Retained(refs, <<b>>) /\ mapping' = Append(mapping, m) /\ n < MaxMaps
      /\ made' = made /\ held' = held /\ parent' = parent
      /\ mapCount' = mapCount /\ unmapped' = unmapped /\ edit' = edit /\ miscounted' = miscounted
      /\ torn' = torn \/ torn' = torn \cup {b}
      /\ head' = head /\ next' = next /\ call' = call /\ raced' = raced /\ corrupt' = corrupt
      /\ call[t].at = "idle"
  BY <1>3, <1>4
     DEF MapBuffer, EnqueueFails, Marked, MapRetains, CanEnqueue, Idle, mapVars, editVars, kernelVars
<1>6. refs'.freed = refs.freed
  BY <1>1, <1>5, RetainedOne, StateTyped, KindsDisjoint
<1>7. /\ mapping' \in Seq(Maps) /\ Len(mapping') = n + 1 /\ DOMAIN mapping \subseteq DOMAIN mapping'
      /\ n + 1 \in DOMAIN mapping' /\ \A i \in DOMAIN mapping : mapping'[i] = mapping[i]
      /\ mapping'[n + 1] = m
  BY <1>1, <1>4, <1>5, TypeParts, MappingAppended
<1>8. MappingKept
  BY <1>5, <1>7, ObjectsAssumption DEF MappingKept
<1>9. mappings \in [Buffers -> Seq(DOMAIN mapping')]
  <2>1. mappings \in [Buffers -> Seq(DOMAIN mapping)]
    BY <1>1, TypeParts
  <2>2. \A s \in Seq(DOMAIN mapping) : s \in Seq(DOMAIN mapping')
    BY <1>7, SeqMonotonic
  <2>3. QED
    BY <2>1, <2>2
<1>10. unmapped' \in [Buffers -> [Addresses -> 0..MaxMaps]] /\ EditsTyped' /\ EditsOK'
  <2>1. torn' \subseteq Buffers /\ miscounted' \subseteq Buffers
    BY <1>1, <1>5, TypeParts DEF EditsTyped
  <2>2. \A c : MapsIn(mapping, c) \subseteq MapsIn(mapping', c)
    BY <1>7, MapsInKept
  <2>3. QED
    BY <1>1, <1>5, <2>1, <2>2, TypeParts, EditsKept
<1>11. CASE MapBuffer(t, b, a)
  <2>1. PICK c : c = MapCommand("map", b, n + 1)
    OBVIOUS
  <2>2. c \in Commands(DOMAIN mapping')
    BY <1>7, <2>1, CommandsMade
  <2>3. /\ queue' = Append(queue, c)
        /\ \/ mappings' = [mappings EXCEPT ![b] = Append(mappings[b], n + 1)]
           \/ mappings' = [mappings EXCEPT ![b] = <<>>]
    BY <1>4, <1>11, <2>1 DEF MapBuffer, MapCommand, Relists
  <2>4. n + 1 \in MapsIn(mapping', b)
    BY <1>3, <1>7 DEF MapsIn
  <2>5. CommandOK(c, mapping')
    BY <2>1, <2>4 DEF CommandOK, MapCommand
  <2>6. mappings' \in [Buffers -> Seq(DOMAIN mapping')]
    <3>1. Append(mappings[b], n + 1) \in Seq(DOMAIN mapping') /\ <<>> \in Seq(DOMAIN mapping')
      BY <1>7, <1>9, AppendProperties, EmptySeq
    <3>2. QED
      BY <1>9, <2>3, <3>1
  <2>7. QED
    BY <1>2, <1>5, <1>6, <1>8, <1>10, <2>2, <2>3, <2>5, <2>6, EnqueueCore
<1>12. CASE EnqueueFails(t, b)
  <2>1. PICK c : c = UseCommand(<<b>>, Null)
    OBVIOUS
  <2>2. c \in Commands(DOMAIN mapping')
    BY <2>1, CommandsMade
  <2>3. CommandOK(c, mapping')
    BY <2>1 DEF CommandOK, UseCommand
  <2>4. queue' = queue /\ mappings' = mappings
    BY <1>12 DEF EnqueueFails
  <2>5. QED
    BY <1>2, <1>5, <1>6, <1>8, <1>9, <1>10, <2>2, <2>3, <2>4, EnqueueCore
<1>13. QED
  BY <1>11, <1>12

LEMMA CoreUnmap ==
  ASSUME CoreOK, NEW t \in Threads, NEW b \in Buffers, NEW a \in Addresses, UnmapMemObject(t, b, a)
  PROVE  CoreOK'
<1>1. TypeOK /\ CountsOK /\ MadeOK
  BY DEF CoreOK
<1>2. /\ Cardinality(MapsAt(b, a)) > unmapped[b][a] /\ editVars' = editVars
      /\ unmapped' = [unmapped EXCEPT ![b][a] = @ + 1]
      /\ refs' = refs /\ made' = made /\ held' = held /\ parent' = parent /\ mapping' = mapping
      /\ mappings' = mappings /\ mapCount' = mapCount
      /\ head' = head /\ next' = next /\ call' = call /\ raced' = raced /\ corrupt' = corrupt
      /\ call[t].at = "idle"
  BY DEF UnmapMemObject, MapCommand, Idle, kernelVars
<1>3. PICK m \in DOMAIN mapping :
        queue' = Append(queue, MapCommand("unmap", b, m)) /\ m \in MapsIn(mapping, b)
  BY <1>1, UnmapIs
<1>4. m \in Int
  BY <1>1, TypeParts, MappingPlaces
<1>5. CountsDone'
  BY <1>1, <1>3, <1>4, CountsUnmap
<1>6. PICK c : c = MapCommand("unmap", b, m)
  OBVIOUS
<1>7. c \in Commands(DOMAIN mapping') /\ CommandOK(c, mapping')
  BY <1>2, <1>3, <1>6, CommandsMade DEF CommandOK, MapCommand
<1>8. unmapped' \in [Buffers -> [Addresses -> 0..MaxMaps]]
  <2>1. PICK f \in [Addresses -> 0..MaxMaps] : f = unmapped[b]
    BY <1>1, TypeParts
  <2>2. PICK n \in 0..MaxMaps : n = unmapped[b][a] + 1
    <3>1. unmapped[b][a] \in 0..MaxMaps
      BY <2>1
    <3>2. unmapped[b][a] + 1 <= MaxMaps
      BY <1>1, <1>2, <3>1, MapsAtCount, ObjectsAssumption
    <3>3. QED
      BY <3>1, <3>2, ObjectsAssumption
  <2>3. PICK g \in [Addresses -> 0..MaxMaps] : g = [f EXCEPT ![a] = n]
    OBVIOUS
  <2>4. unmapped' = [unmapped EXCEPT ![b] = g]
    BY <1>2, <2>1, <2>2, <2>3
  <2>5. QED
    BY <1>1, <2>4, TypeParts
<1>9. MappingKept
  BY <1>1, <1>2, MappingSame
<1>10. mappings' \in [Buffers -> Seq(DOMAIN mapping')] /\ EditsTyped' /\ EditsOK'
  BY <1>1, <1>2, TypeParts, EditsAlone
<1>11. queue' = Append(queue, c) /\ refs'.freed = refs.freed
  BY <1>2, <1>3, <1>6
<1>12. QED
  BY <1>2, <1>5, <1>7, <1>8, <1>9, <1>10, <1>11, EnqueueCore

-----------------------------------------------------------------------------
\* Steps of calls on kernels and of clFinish.  They may execute the first
\* command, and free the kernel they are about.
LEMMA UnusedTaken ==
  ASSUME TypeOK, queue # <<>>, NEW k \in Kernels, Unused(k)
  PROVE  PendingIn(Tail(queue), k) = 0 /\ Names(queue[1], k) = 0
<1>1. queue \in Seq(Commands(Int)) /\ Tail(queue) \in Seq(Commands(Int)) /\ queue[1] \in Commands(Int)
  BY StateTyped, TailParts
<1>2. PICK x, y : x = PendingIn(Tail(queue), k) /\ y = Names(queue[1], k)
  OBVIOUS
<1>3. x \in Nat
  BY <1>1, <1>2, PendingNumber
<1>4. y \in Nat
  BY <1>2 DEF Names, One
<1>5. PendingIn(queue, k) = x + y
  BY <1>1, <1>2, PendingTaken
<1>6. QED
  BY <1>2, <1>3, <1>4, <1>5 DEF Unused

QueueTaken == queue' = queue \/ (queue # <<>> /\ queue' = Tail(queue))

LEMMA QueueTakenTyped ==
  ASSUME TypeOK, QueueTaken
  PROVE  /\ queue' \in Seq(Commands(DOMAIN mapping))
         /\ \A i \in DOMAIN queue' : \E j \in DOMAIN queue : queue'[i] = queue[j]
<1>1. queue \in Seq(Commands(DOMAIN mapping))
  BY TypeParts
<1>2. CASE queue' = queue
  BY <1>1, <1>2
<1>3. CASE queue # <<>> /\ queue' = Tail(queue)
  BY <1>1, <1>3, TailParts
<1>4. QED
  BY <1>2, <1>3 DEF QueueTaken

LEMMA StepCore ==
  ASSUME CoreOK, CountsDone', NEW t \in Threads, NEW k,
         \A s \in Threads : s # t /\ Calling(s) => call[s].kernel # k,
         made' = made \/ made' = made \cup {k}, made' \subseteq Objects,
         held' \in [Objects -> 0..MaxRefs], \A x \in Objects : x # k => held'[x] = held[x],
         \A x \in Kernels : x \in refs'.freed => x \in refs.freed \/ x = k,
         parent' = parent /\ mapping' = mapping /\ unmapped' = unmapped, EditsTyped', EditsOK',
         mappings' \in [Buffers -> Seq(DOMAIN mapping)], mapCount' \in [Buffers -> Int],
         QueueTaken,
         head' \in Kernels \cup {Null}, next' \in [Kernels -> Kernels \cup {Null}],
         call' \in [Threads -> CallStates], \A s \in Threads : s # t => call'[s] = call[s],
         raced' \in BOOLEAN, corrupt' \in BOOLEAN,
         OwnCall(t), Creating' # {} => held'[Program] > 0
  PROVE  CoreOK'
<1>1. TypeOK /\ CountsOK /\ MadeOK /\ CallsOK /\ QueueOK
  BY DEF CoreOK
<1>2. CountsOK' /\ refs' \in Counts /\ refs'.freed \subseteq made'
  BY DEF CountsDone
<1>3. TypeOK'
  BY <1>1, <1>2, QueueTakenTyped, TypeParts, TypePartsNext
<1>4. MadeOK'
  <2>1. IsFiniteSet(made')
    <3>1. IsFiniteSet(made)
      BY <1>1 DEF MadeOK
    <3>2. IsFiniteSet(made \cup {k})
      BY <3>1, FS_AddElement
    <3>3. QED
      BY <3>1, <3>2
  <2>2. QED
    BY <1>1, <2>1 DEF MadeOK
<1>5. Spared(t)
  <2>1. ASSUME NEW s \in Threads, s # t, Calling(s)
        PROVE  /\ call[s].kernel \notin refs'.freed /\ held'[call[s].kernel] = held[call[s].kernel]
               /\ Unused(call[s].kernel) => PendingIn(queue', call[s].kernel) = 0
    <3>1. PICK x \in Kernels : x = call[s].kernel /\ x \notin refs.freed /\ x # k /\ Unused(x)
      BY <1>1, <2>1, CallsUnused
    <3>2. PendingIn(queue', x) = 0
      BY <1>1, <3>1, UnusedTaken DEF QueueTaken, Unused
    <3>3. QED
      BY <3>1, <3>2, KindsDisjoint
  <2>2. QED
    BY <1>1, <2>1, OthersSpared
<1>6. CallsOK'
  BY <1>1, <1>2, <1>3, <1>5, CallsKept
<1>7. QueueOK'
  <2>1. SUFFICES ASSUME NEW i \in DOMAIN queue', queue'[i].kind # "use"
                 PROVE  /\ queue'[i].buffers \in {<<b>> : b \in Buffers} /\ queue'[i].kernel = Null
                        /\ queue'[i].map \in MapsIn(mapping', queue'[i].buffers[1])
    BY DEF QueueOK
  <2>2. PICK j \in DOMAIN queue : queue'[i] = queue[j]
    BY <1>1, QueueTakenTyped
  <2>3. QED
    BY <1>1, <2>1, <2>2 DEF QueueOK
<1>8. QED
  BY <1>1, <1>2, <1>3, <1>4, <1>6, <1>7 DEF CoreOK

\* A step that finds memory freed, or no element to delete.
LEMMA CoreCorrupts ==
  ASSUME CoreOK, Corrupts
  PROVE  CoreOK'
<1>1. /\ refs' = refs /\ made' = made /\ held' = held /\ parent' = parent /\ mapping' = mapping
      /\ mappings' = mappings /\ mapCount' = mapCount /\ unmapped' = unmapped
      /\ editVars' = editVars /\ queue' = queue
      /\ head' = head /\ next' = next /\ call' = call /\ raced' = raced /\ corrupt' = TRUE
  BY DEF Corrupts, mapVars, kernelVars
<1>2. TypeOK'
  BY <1>1, EditsAlone, TypeParts, TypePartsNext DEF CoreOK
<1>3. CountsOK'
  BY <1>1, CountsNow, CountsNext, CreatingSame DEF CoreOK
<1>4. MadeOK' /\ QueueOK' /\ EditsOK'
  BY <1>1, EditsAlone DEF CoreOK, MadeOK, QueueOK
<1>5. CallsOK'
  BY <1>1 DEF CoreOK, CallsOK, Calling, Unused, Alive, Creating
<1>6. QED
  BY <1>2, <1>3, <1>4, <1>5 DEF CoreOK

\* A thread's call is set.
LEMMA CallSet ==
  ASSUME TypeOK, NEW t \in Threads, NEW v \in CallStates, call' = [call EXCEPT ![t] = v]
  PROVE  /\ call' \in [Threads -> CallStates] /\ call'[t] = v
         /\ \A s \in Threads : s # t => call'[s] = call[s]
BY TypeParts

LEMMA CoreCreateKernel ==
  ASSUME CoreOK, NEW t \in Threads, NEW k \in Kernels, CreateKernel(t, k)
  PROVE  CoreOK'
<1>1. TypeOK /\ CountsOK /\ CallsOK /\ MadeOK
  BY DEF CoreOK
<1>2. CountsDone'
  BY <1>1, CountsCreateKernel
<1>3. /\ refs' = [refs EXCEPT !.count[k] = NumDevices] /\ made' = made \cup {k} /\ k \notin made
      /\ held' = held /\ held[Program] > 0 /\ parent' = parent /\ mapping' = mapping
      /\ mappings' = mappings /\ mapCount' = mapCount /\ unmapped' = unmapped
      /\ editVars' = editVars /\ queue' = queue
      /\ head' = k /\ next' = [next EXCEPT ![k] = Null] /\ corrupt' = corrupt
      /\ call' = [call EXCEPT ![t] = [at |-> "create", kernel |-> k, link |-> head]]
      /\ raced' = (raced \/ \E s \in Threads \ {t} : call[s].at # "idle")
  BY DEF CreateKernel, CanMake, Enter, mapVars
<1>4. PICK v \in CallStates : v = [at |-> "create", kernel |-> k, link |-> head]
  BY <1>1, TypeParts DEF CallStates
<1>5. /\ call' \in [Threads -> CallStates] /\ call'[t] = v
      /\ \A s \in Threads : s # t => call'[s] = call[s]
  BY <1>1, <1>3, <1>4, CallSet
<1>6. refs'.freed = refs.freed /\ k \notin refs.freed
  BY <1>1, <1>3, StateTyped, KindsDisjoint, CountSet
<1>7. \A s \in Threads : s # t /\ Calling(s) => call[s].kernel # k
  BY <1>1, <1>3, CallsUnused
<1>8. held'[k] = 0 /\ PendingIn(queue', k) = 0
  BY <1>1, <1>3, UsedLives, KindsDisjoint
<1>9. OwnCall(t)
  BY <1>3, <1>4, <1>5, <1>6, <1>7, <1>8 DEF OwnCall, UnusedNext
<1>10. made' \subseteq Objects
  BY <1>1, <1>3, StateTyped, KindsDisjoint
<1>11. /\ held' \in [Objects -> 0..MaxRefs] /\ mappings' \in [Buffers -> Seq(DOMAIN mapping)]
       /\ mapCount' \in [Buffers -> Int] /\ head' \in Kernels \cup {Null}
       /\ next' \in [Kernels -> Kernels \cup {Null}] /\ corrupt' \in BOOLEAN
  BY <1>1, <1>3, TypeParts
<1>12. raced' \in BOOLEAN
  BY <1>1, <1>3, TypeParts
<1>13. QueueTaken /\ EditsTyped' /\ EditsOK'
  BY <1>3, EditsAlone DEF QueueTaken
<1>14. QED
  BY <1>2, <1>3, <1>5, <1>6, <1>7, <1>9, <1>10, <1>11, <1>12, <1>13, StepCore

LEMMA CoreLinkOthers ==
  ASSUME CoreOK, NEW t \in Threads, LinkOthers(t)
  PROVE  CoreOK'
<1>1. TypeOK /\ CountsOK /\ CallsOK /\ MadeOK
  BY DEF CoreOK
<1>2. CountsDone'
  BY <1>1, CountsLinkOthers
<1>3. PICK k : k = call[t].kernel
  OBVIOUS
<1>4. /\ refs' = Retained(refs, <<Program>>) /\ made' = made
      /\ held' = [held EXCEPT ![k] = 1] /\ parent' = parent /\ mapping' = mapping
      /\ mappings' = mappings /\ mapCount' = mapCount /\ unmapped' = unmapped
      /\ editVars' = editVars /\ queue' = queue
      /\ head' = head /\ next' = [next EXCEPT ![k] = call[t].link] /\ corrupt' = corrupt
      /\ call' = [call EXCEPT ![t] = NoCall] /\ raced' = raced /\ call[t].at = "create"
  BY <1>3 DEF LinkOthers, At, Leave, mapVars
<1>5. /\ call' \in [Threads -> CallStates] /\ call'[t] = NoCall
      /\ \A s \in Threads : s # t => call'[s] = call[s]
  BY <1>1, <1>4, CallSet, CallOfState
<1>6. k \in Kernels /\ \A s \in Threads : s # t /\ Calling(s) => call[s].kernel # k
  BY <1>1, <1>3, <1>4 DEF CallsOK, Calling
<1>7. refs'.freed = refs.freed
  BY <1>1, <1>4, StateTyped, KindsDisjoint, RetainedOne
<1>8. OwnCall(t)
  BY <1>5 DEF OwnCall, NoCall
<1>9. /\ held' \in [Objects -> 0..MaxRefs] /\ \A x \in Objects : x # k => held'[x] = held[x]
  <2>1. held \in [Objects -> 0..MaxRefs]
    BY <1>1, TypeParts
  <2>2. QED
    BY <1>4, <2>1, OneReference
<1>10. held'[Program] > 0
  <2>1. k \in Creating
    BY <1>3, <1>4 DEF Creating
  <2>2. held[Program] > 0
    BY <1>1, <2>1 DEF CallsOK
  <2>3. QED
    BY <1>6, <1>9, <2>2, KindsDisjoint
<1>11. /\ mappings' \in [Buffers -> Seq(DOMAIN mapping)]
       /\ mapCount' \in [Buffers -> Int] /\ head' \in Kernels \cup {Null}
       /\ corrupt' \in BOOLEAN /\ raced' \in BOOLEAN /\ made' \subseteq Objects
  BY <1>1, <1>4, TypeParts
<1>12. next' \in [Kernels -> Kernels \cup {Null}]
  BY <1>1, <1>4, TypeParts, CallOfState
<1>13. QueueTaken /\ EditsTyped' /\ EditsOK'
  BY <1>4, EditsAlone DEF QueueTaken
<1>14. \A x \in Kernels : x \in refs'.freed => x \in refs.freed \/ x = k
  BY <1>7
<1>15. QED
  BY <1>2, <1>4, <1>5, <1>6, <1>8, <1>9, <1>10, <1>11, <1>12, <1>13, <1>14, StepCore

LEMMA CoreReleaseKernel ==
  ASSUME CoreOK, NEW t \in Threads, NEW k \in Kernels, ReleaseKernel(t, k)
  PROVE  CoreOK'
<1>1. TypeOK /\ CountsOK /\ CallsOK /\ MadeOK
  BY DEF CoreOK
<1>2. CountsDone'
  BY <1>1, CountsReleaseKernel
<1>3. /\ refs' = Dropped(refs, k) /\ made' = made /\ held[k] > 0 /\ call[t].at = "idle"
      /\ held' = [held EXCEPT ![k] = @ - 1] /\ parent' = parent /\ mapping' = mapping
      /\ mappings' = mappings /\ mapCount' = mapCount /\ unmapped' = unmapped
      /\ editVars' = editVars /\ queue' = queue
      /\ head' = head /\ next' = next /\ corrupt' = corrupt
      /\ IF refs'.count[k] = 0 THEN Enter(t, "walk", k, Null) ELSE call' = call /\ raced' = raced
  BY DEF ReleaseKernel, Idle, mapVars
<1>4. PICK v \in CallStates : v = [at |-> "walk", kernel |-> k, link |-> Null]
  BY DEF CallStates
<1>5. /\ \/ call' = call
         \/ call' = [call EXCEPT ![t] = v] /\ refs'.count[k] = 0
      /\ raced' \in BOOLEAN
  BY <1>1, <1>3, <1>4, TypeParts DEF Enter
<1>6. /\ call' \in [Threads -> CallStates] /\ \A s \in Threads : s # t => call'[s] = call[s]
      /\ \/ call'[t].at = "idle"
         \/ call'[t] = v /\ refs'.count[k] = 0
  <2>1. CASE call' = call
    BY <1>1, <1>3, <2>1, TypeParts
  <2>2. CASE call' = [call EXCEPT ![t] = v] /\ refs'.count[k] = 0
    BY <1>1, <2>2, CallSet
  <2>3. QED
    BY <1>5, <2>1, <2>2
<1>7. k \in Objects /\ k \in made /\ k \notin refs.freed
  BY <1>1, <1>3, UsedLives, KindsDisjoint
<1>8. refs'.freed = refs.freed
  BY <1>1, <1>3, <1>7, StateTyped, DroppedOne
<1>9. \A s \in Threads : s # t /\ Calling(s) => call[s].kernel # k
  BY <1>1, <1>3, CallsUnused DEF Unused
<1>10. OwnCall(t)
  <2>1. CASE call'[t].at = "idle"
    BY <2>1 DEF OwnCall
  <2>2. CASE call'[t] = v /\ refs'.count[k] = 0
    BY <1>3, <1>4, <1>7, <1>8, <1>9, <2>2 DEF OwnCall
  <2>3. QED
    BY <1>6, <2>1, <2>2
<1>11. /\ held' \in [Objects -> 0..MaxRefs] /\ \A x \in Objects : x # k => held'[x] = held[x]
  <2>1. held \in [Objects -> 0..MaxRefs]
    BY <1>1, TypeParts
  <2>2. held[k] - 1 \in 0..MaxRefs
    BY <1>3, <1>7, <2>1, OneReference
  <2>3. QED
    BY <1>3, <2>1, <2>2
<1>12. Creating' # {} => held'[Program] > 0
  <2>1. Creating' = Creating
    <3>1. CASE call' = call
      BY <3>1, CreatingSame
    <3>2. CASE call' = [call EXCEPT ![t] = v]
      <4>1. v.at # "create"
        BY <1>4
      <4>2. QED
        BY <1>1, <1>3, <3>2, <4>1, CreatingNow
    <3>3. QED
      BY <1>5, <3>1, <3>2
  <2>2. held'[Program] = held[Program]
    BY <1>11, KindsDisjoint
  <2>3. QED
    BY <1>1, <2>1, <2>2 DEF CallsOK
<1>13. /\ mappings' \in [Buffers -> Seq(DOMAIN mapping)] /\ mapCount' \in [Buffers -> Int]
       /\ head' \in Kernels \cup {Null} /\ next' \in [Kernels -> Kernels \cup {Null}]
       /\ corrupt' \in BOOLEAN /\ made' \subseteq Objects
  BY <1>1, <1>3, TypeParts
<1>14. QueueTaken /\ EditsTyped' /\ EditsOK'
  BY <1>3, EditsAlone DEF QueueTaken
<1>15. \A x \in Kernels : x \in refs'.freed => x \in refs.freed \/ x = k
  BY <1>8
<1>16. QED
  BY <1>2, <1>3, <1>5, <1>6, <1>9, <1>10, <1>11, <1>12, <1>13, <1>14, <1>15, StepCore

\* The program's list is of kernels.
LEMMA LinkIs ==
  ASSUME TypeOK, NEW p \in Kernels \cup {Null}
  PROVE  Link(p) \in Kernels \cup {Null} /\ (p # Null => Link(p) = next[p])
BY TypeParts DEF Link

LEMMA CoreWalk ==
  ASSUME CoreOK, NEW t \in Threads, Walk(t)
  PROVE  CoreOK'
<1>1. TypeOK /\ CountsOK /\ CallsOK /\ MadeOK
  BY DEF CoreOK
<1>2. CASE Corrupts
  BY <1>2, CoreCorrupts
<1>3. CASE ~Corrupts
  <2>1. CountsDone'
    BY <1>1, CountsWalk
  <2>2. PICK k : k = call[t].kernel
    OBVIOUS
  <2>3. /\ refs' = refs /\ made' = made /\ call[t].at = "walk"
        /\ held' = held /\ parent' = parent /\ mapping' = mapping
        /\ mappings' = mappings /\ mapCount' = mapCount /\ unmapped' = unmapped
        /\ editVars' = editVars /\ queue' = queue
        /\ head' = head /\ next' = next /\ corrupt' = corrupt
    BY <1>3 DEF Walk, At, mapVars
  <2>4. \/ Enter(t, "unlink", k, call[t].link)
        \/ Leave(t)
        \/ Enter(t, "walk", k, Link(call[t].link))
    BY <1>3, <2>2 DEF Walk
  <2>5. call[t].link \in Kernels \cup {Null} /\ Link(call[t].link) \in Kernels \cup {Null}
    BY <1>1, CallOfState, LinkIs
  <2>6. k \in Kernels /\ k \in made /\ k \notin refs.freed /\ refs.count[k] = 0
    BY <1>1, <2>2, <2>3, CallsUnused DEF CallsOK, Calling
  <2>7. PICK v \in CallStates :
          call' = [call EXCEPT ![t] = v] /\ v.at # "create" /\ (v.at # "idle" => v.kernel = k)
    <3>1. CASE Leave(t)
      BY <1>1, <3>1, CallOfState DEF Leave, NoCall
    <3>2. CASE Enter(t, "unlink", k, call[t].link) \/ Enter(t, "walk", k, Link(call[t].link))
      <4>1. PICK s \in {"walk", "unlink"}, l \in Kernels \cup {Null} : Enter(t, s, k, l)
        BY <2>5, <3>2
      <4>2. PICK v \in CallStates : v = [at |-> s, kernel |-> k, link |-> l]
        BY <2>6 DEF CallStates
      <4>3. call' = [call EXCEPT ![t] = v]
        BY <4>1, <4>2 DEF Enter
      <4>4. v.at # "create" /\ v.kernel = k
        BY <4>2
      <4>5. QED
        BY <4>3, <4>4
    <3>3. QED
      BY <2>4, <3>1, <3>2
  <2>8. /\ call' \in [Threads -> CallStates] /\ call'[t] = v
        /\ \A s \in Threads : s # t => call'[s] = call[s]
    BY <1>1, <2>7, CallSet
  <2>9. raced' \in BOOLEAN
    BY <1>1, <2>4, TypeParts DEF Enter, Leave
  <2>10. \A s \in Threads : s # t /\ Calling(s) => call[s].kernel # k
    BY <1>1, <2>2, <2>3 DEF CallsOK, Calling
  <2>11. OwnCall(t)
    BY <2>3, <2>6, <2>7, <2>8, <2>10 DEF OwnCall
  <2>12. Creating' # {} => held'[Program] > 0
    <3>1. Creating' = Creating
      BY <1>1, <2>3, <2>7, CreatingNow
    <3>2. QED
      BY <1>1, <2>3, <3>1 DEF CallsOK
  <2>13. /\ mappings' \in [Buffers -> Seq(DOMAIN mapping)] /\ mapCount' \in [Buffers -> Int]
         /\ head' \in Kernels \cup {Null} /\ next' \in [Kernels -> Kernels \cup {Null}]
         /\ corrupt' \in BOOLEAN /\ made' \subseteq Objects /\ held' \in [Objects -> 0..MaxRefs]
    BY <1>1, <2>3, TypeParts
  <2>14. QueueTaken /\ EditsTyped' /\ EditsOK'
    BY <2>3, EditsAlone DEF QueueTaken
  <2>15. /\ \A x \in Kernels : x \in refs'.freed => x \in refs.freed \/ x = k
         /\ \A x \in Objects : x # k => held'[x] = held[x]
    BY <2>3
  <2>16. QED
    BY <2>1, <2>3, <2>8, <2>9, <2>10, <2>11, <2>12, <2>13, <2>14, <2>15, StepCore
<1>4. QED
  BY <1>2, <1>3

LEMMA CoreUnlink ==
  ASSUME CoreOK, NEW t \in Threads, Unlink(t)
  PROVE  CoreOK'
<1>1. TypeOK /\ CountsOK /\ CallsOK /\ MadeOK
  BY DEF CoreOK
<1>2. CASE Corrupts
  BY <1>2, CoreCorrupts
<1>3. CASE ~Corrupts
  <2>1. CountsDone'
    BY <1>1, CountsUnlink
  <2>2. PICK k, p : k = call[t].kernel /\ p = call[t].link
    OBVIOUS
  <2>3. /\ made' = made /\ call[t].at = "unlink"
        /\ held' = held /\ parent' = parent /\ mapping' = mapping
        /\ mappings' = mappings /\ mapCount' = mapCount /\ unmapped' = unmapped
        /\ editVars' = editVars /\ queue' = queue
        /\ corrupt' = corrupt /\ call' = [call EXCEPT ![t] = NoCall] /\ raced' = raced
        /\ Link(p) # Null
        /\ head' = (IF p = Null THEN next[Link(p)] ELSE head)
        /\ next' = (IF p = Null THEN next ELSE [next EXCEPT ![p] = next[Link(p)]])
    BY <1>3, <2>2 DEF Unlink, At, Leave, mapVars
  <2>4. p \in Kernels \cup {Null} /\ Link(p) \in Kernels
    BY <1>1, <2>2, <2>3, CallOfState, LinkIs
  <2>5. next[Link(p)] \in Kernels \cup {Null}
    BY <1>1, <2>4, TypeParts
  <2>6. head' \in Kernels \cup {Null} /\ next' \in [Kernels -> Kernels \cup {Null}]
    BY <1>1, <2>3, <2>4, <2>5, TypeParts
  <2>7. /\ call' \in [Threads -> CallStates] /\ call'[t] = NoCall
        /\ \A s \in Threads : s # t => call'[s] = call[s]
    BY <1>1, <2>3, CallSet, CallOfState
  <2>8. \A s \in Threads : s # t /\ Calling(s) => call[s].kernel # k
    BY <1>1, <2>2, <2>3 DEF CallsOK, Calling
  <2>9. OwnCall(t)
    BY <2>7 DEF OwnCall, NoCall
  <2>10. Creating' # {} => held'[Program] > 0
    <3>1. PICK v : v = NoCall
      OBVIOUS
    <3>2. Creating' = Creating
      <4>1. v.at # "create"
        BY <3>1 DEF NoCall
      <4>2. QED
        BY <1>1, <2>3, <3>1, <4>1, CreatingNow
    <3>3. QED
      BY <1>1, <2>3, <3>2 DEF CallsOK
  <2>11. /\ mappings' \in [Buffers -> Seq(DOMAIN mapping)] /\ mapCount' \in [Buffers -> Int]
         /\ corrupt' \in BOOLEAN /\ raced' \in BOOLEAN
         /\ made' \subseteq Objects /\ held' \in [Objects -> 0..MaxRefs]
    BY <1>1, <2>3, TypeParts
  <2>12. QueueTaken /\ EditsTyped' /\ EditsOK'
    BY <2>3, EditsAlone DEF QueueTaken
  <2>13. \A x \in Kernels : x \in refs'.freed => x \in refs.freed \/ x = k
    <3>1. refs' = refs \/ refs'.freed \cap Kernels = (refs.freed \cap Kernels) \cup {k}
      BY <1>1, <2>2, CountsUnlink
    <3>2. QED
      BY <3>1
  <2>14. \A x \in Objects : x # k => held'[x] = held[x]
    BY <2>3
  <2>15. QED
    BY <2>1, <2>3, <2>6, <2>7, <2>8, <2>9, <2>10, <2>11, <2>12, <2>13, <2>14, StepCore
<1>4. QED
  BY <1>2, <1>3

LEMMA CoreExecuteUse ==
  ASSUME CoreOK, NEW t \in Threads, ExecuteUse(t)
  PROVE  CoreOK'
<1>1. TypeOK /\ CountsOK /\ CallsOK /\ MadeOK
  BY DEF CoreOK
<1>2. /\ CountsDone' /\ refs'.freed \cap Kernels = refs.freed \cap Kernels
  BY <1>1, CountsExecuteUse
<1>3. PICK k : k = queue[1].kernel
  OBVIOUS
<1>4. /\ queue # <<>> /\ queue[1].kind = "use" /\ call[t].at = "idle" /\ queue' = Tail(queue)
      /\ made' = made /\ held' = held /\ parent' = parent /\ mapping' = mapping
      /\ mapCount' = mapCount /\ unmapped' = unmapped /\ editVars' = editVars
      /\ head' = head /\ next' = next /\ corrupt' = corrupt
      /\ mappings' = [b \in Buffers |-> IF b \in refs'.freed THEN <<>> ELSE mappings[b]]
      /\ IF k # Null /\ refs'.count[k] = 0
         THEN Enter(t, "walk", k, Null) ELSE call' = call /\ raced' = raced
  BY <1>3 DEF ExecuteUse, Idle
<1>5. queue[1] \in Commands(Int) /\ k \in Kernels \cup {Null}
  BY <1>1, <1>3, <1>4, FirstUses, CommandParts
<1>6. PICK v \in CallStates : v = [at |-> "walk", kernel |-> k, link |-> Null]
  BY <1>5 DEF CallStates
<1>7. /\ \/ call' = call
         \/ call' = [call EXCEPT ![t] = v] /\ k # Null /\ refs'.count[k] = 0
      /\ raced' \in BOOLEAN
  <2>1. CASE k # Null /\ refs'.count[k] = 0
    BY <1>1, <1>4, <1>6, <2>1, TypeParts DEF Enter
  <2>2. CASE ~(k # Null /\ refs'.count[k] = 0)
    BY <1>1, <1>4, <2>2, TypeParts
  <2>3. QED
    BY <2>1, <2>2
<1>8. /\ call' \in [Threads -> CallStates] /\ \A s \in Threads : s # t => call'[s] = call[s]
      /\ \/ call'[t].at = "idle"
         \/ call'[t] = v /\ k # Null /\ refs'.count[k] = 0
  <2>1. CASE call' = call
    BY <1>1, <1>4, <2>1, TypeParts
  <2>2. CASE call' = [call EXCEPT ![t] = v] /\ k # Null /\ refs'.count[k] = 0
    BY <1>1, <2>2, CallSet
  <2>3. QED
    BY <1>7, <2>1, <2>2
<1>9. k # Null => k \in Kernels /\ ~Unused(k) /\ k \in made /\ k \notin refs.freed
  <2>1. SUFFICES ASSUME k # Null PROVE k \in Kernels /\ ~Unused(k) /\ k \in made /\ k \notin refs.freed
    OBVIOUS
  <2>2. k \in Kernels /\ k \in Objects
    BY <1>5, <2>1, KindsDisjoint
  <2>3. PICK i, j : i = One(queue[1].buffers[1] = k)
                    /\ j = One(Len(queue[1].buffers) = 2 /\ queue[1].buffers[2] = k)
    OBVIOUS
  <2>4. i \in Nat /\ j \in Nat
    BY <2>3 DEF One
  <2>5. One(queue[1].kernel = k) = 1
    BY <1>3 DEF One
  <2>6. Names(queue[1], k) = i + j + 1
    BY <1>4, <1>5, <2>3, <2>5, NamesAre
  <2>7. ~Unused(k)
    BY <1>1, <1>4, <2>2, <2>4, <2>6, UnusedTaken
  <2>8. UseIn(held, queue)[k] \in Nat
    BY <1>1, <2>2, StateTyped, UseValues
  <2>9. UseIn(held, queue)[k] > 0
    BY <1>1, <2>2, <2>7, <2>8, UsedLives DEF Unused
  <2>10. QED
    BY <1>1, <2>2, <2>7, <2>9, UsedLives
<1>10. \A s \in Threads : s # t /\ Calling(s) => call[s].kernel # k
  BY <1>1, <1>9, CallsUnused, KindsDisjoint
<1>11. OwnCall(t)
  <2>1. CASE call'[t].at = "idle"
    BY <2>1 DEF OwnCall
  <2>2. CASE call'[t] = v /\ k # Null /\ refs'.count[k] = 0
    <3>1. k \notin refs'.freed
      BY <1>2, <1>9, <2>2
    <3>2. v.at = "walk" /\ v.kernel = k
      BY <1>6
    <3>3. QED
      BY <1>4, <1>9, <1>10, <2>2, <3>1, <3>2 DEF OwnCall
  <2>3. QED
    BY <1>8, <2>1, <2>2
<1>12. Creating' # {} => held'[Program] > 0
  <2>1. Creating' = Creating
    <3>1. CASE call' = call
      BY <3>1, CreatingSame
    <3>2. CASE call' = [call EXCEPT ![t] = v]
      <4>1. v.at # "create"
        BY <1>6
      <4>2. QED
        BY <1>1, <1>4, <3>2, <4>1, CreatingNow
    <3>3. QED
      BY <1>7, <3>1, <3>2
  <2>2. QED
    BY <1>1, <1>4, <2>1 DEF CallsOK
<1>13. mappings' \in [Buffers -> Seq(DOMAIN mapping)]
  <2>1. <<>> \in Seq(DOMAIN mapping) /\ \A b \in Buffers : mappings[b] \in Seq(DOMAIN mapping)
    BY <1>1, TypeParts, EmptySeq
  <2>2. QED
    BY <1>4, <2>1
<1>14. /\ mapCount' \in [Buffers -> Int]
       /\ head' \in Kernels \cup {Null} /\ next' \in [Kernels -> Kernels \cup {Null}]
       /\ corrupt' \in BOOLEAN /\ made' \subseteq Objects /\ held' \in [Objects -> 0..MaxRefs]
  BY <1>1, <1>4, TypeParts
<1>15. QueueTaken /\ EditsTyped' /\ EditsOK'
  BY <1>4, EditsAlone DEF QueueTaken
<1>16. /\ \A x \in Kernels : x \in refs'.freed => x \in refs.freed \/ x = k
       /\ \A x \in Objects : x # k => held'[x] = held[x]
  BY <1>2, <1>4
<1>17. QED
  BY <1>2, <1>4, <1>7, <1>8, <1>10, <1>11, <1>12, <1>13, <1>14, <1>15, <1>16, StepCore

\* A mapping is taken from the list.
LEMMA Removed ==
  ASSUME NEW S, NEW s \in Seq(S), NEW m \in ToSet(s)
  PROVE  /\ Place(s, m) \in 1..Len(s) /\ s[Place(s, m)] = m
         /\ RemoveAt(s, Place(s, m)) \in Seq(S) /\ Len(RemoveAt(s, Place(s, m))) = Len(s) - 1
         /\ \A j \in 1..(Len(s) - 1) :
              RemoveAt(s, Place(s, m))[j] = IF j < Place(s, m) THEN s[j] ELSE s[j + 1]
<1>1. PICK n \in Nat : n = Len(s) /\ DOMAIN s = 1..n
  BY LenProperties
<1>2. \E i \in DOMAIN s : s[i] = m
  BY DEF ToSet
<1>3. PICK p \in 1..n : p = Place(s, m) /\ s[p] = m
  BY <1>1, <1>2 DEF Place
<1>4. \A i \in 1..n : s[i] \in S
  BY <1>1, ElementOfSeq
<1>5. PICK a, b : a = SubSeq(s, 1, p - 1) /\ b = SubSeq(s, p + 1, n)
  OBVIOUS
<1>6. /\ a \in Seq(S) /\ Len(a) = p - 1 /\ \A j \in 1..(p - 1) : a[j] = s[j]
  <2>1. PICK x \in Int, y \in Int : x = 1 /\ y = p - 1
    OBVIOUS
  <2>2. \A i \in x..y : s[i] \in S
    BY <1>4, <2>1
  <2>3. /\ SubSeq(s, x, y) \in Seq(S) /\ Len(SubSeq(s, x, y)) = IF x <= y THEN y - x + 1 ELSE 0
        /\ \A i \in 1..(y - x + 1) : SubSeq(s, x, y)[i] = s[x + i - 1]
    BY <2>2, SubSeqProperties
  <2>4. a = SubSeq(s, x, y)
    BY <1>5, <2>1
  <2>5. /\ (IF x <= y THEN y - x + 1 ELSE 0) = p - 1 /\ y - x + 1 = p - 1
        /\ \A j \in 1..(p - 1) : x + j - 1 = j
    BY <2>1
  <2>6. QED
    BY <2>3, <2>4, <2>5
<1>7. /\ b \in Seq(S) /\ Len(b) = n - p /\ \A j \in 1..(n - p) : b[j] = s[p + j]
  <2>1. PICK x \in Int : x = p + 1
    OBVIOUS
  <2>2. \A i \in x..n : s[i] \in S
    BY <1>4, <2>1
  <2>3. /\ SubSeq(s, x, n) \in Seq(S) /\ Len(SubSeq(s, x, n)) = IF x <= n THEN n - x + 1 ELSE 0
        /\ \A i \in 1..(n - x + 1) : SubSeq(s, x, n)[i] = s[x + i - 1]
    BY <2>2, SubSeqProperties
  <2>4. b = SubSeq(s, x, n)
    BY <1>5, <2>1
  <2>5. /\ (IF x <= n THEN n - x + 1 ELSE 0) = n - p /\ n - x + 1 = n - p
        /\ \A j \in 1..(n - p) : x + j - 1 = p + j
    BY <2>1
  <2>6. QED
    BY <2>3, <2>4, <2>5
<1>8. PICK r : r = a \o b
  OBVIOUS
<1>9. /\ r \in Seq(S) /\ Len(r) = (p - 1) + (n - p)
      /\ \A i \in 1..((p - 1) + (n - p)) : r[i] = IF i <= p - 1 THEN a[i] ELSE b[i - (p - 1)]
  <2>1. /\ r \in Seq(S) /\ Len(r) = Len(a) + Len(b)
        /\ \A i \in 1..(Len(a) + Len(b)) : r[i] = IF i <= Len(a) THEN a[i] ELSE b[i - Len(a)]
    BY <1>6, <1>7, <1>8, ConcatProperties
  <2>2. Len(a) = p - 1 /\ Len(b) = n - p
    BY <1>6, <1>7
  <2>3. QED
    BY <2>1, <2>2
<1>10. (p - 1) + (n - p) = n - 1
  OBVIOUS
<1>11. r = RemoveAt(s, p)
  BY <1>1, <1>5, <1>8 DEF RemoveAt
<1>12. ASSUME NEW j \in 1..(n - 1) PROVE r[j] = IF j < p THEN s[j] ELSE s[j + 1]
  <2>1. CASE j < p
    <3>1. j \in 1..(p - 1) /\ j <= p - 1
      BY <2>1
    <3>2. QED
      BY <1>6, <1>9, <1>10, <2>1, <3>1
  <2>2. CASE ~(j < p)
    <3>1. j - (p - 1) \in 1..(n - p) /\ p + (j - (p - 1)) = j + 1 /\ ~(j <= p - 1)
      BY <2>2
    <3>2. r[j] = b[j - (p - 1)]
      BY <1>9, <1>10, <3>1
    <3>3. b[j - (p - 1)] = s[p + (j - (p - 1))]
      BY <1>7, <3>1
    <3>4. QED
      BY <2>2, <3>1, <3>2, <3>3
  <2>3. QED
    BY <2>1, <2>2
<1>13. QED
  BY <1>1, <1>3, <1>9, <1>10, <1>11, <1>12

\* A thread's edit is set.
LEMMA EditSet ==
  ASSUME TypeOK, NEW t \in Threads, NEW v \in EditStates, edit' = [edit EXCEPT ![t] = v]
  PROVE  /\ edit' \in [Threads -> EditStates] /\ edit'[t] = v
         /\ \A s \in Threads : s # t => edit'[s] = edit[s]
BY TypeParts DEF EditsTyped

\* map_count is read for a buffer that was mapped.
LEMMA CountRead ==
  ASSUME CoreOK, NEW t \in Threads, NEW b \in Buffers, NEW n \in Int, ReadCount(t, b, n),
         MapsIn(mapping, b) # {}, mapping' = mapping, torn' \subseteq Buffers
  PROVE  /\ EditsTyped' /\ EditsOK' /\ miscounted \subseteq miscounted'
         /\ miscounted' = Marked(t, b, "count", miscounted)
         /\ edit'[t].at = "count" /\ edit'[t].of = b
         /\ b \notin miscounted' => edit'[t].value = mapCount[b] + n
         /\ \A s \in Threads : s # t => edit'[s] = edit[s]
<1>1. TypeOK /\ EditsOK /\ EditsTyped /\ mapCount[b] + n \in Int /\ 0 \in Int
  BY TypeParts DEF CoreOK
<1>2. PICK x \in Int : x = IF b \in miscounted' THEN 0 ELSE mapCount[b] + n
  BY <1>1
<1>3. PICK v \in EditStates : v = [at |-> "count", of |-> b, value |-> x]
  BY DEF EditStates
<1>4. edit' = [edit EXCEPT ![t] = v]
  BY <1>2, <1>3 DEF ReadCount, Edits
<1>5. /\ edit' \in [Threads -> EditStates] /\ edit'[t] = v
      /\ \A s \in Threads : s # t => edit'[s] = edit[s]
  BY <1>1, <1>4, EditSet
<1>6. /\ miscounted \subseteq miscounted' /\ miscounted' \subseteq Buffers
      /\ miscounted' = Marked(t, b, "count", miscounted)
  BY <1>1 DEF ReadCount, Marked, EditsTyped
<1>7. EditsTyped'
  BY <1>5, <1>6 DEF EditsTyped
<1>8. v.at = "count" /\ v.of = b /\ v.value = x
  BY <1>3
<1>9. EditsOK'
  BY <1>1, <1>5, <1>8 DEF EditsOK
<1>10. QED
  BY <1>2, <1>5, <1>6, <1>7, <1>8, <1>9

\* The command that is taken, a map or an unmap, is of a buffer that was mapped.
LEMMA TakenIs ==
  ASSUME CoreOK, NEW t, NEW kind \in {"map", "unmap"}, Takes(t, kind)
  PROVE  /\ queue # <<>> /\ queue' = Tail(queue) /\ queue[1].kind = kind
         /\ queue[1] \in Commands(Int) /\ 1 \in DOMAIN queue
         /\ queue[1].buffers[1] \in Buffers
         /\ queue[1].map \in MapsIn(mapping, queue[1].buffers[1])
<1>1. queue # <<>> /\ queue' = Tail(queue) /\ queue[1].kind = kind
  BY DEF Takes
<1>2. queue \in Seq(Commands(Int))
  BY StateTyped DEF CoreOK
<1>3. queue[1] \in Commands(Int) /\ 1 \in DOMAIN queue
  BY <1>1, <1>2, TailParts
<1>4. QED
  BY <1>1, <1>3, CommandParts DEF CoreOK, QueueOK

LEMMA CoreExecuteMap ==
  ASSUME CoreOK, NEW t \in Threads, ExecuteMap(t) \/ ExecuteUnmap(t)
  PROVE  CoreOK'
<1>1. TypeOK /\ CountsOK /\ CallsOK /\ MadeOK /\ EditsOK /\ EditsTyped
  BY TypeParts DEF CoreOK
<1>2. PICK kind \in {"map", "unmap"} : Takes(t, kind)
  BY DEF ExecuteMap, ExecuteUnmap
<1>3. CountsDone'
  BY <1>1, CountsExecuteMap
<1>4. /\ refs' = refs /\ made' = made /\ call[t].at = "idle"
      /\ held' = held /\ parent' = parent /\ mapping' = mapping /\ unmapped' = unmapped
      /\ mapCount' = mapCount
      /\ head' = head /\ next' = next /\ call' = call /\ raced' = raced /\ corrupt' = corrupt
  BY <1>2 DEF Takes, Idle, kernelVars
<1>5. PICK b \in Buffers : b = queue[1].buffers[1]
  BY <1>2, TakenIs
<1>6. MapsIn(mapping, b) # {} /\ queue[1].map \in Int
  BY <1>1, <1>2, <1>5, TakenIs, CommandParts
<1>7. mappings \in [Buffers -> Seq(DOMAIN mapping)] /\ mapCount \in [Buffers -> Int]
  BY <1>1, TypeParts
<1>8. mappings' \in [Buffers -> Seq(DOMAIN mapping)] /\ EditsTyped' /\ EditsOK'
  <2>1. CASE ExecuteMap(t)
    <3>1. mappings' = mappings /\ torn' = torn /\ ReadCount(t, b, 1)
      BY <1>5, <2>1 DEF ExecuteMap
    <3>2. torn' \subseteq Buffers /\ 1 \in Int
      BY <1>1, <3>1 DEF EditsTyped
    <3>3. QED
      BY <1>4, <1>6, <1>7, <3>1, <3>2, CountRead
  <2>2. CASE ExecuteUnmap(t)
    <3>1. PICK v \in EditStates : v = [at |-> "delete", of |-> b, value |-> queue[1].map]
      BY <1>6 DEF EditStates
    <3>2. /\ edit' = [edit EXCEPT ![t] = v] /\ miscounted' = miscounted
          /\ torn' = torn \/ torn' = torn \cup {b}
          /\ mappings' = [mappings EXCEPT ![b] = mappings[b]] \/ mappings' = [mappings EXCEPT ![b] = <<>>]
      BY <1>5, <2>2, <3>1 DEF ExecuteUnmap, Edits, Marked, Relists
    <3>3. /\ edit' \in [Threads -> EditStates] /\ edit'[t] = v
          /\ \A s \in Threads : s # t => edit'[s] = edit[s]
      BY <1>1, <3>2, EditSet
    <3>4. EditsTyped'
      BY <1>1, <3>2, <3>3 DEF EditsTyped
    <3>5. v.of = b
      BY <3>1
    <3>6. EditsOK'
      BY <1>1, <1>4, <1>6, <3>3, <3>5 DEF EditsOK
    <3>7. mappings' \in [Buffers -> Seq(DOMAIN mapping)]
      BY <1>7, <3>2, EmptySeq
    <3>8. QED
      BY <3>4, <3>6, <3>7
  <2>3. QED
    BY <2>1, <2>2
<1>9. OwnCall(t)
  BY <1>4 DEF OwnCall
<1>10. Creating' # {} => held'[Program] > 0
  BY <1>1, <1>4, CreatingSame DEF CallsOK
<1>11. /\ head' \in Kernels \cup {Null} /\ next' \in [Kernels -> Kernels \cup {Null}]
       /\ corrupt' \in BOOLEAN /\ made' \subseteq Objects /\ held' \in [Objects -> 0..MaxRefs]
       /\ call' \in [Threads -> CallStates] /\ raced' \in BOOLEAN /\ mapCount' \in [Buffers -> Int]
  BY <1>1, <1>4, TypeParts
<1>12. QueueTaken
  BY <1>2, TakenIs DEF QueueTaken
<1>13. PICK k : k = Null /\ \A s \in Threads : s # t /\ Calling(s) => call[s].kernel # k
  BY <1>1, CallsUnused, KindsDisjoint
<1>14. /\ \A x \in Kernels : x \in refs'.freed => x \in refs.freed \/ x = k
       /\ \A x \in Objects : x # k => held'[x] = held[x]
       /\ \A s \in Threads : s # t => call'[s] = call[s]
  BY <1>4
<1>15. QED
  BY <1>3, <1>4, <1>8, <1>9, <1>10, <1>11, <1>12, <1>13, <1>14, StepCore

\* The further steps of executing a map or an unmap.
LEMMA CoreEdits ==
  ASSUME CoreOK, NEW t \in Threads, Delete(t) \/ StoreCount(t)
  PROVE  CoreOK'
<1>1. CASE Corrupts
  BY <1>1, CoreCorrupts
<1>2. CASE ~Corrupts
  <2>1. TypeOK /\ EditsOK /\ EditsTyped
    BY TypeParts DEF CoreOK
  <2>2. /\ refs' = refs /\ made' = made /\ held' = held /\ parent' = parent /\ mapping' = mapping
        /\ unmapped' = unmapped /\ queue' = queue /\ torn' = torn
        /\ head' = head /\ next' = next /\ call' = call /\ raced' = raced /\ corrupt' = corrupt
    BY <1>2 DEF Delete, StoreCount, kernelVars
  <2>3. PICK b \in Buffers : b = edit[t].of /\ MapsIn(mapping, b) # {}
    BY <2>1 DEF Delete, StoreCount, EditsOK
  <2>4. mappings \in [Buffers -> Seq(DOMAIN mapping)] /\ mapCount \in [Buffers -> Int]
    BY <2>1, TypeParts
  <2>5. /\ mappings' \in [Buffers -> Seq(DOMAIN mapping)] /\ mapCount' \in [Buffers -> Int]
        /\ EditsTyped' /\ EditsOK'
    <3>1. CASE Delete(t)
      <4>1. PICK m : m = edit[t].value
        OBVIOUS
      <4>2. /\ b \in torn \/ m \in ToSet(mappings[b])
            /\ mappings' = [mappings EXCEPT ![b] =
                              IF b \in torn THEN <<>> ELSE RemoveAt(mappings[b], Place(mappings[b], m))]
            /\ ReadCount(t, b, -1) /\ mapCount' = mapCount
        BY <1>2, <2>3, <3>1, <4>1 DEF Delete, Relists
      <4>3. b \notin torn => RemoveAt(mappings[b], Place(mappings[b], m)) \in Seq(DOMAIN mapping)
        BY <2>4, <4>2, Removed
      <4>4. mappings' \in [Buffers -> Seq(DOMAIN mapping)]
        BY <2>4, <4>2, <4>3, EmptySeq
      <4>5. torn' \subseteq Buffers /\ -1 \in Int
        BY <2>1, <2>2 DEF EditsTyped
      <4>6. EditsTyped' /\ EditsOK'
        BY <2>2, <2>3, <4>2, <4>5, CountRead
      <4>7. QED
        BY <2>4, <4>2, <4>4, <4>6
    <3>2. CASE StoreCount(t)
      <4>1. PICK x \in Int : x = IF b \in miscounted THEN 0 ELSE edit[t].value
        BY <2>1 DEF EditsTyped, EditStates
      <4>2. /\ mapCount' = [mapCount EXCEPT ![b] = x] /\ edit' = [edit EXCEPT ![t] = NoEdit]
            /\ mappings' = mappings /\ miscounted' = miscounted
        BY <1>2, <2>3, <3>2, <4>1 DEF StoreCount
      <4>3. NoEdit \in EditStates /\ NoEdit.at = "none"
        BY DEF NoEdit, EditStates
      <4>4. /\ edit' \in [Threads -> EditStates] /\ edit'[t] = NoEdit
            /\ \A s \in Threads : s # t => edit'[s] = edit[s]
        BY <2>1, <4>2, <4>3, EditSet
      <4>5. EditsTyped'
        BY <2>1, <2>2, <4>2, <4>4 DEF EditsTyped
      <4>6. EditsOK'
        BY <2>1, <2>2, <4>3, <4>4 DEF EditsOK
      <4>7. QED
        BY <2>4, <4>2, <4>5, <4>6
    <3>3. QED
      BY <3>1, <3>2
  <2>6. TypeOK'
    BY <2>1, <2>2, <2>5, TypeParts, TypePartsNext
  <2>7. CountsOK'
    BY <2>2, CountsNow, CountsNext, CreatingSame DEF CoreOK
  <2>8. MadeOK' /\ QueueOK'
    BY <2>2 DEF CoreOK, MadeOK, QueueOK
  <2>9. CallsOK'
    BY <2>2 DEF CoreOK, CallsOK, Calling, Unused, Alive, Creating
  <2>10. QED
    BY <2>5, <2>6, <2>7, <2>8, <2>9 DEF CoreOK
<1>3. QED
  BY <1>1, <1>2

-----------------------------------------------------------------------------
\* Every step keeps the invariant.
ClientStep(t) ==
  \/ \E o \in Objects : Retain(t, o)
  \/ \E b \in Buffers : CreateBuffer(t, b) \/ ReleaseMemObject(t, b)
  \/ \E b, p \in Buffers : CreateSubBuffer(t, b, p)
  \/ CreateProgram(t) \/ ReleaseProgram(t) \/ ReleaseContext(t)
EnqueueStep(t) ==
  \/ \E b \in Buffers : EnqueueUse(t, <<b>>, Null)
  \/ \E b, p \in Buffers : EnqueueUse(t, <<b, p>>, Null)
  \/ \E b \in Buffers, k \in Kernels : EnqueueUse(t, <<b>>, k)
  \/ \E b \in Buffers : EnqueueFails(t, b)
  \/ \E b \in Buffers, a \in Addresses : MapBuffer(t, b, a) \/ UnmapMemObject(t, b, a)
KernelStep(t) ==
  \/ \E k \in Kernels : CreateKernel(t, k) \/ ReleaseKernel(t, k)
  \/ LinkOthers(t) \/ Walk(t) \/ Unlink(t)
ExecuteStep(t) ==
  ExecuteUse(t) \/ ExecuteMap(t) \/ ExecuteUnmap(t) \/ Delete(t) \/ StoreCount(t)

LEMMA NextSteps ==
  Next => \E t \in Threads : ClientStep(t) \/ EnqueueStep(t) \/ KernelStep(t) \/ ExecuteStep(t)
BY Zenon DEF Next, ClientStep, EnqueueStep, KernelStep, ExecuteStep

LEMMA CoreNext ==
  ASSUME CoreOK, [Next]_vars
  PROVE  CoreOK'
<1>1. CASE UNCHANGED vars
  <2>1. /\ refs' = refs /\ made' = made /\ held' = held /\ parent' = parent /\ mapping' = mapping
        /\ mappings' = mappings /\ mapCount' = mapCount /\ unmapped' = unmapped
        /\ editVars' = editVars /\ queue' = queue
        /\ head' = head /\ next' = next /\ call' = call /\ raced' = raced /\ corrupt' = corrupt
    BY <1>1 DEF vars, editVars
  <2>2. TypeOK'
    BY <2>1, EditsAlone, TypeParts, TypePartsNext DEF CoreOK
  <2>3. CountsOK'
    BY <2>1, CountsNow, CountsNext, CreatingSame DEF CoreOK
  <2>4. MadeOK' /\ QueueOK' /\ EditsOK'
    BY <2>1, EditsAlone DEF CoreOK, MadeOK, QueueOK
  <2>5. CallsOK'
    BY <2>1 DEF CoreOK, CallsOK, Calling, Unused, Alive, Creating
  <2>6. QED
    BY <2>2, <2>3, <2>4, <2>5 DEF CoreOK
<1>2. ASSUME NEW t \in Threads, ClientStep(t) PROVE CoreOK'
  BY <1>2, CoreRetain, CoreCreateBuffer, CoreReleaseMemObject, CoreCreateSubBuffer,
     CoreCreateProgram, CoreReleaseProgram, CoreReleaseContext DEF ClientStep
<1>3. ASSUME NEW t \in Threads, EnqueueStep(t) PROVE CoreOK'
  BY <1>3, CoreEnqueueUse, CoreMap, CoreUnmap DEF EnqueueStep
<1>4. ASSUME NEW t \in Threads, KernelStep(t) PROVE CoreOK'
  BY <1>4, CoreCreateKernel, CoreReleaseKernel, CoreLinkOthers, CoreWalk, CoreUnlink DEF KernelStep
<1>5. ASSUME NEW t \in Threads, ExecuteStep(t) PROVE CoreOK'
  BY <1>5, CoreExecuteUse, CoreExecuteMap, CoreEdits DEF ExecuteStep
<1>6. QED
  BY <1>1, <1>2, <1>3, <1>4, <1>5, NextSteps

\* Nothing is pending in an empty queue.
LEMMA PendingEmpty == \A o : PendingIn(<<>>, o) = 0
<1>1. \A G : Hits(<<>>, G) = {}
  BY DEF Hits
<1>2. Cardinality({}) = 0
  BY FS_EmptySet
<1>3. \A G : Cardinality(Hits(<<>>, G)) = 0
  BY <1>1, <1>2
<1>4. 0 + 0 + 0 = 0
  OBVIOUS
<1>5. QED
  BY <1>3, <1>4 DEF PendingIn

LEMMA CoreInit ==
  ASSUME Init
  PROVE  CoreOK
<1>1. /\ refs = [count |-> [o \in Objects |-> IF o = Context THEN 1 ELSE 0], freed |-> {}]
      /\ made = {Context} /\ held = [o \in Objects |-> IF o = Context THEN 1 ELSE 0]
      /\ parent = [b \in Buffers |-> Null] /\ mapping = <<>> /\ queue = <<>>
      /\ call = [t \in Threads |-> NoCall]
  BY DEF Init
<1>2. TypeOK
  <2>1. 0 \in 0..MaxRefs /\ 1 \in 0..MaxRefs /\ 0 \in 0..MaxMaps
    BY ObjectsAssumption
  <2>2. refs \in Counts /\ refs.freed \subseteq made /\ made \subseteq Objects
    BY <1>1, KindsDisjoint DEF Counts
  <2>3. held \in [Objects -> 0..MaxRefs] /\ parent \in [Buffers -> Buffers \cup {Null}]
    BY <1>1, <2>1
  <2>4. mapping \in Seq(Maps) /\ queue \in Seq(Commands(DOMAIN mapping))
    BY <1>1
  <2>5. /\ mappings = [b \in Buffers |-> <<>>] /\ mapCount = [b \in Buffers |-> 0]
        /\ unmapped = [b \in Buffers |-> [a \in Addresses |-> 0]]
        /\ edit = [t \in Threads |-> NoEdit] /\ torn = {} /\ miscounted = {}
        /\ head = Null /\ next = [k \in Kernels |-> Null] /\ raced = FALSE /\ corrupt = FALSE
    BY DEF Init
  <2>6. <<>> \in Seq(DOMAIN mapping)
    OBVIOUS
  <2>7. mappings \in [Buffers -> Seq(DOMAIN mapping)] /\ mapCount \in [Buffers -> Int]
    BY <2>5, <2>6
  <2>8. unmapped \in [Buffers -> [Addresses -> 0..MaxMaps]]
    BY <2>1, <2>5
  <2>9. NoCall \in CallStates
    BY DEF NoCall, CallStates
  <2>10. call \in [Threads -> CallStates]
    BY <1>1, <2>9
  <2>11. /\ head \in Kernels \cup {Null} /\ next \in [Kernels -> Kernels \cup {Null}]
         /\ raced \in BOOLEAN /\ corrupt \in BOOLEAN
    BY <2>5
  <2>12. NoEdit \in EditStates
    BY DEF NoEdit, EditStates
  <2>13. EditsTyped
    BY <2>5, <2>12 DEF EditsTyped
  <2>14. QED
    BY <2>2, <2>3, <2>4, <2>7, <2>8, <2>10, <2>11, <2>13, TypeParts
<1>3. Creating = {}
  BY <1>1 DEF Creating, NoCall
<1>4. IsFiniteSet(made)
  BY <1>1, FS_Singleton
<1>5. CountsOK
  <2>1. PICK u : u = UseIn(held, queue)
    OBVIOUS
  <2>2. u \in [Objects -> Nat] /\ \A o \in Objects : u[o] = held[o] + 0
    <3>1. held \in [Objects -> Nat] /\ queue \in Seq(Commands(Int))
      BY <1>2, StateTyped
    <3>2. /\ UseIn(held, queue) \in [Objects -> Nat]
          /\ \A o \in Objects : UseIn(held, queue)[o] = held[o] + PendingIn(queue, o)
      BY <3>1, UseValues
    <3>3. \A o : PendingIn(queue, o) = 0
      BY <1>1, PendingEmpty
    <3>4. QED
      BY <2>1, <3>2, <3>3
  <2>3. \A o \in Objects : u[o] = IF o = Context THEN 1 ELSE 0
    BY <1>1, <2>2
  <2>4. PICK L : L = made \ refs.freed /\ L = {Context}
    BY <1>1
  <2>5. Typed(refs.count, L, u, parent, mapping, Creating)
    BY <1>1, <1>2, <1>3, <1>4, <2>2, <2>4, StateTyped, KindsDisjoint DEF Typed, Maps
  <2>6. Buffers \cap L = {} /\ Kernels \cap L = {} /\ Program \notin L /\ OfContext(L) = {}
        /\ Linked(L, Creating) = {}
    BY <2>4, KindsDisjoint DEF OfContext, Linked
  <2>7. Cardinality({}) = 0
    BY FS_EmptySet
  <2>8. refs.count[Context] = u[Context] + Cardinality(OfContext(L))
    BY <1>1, <2>3, <2>6, <2>7, KindsDisjoint
  <2>9. Exact(refs.count, L, u, parent, mapping, Creating)
    BY <2>6, <2>8 DEF Exact
  <2>10. Reached(refs.count, L, u, parent, mapping, Creating)
    <3>1. \A o \in Objects : u[o] > 0 => o \in L
      BY <2>3, <2>4
    <3>2. DOMAIN mapping = {}
      BY <1>1
    <3>3. QED
      BY <2>6, <3>1, <3>2 DEF Reached
  <2>11. QED
    BY <2>1, <2>4, <2>5, <2>9, <2>10, CountsNow DEF Sound
<1>6. MadeOK
  BY <1>1, <1>4, ObjectsAssumption DEF MadeOK
<1>7. CallsOK
  BY <1>1, <1>3 DEF CallsOK, Calling, NoCall
<1>8. QueueOK /\ EditsOK
  BY <1>1 DEF QueueOK, EditsOK, NoEdit, Init
<1>9. QED
  BY <1>2, <1>5, <1>6, <1>7, <1>8 DEF CoreOK

-----------------------------------------------------------------------------
\* The properties.  What is pending is what the queued commands name.
LEMMA PendingIsIn ==
  ASSUME TypeOK, NEW o
  PROVE  Pending(o) = PendingIn(queue, o)
<1>1. \A i \in DOMAIN queue : queue[i] \in Commands(Int)
  BY StateTyped
<1>2. PICK uses : uses = {i \in DOMAIN queue : queue[i].kind = "use"}
  OBVIOUS
<1>3. {i \in uses : queue[i].buffers[1] = o} = Hits(queue, FirstIs(o))
  BY <1>1, <1>2 DEF Hits, FirstIs
<1>4. {i \in uses : Len(queue[i].buffers) = 2 /\ queue[i].buffers[2] = o} = Hits(queue, SecondIs(o))
  BY <1>1, <1>2 DEF Hits, SecondIs
<1>5. {i \in uses : queue[i].kernel = o} = Hits(queue, KernelIs(o))
  BY <1>1, <1>2 DEF Hits, KernelIs
<1>6. QED
  BY <1>2, <1>3, <1>4, <1>5 DEF Pending, PendingIn

\* Commands name neither the program nor the context.
LEMMA PendingNone ==
  ASSUME TypeOK, NEW o \in {Program, Context}
  PROVE  PendingIn(queue, o) = 0
<1>1. \A c \in Commands(Int) : c.buffers[1] # o /\ c.kernel # o
                               /\ (Len(c.buffers) = 2 => c.buffers[2] # o)
  BY CommandParts, KindsDisjoint
<1>2. FirstIs(o) = {} /\ SecondIs(o) = {} /\ KernelIs(o) = {}
  BY <1>1 DEF FirstIs, SecondIs, KernelIs
<1>3. Hits(queue, {}) = {} /\ Cardinality({}) = 0
  BY FS_EmptySet DEF Hits
<1>4. 0 + 0 + 0 = 0
  OBVIOUS
<1>5. Cardinality(Hits(queue, FirstIs(o))) = 0 /\ Cardinality(Hits(queue, SecondIs(o))) = 0
      /\ Cardinality(Hits(queue, KernelIs(o))) = 0
  BY <1>2, <1>3
<1>6. QED
  BY <1>4, <1>5 DEF PendingIn

\* The parts of CountsOK, for the state.
LEMMA CountsParts ==
  ASSUME TypeOK, CountsOK
  PROVE  /\ Exact(refs.count, Alive, UseIn(held, queue), parent, mapping, Creating)
         /\ Reached(refs.count, Alive, UseIn(held, queue), parent, mapping, Creating)
         /\ Typed(refs.count, Alive, UseIn(held, queue), parent, mapping, Creating)
         /\ \A o : o \in Alive <=> Live(o)
         /\ \A o \in Objects : /\ UseIn(held, queue)[o] = held[o] + Pending(o)
                               /\ held[o] \in Nat /\ Pending(o) \in Nat
<1>1. \A o \in Objects : /\ UseIn(held, queue)[o] = held[o] + PendingIn(queue, o)
                         /\ held[o] \in Nat /\ PendingIn(queue, o) \in Nat
  BY StateTyped, UseValues
<1>2. \A o : Pending(o) = PendingIn(queue, o)
  BY PendingIsIn
<1>3. QED
  BY <1>1, <1>2 DEF CountsOK, Sound, Alive, Live

LEMMA CoreCounts ==
  ASSUME CoreOK
  PROVE  CountsExact
<1>1. TypeOK /\ CountsOK
  BY DEF CoreOK
<1>2. PICK L, u : L = Alive /\ u = UseIn(held, queue)
  OBVIOUS
<1>3. /\ Exact(refs.count, L, u, parent, mapping, Creating)
      /\ Typed(refs.count, L, u, parent, mapping, Creating)
      /\ \A o : o \in L <=> Live(o)
      /\ \A o \in Objects : /\ u[o] = held[o] + Pending(o)
                            /\ held[o] \in Nat /\ Pending(o) \in Nat
  BY <1>1, <1>2, CountsParts
<1>4. ASSUME NEW b \in Buffers, Live(b)
      PROVE  refs.count[b] = held[b] + Pending(b) + Cardinality({s \in Subs(b) : Live(s)})
                               + Cardinality(MapsOf(b)) + Extra(b)
  <2>1. b \in Buffers \cap L /\ b \in Objects /\ b \notin Kernels
    BY <1>3, <1>4, KindsDisjoint
  <2>2. refs.count[b] = u[b] + Cardinality(SubsIn(L, parent, b)) + Cardinality(MapsIn(mapping, b))
                          + Further(parent, b)
    BY <1>3, <2>1 DEF Exact, BufferCount
  <2>3. {s \in Subs(b) : Live(s)} = SubsIn(L, parent, b)
    BY <1>3 DEF Subs, SubsIn
  <2>4. MapsOf(b) = MapsIn(mapping, b) /\ Extra(b) = Further(parent, b)
    BY <2>1 DEF MapsOf, MapsIn, Extra, Further
  <2>5. u[b] = held[b] + Pending(b)
    BY <1>3, <2>1
  <2>6. QED
    BY <2>2, <2>3, <2>4, <2>5
<1>5. ASSUME NEW k \in Kernels, Live(k)
      PROVE  refs.count[k] = held[k] + Pending(k) + Extra(k) + (IF k \in Creating THEN 1 ELSE 0)
  <2>1. k \in Kernels \cap L /\ k \in Objects
    BY <1>3, <1>5, KindsDisjoint
  <2>2. PICK i \in Nat : i = IF k \in Creating THEN 1 ELSE 0
    OBVIOUS
  <2>3. refs.count[k] = u[k] + NumDevices - 1 + i
    BY <1>3, <2>1, <2>2 DEF Exact, KernelCount
  <2>4. Extra(k) = NumDevices - 1
    BY DEF Extra
  <2>5. u[k] = held[k] + Pending(k) /\ held[k] \in Nat /\ Pending(k) \in Nat /\ NumDevices \in Nat
    BY <1>3, <2>1, KindsDisjoint
  <2>6. refs.count[k] = held[k] + Pending(k) + (NumDevices - 1) + i
    BY <2>3, <2>5
  <2>7. QED
    BY <2>2, <2>4, <2>6
<1>6. ASSUME Live(Program)
      PROVE  refs.count[Program] = held[Program] + Cardinality({k \in Kernels : Live(k)} \ Creating)
  <2>1. refs.count[Program] = u[Program] + Cardinality(Linked(L, Creating))
    BY <1>3, <1>6 DEF Exact
  <2>2. {k \in Kernels : Live(k)} \ Creating = Linked(L, Creating)
    BY <1>3 DEF Linked
  <2>3. Pending(Program) = 0
    BY <1>1, PendingNone, PendingIsIn
  <2>4. u[Program] = held[Program]
    BY <1>3, <2>3, KindsDisjoint
  <2>5. QED
    BY <2>1, <2>2, <2>4
<1>7. ASSUME Live(Context)
      PROVE  refs.count[Context] =
               held[Context] + Cardinality({o \in {Program} \cup Buffers : Live(o)})
  <2>1. refs.count[Context] = u[Context] + Cardinality(OfContext(L))
    BY <1>3, <1>7 DEF Exact
  <2>2. {o \in {Program} \cup Buffers : Live(o)} = OfContext(L)
    BY <1>3 DEF OfContext
  <2>3. Pending(Context) = 0
    BY <1>1, PendingNone, PendingIsIn
  <2>4. u[Context] = held[Context]
    BY <1>3, <2>3, KindsDisjoint
  <2>5. QED
    BY <2>1, <2>2, <2>4
<1>8. QED
  BY <1>4, <1>5, <1>6, <1>7 DEF CountsExact

\* A queue has a place for what a queued command names.
LEMMA QueuedUsed ==
  ASSUME TypeOK, CountsOK, NEW o \in Objects, NEW i \in DOMAIN queue, queue[i].kind = "use",
         \/ queue[i].buffers[1] = o
         \/ Len(queue[i].buffers) = 2 /\ queue[i].buffers[2] = o
         \/ queue[i].kernel = o
  PROVE  Live(o)
<1>1. queue \in Seq(Commands(Int)) /\ queue[i] \in Commands(Int)
  BY StateTyped
<1>2. \A G : i \in Hits(queue, G) => Cardinality(Hits(queue, G)) > 0
  <2>1. SUFFICES ASSUME NEW G, i \in Hits(queue, G) PROVE Cardinality(Hits(queue, G)) > 0
    OBVIOUS
  <2>2. PICK H : H = Hits(queue, G) /\ IsFiniteSet(H) /\ Cardinality(H) \in Nat
    BY <1>1, HitsFinite
  <2>3. Cardinality(H) = 0 <=> H = {}
    BY <2>2, FS_EmptySet
  <2>4. QED
    BY <2>1, <2>2, <2>3
<1>3. \/ i \in Hits(queue, FirstIs(o))
      \/ i \in Hits(queue, SecondIs(o))
      \/ i \in Hits(queue, KernelIs(o))
  BY <1>1 DEF Hits, FirstIs, SecondIs, KernelIs
<1>4. PICK x, y, z : /\ x = Cardinality(Hits(queue, FirstIs(o)))
                     /\ y = Cardinality(Hits(queue, SecondIs(o)))
                     /\ z = Cardinality(Hits(queue, KernelIs(o)))
  OBVIOUS
<1>5. x \in Nat /\ y \in Nat /\ z \in Nat
  BY <1>1, <1>4, HitsFinite
<1>6. x > 0 \/ y > 0 \/ z > 0
  BY <1>2, <1>3, <1>4
<1>7. PendingIn(queue, o) = x + y + z
  BY <1>4 DEF PendingIn
<1>8. PendingIn(queue, o) > 0
  BY <1>5, <1>6, <1>7
<1>9. QED
  BY <1>8, UsedLives DEF Live

LEMMA CoreLives ==
  ASSUME CoreOK
  PROVE  NothingDangles
<1>1. TypeOK /\ CountsOK /\ QueueOK /\ EditsOK
  BY DEF CoreOK
<1>2. /\ Reached(refs.count, Alive, UseIn(held, queue), parent, mapping, Creating)
      /\ \A o : o \in Alive <=> Live(o)
  BY <1>1, CountsParts
<1>3. ASSUME NEW i \in DOMAIN queue
      PROVE  /\ \A j \in DOMAIN queue[i].buffers : Live(queue[i].buffers[j])
             /\ queue[i].kernel # Null => Live(queue[i].kernel)
  <2>1. queue[i] \in Commands(Int)
    BY <1>1, StateTyped
  <2>2. CASE queue[i].kind = "use"
    <3>1. PICK b \in Buffers : b = queue[i].buffers[1] /\ Live(b)
      BY <1>1, <2>1, <2>2, CommandParts, QueuedUsed, KindsDisjoint
    <3>2. Len(queue[i].buffers) = 2 => Live(queue[i].buffers[2])
      BY <1>1, <2>1, <2>2, CommandParts, QueuedUsed, KindsDisjoint
    <3>3. queue[i].kernel # Null => Live(queue[i].kernel)
      BY <1>1, <2>1, <2>2, CommandParts, QueuedUsed, KindsDisjoint
    <3>4. \A j \in DOMAIN queue[i].buffers : j = 1 \/ (j = 2 /\ Len(queue[i].buffers) = 2)
      BY <2>1, CommandParts
    <3>5. QED
      BY <3>1, <3>2, <3>3, <3>4
  <2>3. CASE queue[i].kind # "use"
    <3>1. PICK b \in Buffers : queue[i].buffers = <<b>>
      BY <1>1, <2>3 DEF QueueOK
    <3>2. queue[i].kernel = Null /\ queue[i].map \in MapsIn(mapping, b)
      BY <1>1, <2>3, <3>1 DEF QueueOK
    <3>3. Live(b)
      BY <1>2, <3>2 DEF Reached, MapsIn
    <3>4. QED
      BY <3>1, <3>2, <3>3
  <2>4. QED
    BY <2>2, <2>3
<1>4. ASSUME NEW b \in Buffers, Live(b) PROVE Live(Context) /\ (parent[b] = Null \/ Live(parent[b]))
  <2>1. b \in OfContext(Alive) /\ b \in Buffers \cap Alive
    BY <1>2, <1>4 DEF OfContext
  <2>2. QED
    BY <1>2, <2>1 DEF Reached
<1>5. ASSUME NEW k \in Kernels \ Creating, Live(k) PROVE Live(Program)
  <2>1. k \in Linked(Alive, Creating)
    BY <1>2, <1>5 DEF Linked
  <2>2. QED
    BY <1>2, <2>1 DEF Reached
<1>6. ASSUME Live(Program) PROVE Live(Context)
  <2>1. Program \in OfContext(Alive)
    BY <1>2, <1>6 DEF OfContext
  <2>2. QED
    BY <1>2, <2>1 DEF Reached
<1>7. ASSUME NEW t \in Threads, edit[t].at # "none" PROVE Live(edit[t].of)
  <2>1. PICK b \in Buffers : b = edit[t].of /\ MapsIn(mapping, b) # {}
    BY <1>1, <1>7 DEF EditsOK
  <2>2. Live(b)
    BY <1>2, <2>1 DEF Reached, MapsIn
  <2>3. QED
    BY <2>1, <2>2
<1>8. QED
  BY <1>3, <1>4, <1>5, <1>6, <1>7 DEF NothingDangles

LEMMA CoreDeletes ==
  ASSUME CoreOK
  PROVE  DeletedWhenDue
<1>1. TypeOK /\ CountsOK
  BY DEF CoreOK
<1>2. PICK L, u : L = Alive /\ u = UseIn(held, queue)
  OBVIOUS
<1>3. /\ Exact(refs.count, L, u, parent, mapping, Creating)
      /\ Reached(refs.count, L, u, parent, mapping, Creating)
      /\ \A o : o \in L <=> Live(o)
      /\ \A o \in Objects : /\ u[o] = held[o] + Pending(o)
                            /\ held[o] \in Nat /\ Pending(o) \in Nat
  BY <1>1, <1>2, CountsParts
<1>4. ASSUME NEW b \in Buffers \cap made, b \in refs.freed PROVE Due(b)
  <2>1. b \in Objects /\ b # Null /\ ~Live(b)
    BY <1>4, KindsDisjoint DEF Live
  <2>2. ~(u[b] > 0)
    BY <1>3, <2>1 DEF Reached
  <2>3. held[b] = 0 /\ Pending(b) = 0
    BY <1>3, <2>1, <2>2
  <2>4. \A s \in Subs(b) : ~Live(s)
    BY <1>3, <2>1 DEF Reached, Subs
  <2>5. QED
    BY <2>3, <2>4 DEF Due
<1>5. ASSUME NEW b \in Buffers \cap made, Due(b), MapsOf(b) = {}, Subs(b) = {}, Extra(b) = 0,
             b \notin refs.freed
      PROVE  FALSE
  <2>1. Live(b) /\ b \in Objects /\ b \notin Kernels /\ b \in Buffers \cap L
    BY <1>3, <1>5, KindsDisjoint DEF Live
  <2>2. refs.count[b] = u[b] + Cardinality(SubsIn(L, parent, b)) + Cardinality(MapsIn(mapping, b))
                          + Further(parent, b)
    BY <1>3, <2>1 DEF Exact, BufferCount
  <2>3. SubsIn(L, parent, b) = {} /\ MapsIn(mapping, b) = {} /\ Further(parent, b) = 0
    BY <1>5, <2>1 DEF SubsIn, Subs, MapsIn, MapsOf, Further, Extra
  <2>4. u[b] = 0 + 0
    BY <1>3, <1>5, <2>1 DEF Due
  <2>5. Cardinality({}) = 0
    BY FS_EmptySet
  <2>6. refs.count[b] = 0
    BY <2>2, <2>3, <2>4, <2>5
  <2>7. refs.count[b] >= 1
    BY <1>3, <1>5, <2>1 DEF Reached, Subs
  <2>8. QED
    BY <2>6, <2>7
<1>6. QED
  BY <1>4, <1>5 DEF DeletedWhenDue

-----------------------------------------------------------------------------
\* The invariant of the lifetime of objects: types, exact counts, and calls on
\* kernels that nobody else uses.
LEMMA CoreInvariant == Spec => []CoreOK
<1>1. Init => CoreOK
  BY CoreInit
<1>2. CoreOK /\ [Next]_vars => CoreOK'
  BY CoreNext
<1>3. QED
  BY <1>1, <1>2, PTL DEF Spec

\* The variables keep their types: the count of a mapping never exceeds the
\* mappings made, an unmap names a mapping that exists, a call on a kernel has
\* a kernel.
THEOREM ObjectsTyped == Spec => []TypeOK
<1>1. CoreOK => TypeOK
  BY DEF CoreOK
<1>2. QED
  BY <1>1, CoreInvariant, PTL

\* The count of every object (pocl_refcount) is what the client, the commands
\* and the other objects hold, and one more for each map and each further
\* device, which nothing gives back.
THEOREM CountsBalance == Spec => []CountsExact
<1>1. CoreOK => CountsExact
  BY CoreCounts
<1>2. QED
  BY <1>1, CoreInvariant, PTL

\* Nothing that was freed is used: a queued command finds its buffers and its
\* kernel, an unmap its buffer to its last step, a sub-buffer its parent, a kernel
\* its program, all their context.
THEOREM NothingFreedIsUsed == Spec => []NothingDangles
<1>1. CoreOK => NothingDangles
  BY CoreLives
<1>2. QED
  BY <1>1, CoreInvariant, PTL

\* clReleaseMemObject and clFinish delete a buffer only when the client and the
\* commands are through with it and its sub-buffers are deleted, and then they
\* do, unless it was mapped, is on two devices or had sub-buffers.
THEOREM BuffersDeletedWhenDue == Spec => []DeletedWhenDue
<1>1. CoreOK => DeletedWhenDue
  BY CoreDeletes
<1>2. QED
  BY <1>1, CoreInvariant, PTL

-----------------------------------------------------------------------------
\* The mappings of a buffer, what is counted of them and the queued unmaps.
Of(kind, b) == {c \in Commands(Int) : c.kind = kind /\ c.buffers[1] = b}

\* The list of a buffer has some of its mappings, each once.
ListIs(s, M) == ToSet(s) \subseteq M /\ \A i, j \in DOMAIN s : s[i] = s[j] => i = j
ListsOK == \A b \in Buffers : ListIs(mappings[b], MapsIn(mapping, b))

\* The threads that execute a map or an unmap of a buffer and have read map_count,
\* and those that are to delete a mapping of it.
Counting(e, b) == {t \in Threads : e[t].at = "count" /\ e[t].of = b}
Deleting(e, b) == {t \in Threads : e[t].at = "delete" /\ e[t].of = b}

\* Where the list and map_count were never changed by two threads at once, the
\* count, or what a thread is to store in it, and the maps still queued make up
\* the length of the list.
Balanced(n, s, q, b) == n + Cardinality(Hits(q, Of("map", b))) = Len(s)
NumbersOK ==
  \A b \in Buffers \ (torn \cup miscounted) :
    /\ \A t \in Counting(edit, b) : Balanced(edit[t].value, mappings[b], queue, b)
    /\ Counting(edit, b) = {} => Balanced(mapCount[b], mappings[b], queue, b)

\* Of a buffer that was mapped once at each address, each queued unmap, and the
\* thread that executes one, has a mapping of its own that is listed, at an
\* address that was unmapped.
AskedFor(m, s, mp, un) == m \in ToSet(s) /\ mp[m].at \in Addresses /\ un[mp[m].at] > 0
Asked(q, s, mp, un, b) == \A i \in Hits(q, Of("unmap", b)) : AskedFor(q[i].map, s, mp, un)
Apart(q, b) == \A i, j \in Hits(q, Of("unmap", b)) : i # j => q[i].map # q[j].map
Deletes(e, q, s, mp, un, b) ==
  /\ \A t \in Deleting(e, b) : AskedFor(e[t].value, s, mp, un)
                               /\ \A i \in Hits(q, Of("unmap", b)) : q[i].map # e[t].value
  /\ \A r, t \in Deleting(e, b) : r = t
OwnUnmaps(e, q, s, mp, un, b) ==
  Asked(q, s, mp, un, b) /\ Apart(q, b) /\ Deletes(e, q, s, mp, un, b)
UnmapsOK ==
  \A b \in Buffers \ torn :
    MappedOnce(b) => OwnUnmaps(edit, queue, mappings[b], mapping, unmapped[b], b)

MapsOK == ListsOK /\ NumbersOK /\ UnmapsOK

\* A queue whose commands of a kind are those of another, d places later.
Follows(p, q, G, d) == \A i \in Hits(p, G) : i + d \in Hits(q, G) /\ p[i] = q[i + d]

LEMMA HitsNumbers ==
  ASSUME NEW S, NEW q \in Seq(S), NEW G
  PROVE  Hits(q, G) \subseteq Nat /\ Hits(q, G) \subseteq DOMAIN q
BY LenProperties DEF Hits

LEMMA FollowsAppend ==
  ASSUME NEW S, NEW q \in Seq(S), NEW c \in S, NEW G
  PROVE  /\ \A i \in Hits(Append(q, c), G) :
              \/ i \in Hits(q, G) /\ Append(q, c)[i] = q[i]
              \/ i = Len(q) + 1 /\ Append(q, c)[i] = c /\ c \in G
         /\ c \notin G => Follows(Append(q, c), q, G, 0)
<1>1. PICK r : r = Append(q, c)
  OBVIOUS
<1>2. PICK n \in Nat : n = Len(q) /\ DOMAIN q = 1..n
  BY LenProperties
<1>3. r \in Seq(S) /\ Len(r) = n + 1 /\ r[n + 1] = c /\ \A i \in 1..n : r[i] = q[i]
  BY <1>1, <1>2, AppendProperties
<1>4. DOMAIN r = 1..(n + 1)
  BY <1>3, LenProperties
<1>5. \A i \in 1..(n + 1) : i \in 1..n \/ i = n + 1
  OBVIOUS
<1>6. \A i \in Hits(r, G) : \/ i \in Hits(q, G) /\ r[i] = q[i]
                            \/ i = n + 1 /\ r[i] = c /\ c \in G
  BY <1>2, <1>3, <1>4, <1>5 DEF Hits
<1>7. \A i \in Hits(q, G) : i + 0 = i
  BY HitsNumbers
<1>8. QED
  BY <1>1, <1>2, <1>6, <1>7 DEF Follows

LEMMA FollowsTail ==
  ASSUME NEW S, NEW q \in Seq(S), q # <<>>, NEW G
  PROVE  Follows(Tail(q), q, G, 1)
BY TailParts DEF Follows, Hits

LEMMA FollowsSame ==
  ASSUME NEW S, NEW q \in Seq(S), NEW G
  PROVE  Follows(q, q, G, 0)
BY HitsNumbers DEF Follows

LEMMA AskedFollows ==
  ASSUME NEW S, NEW T, NEW p \in Seq(S), NEW q \in Seq(T), NEW b, NEW d \in {0, 1},
         Follows(p, q, Of("unmap", b), d), Apart(q, b)
  PROVE  Apart(p, b)
<1>1. SUFFICES ASSUME NEW i \in Hits(p, Of("unmap", b)), NEW j \in Hits(p, Of("unmap", b)), i # j
               PROVE  p[i].map # p[j].map
  BY DEF Apart
<1>2. i \in Nat /\ j \in Nat
  BY HitsNumbers
<1>3. i + d # j + d
  BY <1>1, <1>2
<1>4. /\ i + d \in Hits(q, Of("unmap", b)) /\ p[i] = q[i + d]
      /\ j + d \in Hits(q, Of("unmap", b)) /\ p[j] = q[j + d]
  BY DEF Follows
<1>5. QED
  BY <1>3, <1>4 DEF Apart

\* Where the mappings grow, a buffer that is mapped once at each
\* address was.
LEMMA OnceBefore ==
  ASSUME CoreOK, CoreOK', NEW b, MappedOnce(b)',
         DOMAIN mapping \subseteq DOMAIN mapping', \A i \in DOMAIN mapping : mapping'[i] = mapping[i]
  PROVE  MappedOnce(b)
<1>1. SUFFICES ASSUME NEW a \in Addresses PROVE Cardinality(MapsAt(b, a)) < 2
  BY DEF MappedOnce
<1>2. PICK S : S = MapsAt(b, a) /\ Cardinality(S) \in Nat
  BY MapsAtCount DEF CoreOK
<1>3. PICK R : R = {m \in DOMAIN mapping' : mapping'[m] = [of |-> b, at |-> a]}
  OBVIOUS
<1>4. Cardinality(R) < 2
  BY <1>3 DEF MappedOnce, MapsAt
<1>5. S \subseteq R
  BY <1>2, <1>3 DEF MapsAt
<1>6. IsFiniteSet(R)
  <2>1. PICK n \in Nat : DOMAIN mapping' = 1..n
    BY TypePartsNext, MappingPlaces DEF CoreOK
  <2>2. IsFiniteSet(1..n)
    <3>1. PICK x \in Int, y \in Int : x = 1 /\ y = n
      OBVIOUS
    <3>2. QED
      BY <3>1, FS_Interval
  <2>3. R \subseteq 1..n
    BY <1>3, <2>1
  <2>4. QED
    BY <2>2, <2>3, FS_Subset
<1>7. Cardinality(S) <= Cardinality(R) /\ Cardinality(R) \in Nat
  BY <1>5, <1>6, FS_Subset, FS_CardinalityType
<1>8. QED
  BY <1>2, <1>4, <1>7

\* A step that unmaps nothing of a buffer and deletes no mapping of it.
LEMMA UnmapsStay ==
  ASSUME CoreOK, CoreOK', MapsOK, NEW b \in Buffers \ torn, MappedOnce(b)', NEW d \in {0, 1},
         unmapped'[b] = unmapped[b],
         DOMAIN mapping \subseteq DOMAIN mapping', \A i \in DOMAIN mapping : mapping'[i] = mapping[i],
         ToSet(mappings[b]) \subseteq ToSet(mappings'[b]), Follows(queue', queue, Of("unmap", b), d),
         \A t \in Deleting(edit', b) : t \in Deleting(edit, b) /\ edit'[t] = edit[t]
  PROVE  OwnUnmaps(edit', queue', mappings'[b], mapping', unmapped'[b], b)
<1>1. /\ queue \in Seq(Commands(Int)) /\ queue' \in Seq(Commands(Int))
  BY StateTyped, TypePartsNext, MappingPlaces, CommandsWider DEF CoreOK
<1>2. MappedOnce(b)
  BY OnceBefore
<1>3. /\ Asked(queue, mappings[b], mapping, unmapped[b], b) /\ Apart(queue, b)
      /\ Deletes(edit, queue, mappings[b], mapping, unmapped[b], b)
  BY <1>2 DEF MapsOK, UnmapsOK, OwnUnmaps
<1>4. Apart(queue', b)
  BY <1>1, <1>3, AskedFollows
<1>5. mappings[b] \in Seq(DOMAIN mapping) /\ ToSet(mappings[b]) \subseteq MapsIn(mapping, b)
  BY TypeParts DEF CoreOK, MapsOK, ListsOK, ListIs
<1>6. \A m : AskedFor(m, mappings[b], mapping, unmapped[b])
               => AskedFor(m, mappings'[b], mapping', unmapped'[b])
  BY <1>5 DEF MapsIn, AskedFor
<1>7. Asked(queue', mappings'[b], mapping', unmapped'[b], b)
  BY <1>3, <1>6 DEF Asked, Follows
<1>8. Deletes(edit', queue', mappings'[b], mapping', unmapped'[b], b)
  BY <1>3, <1>6 DEF Deletes, Follows
<1>9. QED
  BY <1>4, <1>7, <1>8 DEF OwnUnmaps

\* A step that unmaps nothing and deletes nothing.
LEMMA MapsGrow ==
  ASSUME CoreOK, CoreOK', MapsOK, NEW d \in {0, 1}, unmapped' = unmapped, torn \subseteq torn',
         DOMAIN mapping \subseteq DOMAIN mapping', \A i \in DOMAIN mapping : mapping'[i] = mapping[i],
         \A b \in Buffers \ torn' : ToSet(mappings[b]) \subseteq ToSet(mappings'[b]),
         \A b \in Buffers : Follows(queue', queue, Of("unmap", b), d),
         \A b \in Buffers : \A t \in Deleting(edit', b) : t \in Deleting(edit, b) /\ edit'[t] = edit[t]
  PROVE  UnmapsOK'
BY UnmapsStay DEF UnmapsOK

\* A step that reads and stores no count, and at which the lists grow by what is
\* queued to be mapped.
LEMMA NumbersStay ==
  ASSUME CoreOK, MapsOK, mapCount' = mapCount, torn \subseteq torn', miscounted' = miscounted,
         \A b \in Buffers : Counting(edit', b) = Counting(edit, b)
                              /\ \A t \in Counting(edit, b) : edit'[t] = edit[t],
         \A b \in Buffers \ torn' : \A n \in Int :
           Balanced(n, mappings[b], queue, b) => Balanced(n, mappings'[b], queue', b)
  PROVE  NumbersOK'
<1>1. SUFFICES ASSUME NEW b \in Buffers \ (torn' \cup miscounted')
               PROVE  /\ \A t \in Counting(edit', b) : Balanced(edit'[t].value, mappings'[b], queue', b)
                      /\ Counting(edit', b) = {} => Balanced(mapCount'[b], mappings'[b], queue', b)
  BY DEF NumbersOK
<1>2. /\ \A t \in Counting(edit, b) : Balanced(edit[t].value, mappings[b], queue, b)
      /\ Counting(edit, b) = {} => Balanced(mapCount[b], mappings[b], queue, b)
  BY DEF MapsOK, NumbersOK
<1>3. mapCount[b] \in Int /\ \A t \in Threads : edit[t].value \in Int
  BY TypeParts DEF CoreOK, EditsTyped, EditStates
<1>4. \A n \in Int : Balanced(n, mappings[b], queue, b) => Balanced(n, mappings'[b], queue', b)
  OBVIOUS
<1>5. /\ Counting(edit', b) = Counting(edit, b)
      /\ \A t \in Counting(edit, b) : t \in Threads /\ edit'[t] = edit[t]
  BY DEF Counting
<1>6. \A t \in Counting(edit, b) : Balanced(edit[t].value, mappings'[b], queue', b)
  BY <1>2, <1>3, <1>4, <1>5
<1>7. Counting(edit, b) = {} => Balanced(mapCount[b], mappings'[b], queue', b)
  BY <1>2, <1>3, <1>4
<1>8. QED
  BY <1>5, <1>6, <1>7

\* A thread that reads map_count, to store n more in it, when the list is longer
\* by n than the count and the maps still queued make up.
LEMMA NumbersRead ==
  ASSUME CoreOK, MapsOK, NEW t \in Threads, NEW b \in Buffers, NEW n \in Int, ReadCount(t, b, n),
         MapsIn(mapping, b) # {}, mapping' = mapping, torn' = torn, mapCount' = mapCount,
         edit[t].at # "count",
         \A o \in Buffers \ torn : \A x \in Int :
           Balanced(x, mappings[o], queue, o) => Balanced(IF o = b THEN x + n ELSE x, mappings'[o], queue', o)
  PROVE  NumbersOK'
<1>1. torn' \subseteq Buffers
  BY TypeParts DEF CoreOK, EditsTyped
<1>2. /\ miscounted \subseteq miscounted' /\ miscounted' = Marked(t, b, "count", miscounted)
      /\ edit'[t].at = "count" /\ edit'[t].of = b
      /\ b \notin miscounted' => edit'[t].value = mapCount[b] + n
      /\ \A s \in Threads : s # t => edit'[s] = edit[s]
  BY <1>1, CountRead
<1>3. SUFFICES ASSUME NEW o \in Buffers, o \notin torn, o \notin miscounted'
               PROVE  /\ \A s \in Counting(edit', o) : Balanced(edit'[s].value, mappings'[o], queue', o)
                      /\ Counting(edit', o) = {} => Balanced(mapCount[o], mappings'[o], queue', o)
  BY DEF NumbersOK
<1>4. /\ \A s \in Counting(edit, o) : Balanced(edit[s].value, mappings[o], queue, o)
      /\ Counting(edit, o) = {} => Balanced(mapCount[o], mappings[o], queue, o)
  BY <1>2, <1>3 DEF MapsOK, NumbersOK
<1>5. mapCount[o] \in Int /\ \A s \in Threads : edit[s].value \in Int
  BY TypeParts DEF CoreOK, EditsTyped, EditStates
<1>6. CASE o = b
  <2>1. Counting(edit, b) = {}
    BY <1>2, <1>3, <1>6 DEF Marked, Another, Counting
  <2>2. Balanced(mapCount[b] + n, mappings'[b], queue', b)
    BY <1>3, <1>4, <1>5, <1>6, <2>1
  <2>3. \A s \in Counting(edit', b) : s = t
    BY <1>2, <2>1 DEF Counting
  <2>4. t \in Counting(edit', b)
    BY <1>2 DEF Counting
  <2>5. QED
    BY <1>2, <1>3, <1>6, <2>2, <2>3, <2>4
<1>7. CASE o # b
  <2>1. Counting(edit', o) = Counting(edit, o) /\ \A s \in Counting(edit, o) : s \in Threads /\ edit'[s] = edit[s]
    BY <1>2, <1>7 DEF Counting
  <2>2. \A x \in Int : Balanced(x, mappings[o], queue, o) => Balanced(x, mappings'[o], queue', o)
    BY <1>3, <1>7
  <2>3. QED
    BY <1>4, <1>5, <2>1, <2>2
<1>8. QED
  BY <1>6, <1>7

\* A step at which the queued maps and unmaps, the mappings and the counts of
\* a buffer stay.
LEMMA MapsStay ==
  ASSUME CoreOK, CoreOK', MapsOK, NEW d \in {0, 1},
         mapping' = mapping, mapCount' = mapCount, unmapped' = unmapped, editVars' = editVars,
         \A b \in Buffers : mappings'[b] = mappings[b],
         \A b \in Buffers : Follows(queue', queue, Of("unmap", b), d),
         \A b \in Buffers : Cardinality(Hits(queue', Of("map", b))) = Cardinality(Hits(queue, Of("map", b)))
  PROVE  MapsOK'
<1>1. edit' = edit /\ torn' = torn /\ miscounted' = miscounted
  BY DEF editVars
<1>2. ListsOK'
  BY DEF MapsOK, ListsOK
<1>3. NumbersOK'
  BY <1>1, NumbersStay DEF Balanced
<1>4. UnmapsOK'
  BY <1>1, MapsGrow
<1>5. QED
  BY <1>2, <1>3, <1>4 DEF MapsOK

\* The list of a buffer that is freed is empty: a buffer that was mapped is not
\* freed.
LEMMA FreedUnmapped ==
  ASSUME CoreOK, CoreOK', ListsOK, mapping' = mapping, NEW b \in Buffers, b \in refs'.freed
  PROVE  mappings[b] = <<>>
<1>1. Reached(refs'.count, made' \ refs'.freed, UseIn(held', queue'), parent', mapping', Creating')
  BY CountsNext DEF CoreOK, Sound
<1>2. MapsIn(mapping, b) = {}
  BY <1>1 DEF Reached, MapsIn
<1>3. mappings[b] \in Seq(DOMAIN mapping)
  BY TypeParts DEF CoreOK
<1>4. ToSet(mappings[b]) = {}
  BY <1>2 DEF ListsOK, ListIs
<1>5. DOMAIN mappings[b] = {}
  BY <1>4 DEF ToSet
<1>6. Len(mappings[b]) \in Nat /\ DOMAIN mappings[b] = 1..Len(mappings[b])
  BY <1>3, LenProperties
<1>7. Len(mappings[b]) = 0
  <2>1. PICK n \in Nat : n = Len(mappings[b]) /\ DOMAIN mappings[b] = 1..n
    BY <1>6
  <2>2. 1 \notin 1..n
    BY <1>5, <2>1
  <2>3. n = 0
    BY <2>2
  <2>4. QED
    BY <2>1, <2>3
<1>8. QED
  BY <1>3, <1>7, EmptySeq

-----------------------------------------------------------------------------
\* Lists that grow and shrink.
LEMMA ListWider ==
  ASSUME NEW s, NEW M, NEW N, ListIs(s, M), M \subseteq N
  PROVE  ListIs(s, N)
BY DEF ListIs

LEMMA ListAppended ==
  ASSUME NEW S, NEW s \in Seq(S), NEW M, NEW N, ListIs(s, M),
         NEW x \in S, x \notin M, x \in N, M \subseteq N
  PROVE  ListIs(Append(s, x), N) /\ ToSet(s) \subseteq ToSet(Append(s, x))
<1>1. PICK r : r = Append(s, x)
  OBVIOUS
<1>2. PICK k \in Nat : k = Len(s) /\ DOMAIN s = 1..k
  BY LenProperties
<1>3. r \in Seq(S) /\ Len(r) = k + 1 /\ r[k + 1] = x /\ \A i \in 1..k : r[i] = s[i]
  BY <1>1, <1>2, AppendProperties
<1>4. DOMAIN r = 1..(k + 1)
  BY <1>3, LenProperties
<1>5. \A i \in 1..(k + 1) : i \in 1..k \/ i = k + 1
  OBVIOUS
<1>6. \A i \in 1..k : s[i] \in M /\ s[i] # x
  BY <1>2 DEF ListIs, ToSet
<1>7. ToSet(r) \subseteq N
  BY <1>3, <1>4, <1>5, <1>6 DEF ToSet
<1>8. ASSUME NEW i \in DOMAIN r, NEW j \in DOMAIN r, r[i] = r[j] PROVE i = j
  <2>1. CASE i \in 1..k /\ j \in 1..k
    BY <1>2, <1>3, <1>8, <2>1 DEF ListIs
  <2>2. CASE i = k + 1 /\ j \in 1..k
    BY <1>3, <1>6, <1>8, <2>2
  <2>3. CASE j = k + 1 /\ i \in 1..k
    BY <1>3, <1>6, <1>8, <2>3
  <2>4. CASE i = k + 1 /\ j = k + 1
    BY <2>4
  <2>5. QED
    BY <1>4, <1>5, <2>1, <2>2, <2>3, <2>4
<1>9. 1..k \subseteq 1..(k + 1)
  OBVIOUS
<1>10. ToSet(s) \subseteq ToSet(r)
  BY <1>2, <1>3, <1>4, <1>9 DEF ToSet
<1>11. QED
  BY <1>1, <1>7, <1>8, <1>10 DEF ListIs

LEMMA ListRemoved ==
  ASSUME NEW S, NEW s \in Seq(S), NEW M, ListIs(s, M), NEW m \in ToSet(s)
  PROVE  /\ ListIs(RemoveAt(s, Place(s, m)), M)
         /\ Len(s) \in Nat /\ Len(RemoveAt(s, Place(s, m))) = Len(s) - 1
         /\ \A x \in ToSet(s) : x # m => x \in ToSet(RemoveAt(s, Place(s, m)))
<1>1. PICK k \in Nat : k = Len(s) /\ DOMAIN s = 1..k
  BY LenProperties
<1>2. PICK r, p : r = RemoveAt(s, Place(s, m)) /\ p = Place(s, m)
  OBVIOUS
<1>3. /\ p \in 1..k /\ s[p] = m /\ r \in Seq(S) /\ Len(r) = k - 1
      /\ \A j \in 1..(k - 1) : r[j] = IF j < p THEN s[j] ELSE s[j + 1]
  BY <1>1, <1>2, Removed
<1>4. DOMAIN r = 1..(k - 1)
  BY <1>3, LenProperties
<1>5. \A j \in 1..(k - 1) : \E i \in 1..k : /\ i = IF j < p THEN j ELSE j + 1
                                           /\ r[j] = s[i]
  <2>1. SUFFICES ASSUME NEW j \in 1..(k - 1)
                 PROVE  \E i \in 1..k : i = (IF j < p THEN j ELSE j + 1) /\ r[j] = s[i]
    OBVIOUS
  <2>2. j \in 1..k /\ j + 1 \in 1..k
    OBVIOUS
  <2>3. QED
    BY <1>3, <2>2
<1>6. ToSet(r) \subseteq M
  BY <1>1, <1>4, <1>5 DEF ToSet, ListIs
<1>7. ASSUME NEW i \in DOMAIN r, NEW j \in DOMAIN r, r[i] = r[j] PROVE i = j
  <2>1. PICK x \in 1..k : x = (IF i < p THEN i ELSE i + 1) /\ r[i] = s[x]
    BY <1>4, <1>5
  <2>2. PICK y \in 1..k : y = (IF j < p THEN j ELSE j + 1) /\ r[j] = s[y]
    BY <1>4, <1>5
  <2>3. x = y
    BY <1>1, <1>7, <2>1, <2>2 DEF ListIs
  <2>4. i \in Int /\ j \in Int /\ p \in Int
    BY <1>3, <1>4
  <2>5. QED
    BY <2>1, <2>2, <2>3, <2>4
<1>8. Len(s) \in Nat /\ Len(r) = Len(s) - 1
  BY <1>1, <1>3
<1>9. ASSUME NEW x \in ToSet(s), x # m PROVE x \in ToSet(r)
  <2>1. PICK i \in 1..k : s[i] = x
    BY <1>1 DEF ToSet
  <2>2. i # p
    BY <1>3, <1>9, <2>1
  <2>3. PICK j \in Int : j = IF i < p THEN i ELSE i - 1
    OBVIOUS
  <2>4. j \in 1..(k - 1) /\ (IF j < p THEN j ELSE j + 1) = i
    BY <1>3, <2>2, <2>3
  <2>5. r[j] = s[i]
    BY <1>5, <2>4
  <2>6. QED
    BY <1>4, <2>1, <2>4, <2>5 DEF ToSet
<1>10. QED
  BY <1>2, <1>6, <1>7, <1>8, <1>9 DEF ListIs

\* Commands that are enqueued, and the command that is taken.
LEMMA HitsEnqueued ==
  ASSUME CoreOK, NEW c \in Commands(Int), queue' = Append(queue, c), NEW kind, NEW b
  PROVE  /\ Cardinality(Hits(queue, Of(kind, b))) \in Nat
         /\ Cardinality(Hits(queue', Of(kind, b)))
              = Cardinality(Hits(queue, Of(kind, b))) + One(c.kind = kind /\ c.buffers[1] = b)
         /\ (c.kind # kind \/ c.buffers[1] # b) => Follows(queue', queue, Of(kind, b), 0)
<1>1. queue \in Seq(Commands(Int))
  BY StateTyped DEF CoreOK
<1>2. c \in Of(kind, b) <=> c.kind = kind /\ c.buffers[1] = b
  BY DEF Of
<1>3. One(c.kind = kind /\ c.buffers[1] = b) = IF c \in Of(kind, b) THEN 1 ELSE 0
  BY <1>2 DEF One
<1>4. QED
  BY <1>1, <1>2, <1>3, HitsFinite, HitsAppend, FollowsAppend

LEMMA HitsTaken ==
  ASSUME CoreOK, queue # <<>>, queue' = Tail(queue), NEW kind, NEW b
  PROVE  /\ Cardinality(Hits(queue', Of(kind, b))) \in Nat
         /\ Cardinality(Hits(queue, Of(kind, b)))
              = Cardinality(Hits(queue', Of(kind, b)))
                  + One(queue[1].kind = kind /\ queue[1].buffers[1] = b)
         /\ Follows(queue', queue, Of(kind, b), 1)
<1>1. queue \in Seq(Commands(Int)) /\ queue[1] \in Commands(Int) /\ Tail(queue) \in Seq(Commands(Int))
  BY StateTyped, TailParts DEF CoreOK
<1>2. queue[1] \in Of(kind, b) <=> queue[1].kind = kind /\ queue[1].buffers[1] = b
  BY <1>1 DEF Of
<1>3. One(queue[1].kind = kind /\ queue[1].buffers[1] = b) = IF queue[1] \in Of(kind, b) THEN 1 ELSE 0
  BY <1>2 DEF One
<1>4. QED
  BY <1>1, <1>2, <1>3, HitsFinite, HitsTail, FollowsTail
-----------------------------------------------------------------------------
\* Steps at which no command is enqueued or taken.
LEMMA MapsAlone ==
  ASSUME CoreOK, CoreOK', MapsOK, queue' = queue,
         mapping' = mapping, mapCount' = mapCount, unmapped' = unmapped, editVars' = editVars,
         \A b \in Buffers : mappings'[b] = mappings[b]
  PROVE  MapsOK'
<1>1. queue \in Seq(Commands(Int))
  BY StateTyped DEF CoreOK
<1>2. \A b \in Buffers : Follows(queue', queue, Of("unmap", b), 0)
  BY <1>1, FollowsSame
<1>3. PICK d \in {0, 1} : d = 0
  OBVIOUS
<1>4. QED
  BY <1>2, <1>3, MapsStay

LEMMA MapsClient ==
  ASSUME CoreOK, CoreOK', MapsOK, NEW t \in Threads, ClientStep(t)
  PROVE  MapsOK'
<1>1. CASE \E b \in Buffers : ReleaseMemObject(t, b)
  <2>1. PICK b \in Buffers : ReleaseMemObject(t, b)
    BY <1>1
  <2>2. /\ queue' = queue /\ mapping' = mapping /\ mapCount' = mapCount /\ unmapped' = unmapped
        /\ editVars' = editVars /\ mappings' = IF b \in refs'.freed THEN [mappings EXCEPT ![b] = <<>>] ELSE mappings
    BY <2>1 DEF ReleaseMemObject, editVars
  <2>3. mappings \in [Buffers -> Seq(DOMAIN mapping)]
    BY TypeParts DEF CoreOK
  <2>4. b \in refs'.freed => mappings[b] = <<>>
    BY <2>2, FreedUnmapped DEF MapsOK
  <2>5. \A c \in Buffers : mappings'[c] = mappings[c]
    BY <2>2, <2>3, <2>4
  <2>6. QED
    BY <2>2, <2>5, MapsAlone
<1>2. CASE ~\E b \in Buffers : ReleaseMemObject(t, b)
  <2>1. /\ queue' = queue /\ mapping' = mapping /\ mapCount' = mapCount /\ unmapped' = unmapped
        /\ mappings' = mappings /\ editVars' = editVars
    BY <1>2 DEF ClientStep, Retain, CreateBuffer, CreateSubBuffer, CreateProgram, ReleaseProgram,
                ReleaseContext, mapVars, editVars
  <2>2. QED
    BY <2>1, MapsAlone
<1>3. QED
  BY <1>1, <1>2

LEMMA MapsKernel ==
  ASSUME CoreOK, CoreOK', MapsOK, NEW t \in Threads, KernelStep(t)
  PROVE  MapsOK'
<1>1. /\ queue' = queue /\ mapping' = mapping /\ mapCount' = mapCount /\ unmapped' = unmapped
      /\ mappings' = mappings /\ editVars' = editVars
  BY DEF KernelStep, CreateKernel, ReleaseKernel, LinkOthers, Walk, Unlink, Corrupts, mapVars, editVars
<1>2. QED
  BY <1>1, MapsAlone

-----------------------------------------------------------------------------
\* Enqueueing.
LEMMA MapsEnqueueUse ==
  ASSUME CoreOK, CoreOK', MapsOK, NEW t \in Threads,
         \/ \E b \in Buffers : EnqueueUse(t, <<b>>, Null)
         \/ \E b, p \in Buffers : EnqueueUse(t, <<b, p>>, Null)
         \/ \E b \in Buffers, k \in Kernels : EnqueueUse(t, <<b>>, k)
  PROVE  MapsOK'
<1>1. PICK buffers, kernel :
        /\ EnqueueUse(t, buffers, kernel)
        /\ \/ \E b \in Buffers : buffers = <<b>> /\ kernel = Null
           \/ \E b, p \in Buffers : buffers = <<b, p>> /\ kernel = Null
           \/ \E b \in Buffers : buffers = <<b>> /\ kernel \in Kernels
  OBVIOUS
<1>2. PICK c \in Commands(Int) : c = UseCommand(buffers, kernel)
  BY <1>1, CommandsMade
<1>3. /\ queue' = Append(queue, c) /\ c.kind = "use"
      /\ mapping' = mapping /\ mapCount' = mapCount /\ unmapped' = unmapped /\ mappings' = mappings
      /\ editVars' = editVars
  BY <1>1, <1>2 DEF EnqueueUse, UseCommand, mapVars, editVars
<1>4. \A b \in Buffers : Follows(queue', queue, Of("unmap", b), 0)
  BY <1>3, HitsEnqueued
<1>5. ASSUME NEW b \in Buffers
      PROVE  Cardinality(Hits(queue', Of("map", b))) = Cardinality(Hits(queue, Of("map", b)))
  <2>1. One(c.kind = "map" /\ c.buffers[1] = b) = 0
    BY <1>3 DEF One
  <2>2. PICK x \in Nat : x = Cardinality(Hits(queue, Of("map", b)))
    BY <1>3, HitsEnqueued
  <2>3. x + 0 = x
    OBVIOUS
  <2>4. QED
    BY <1>3, <2>1, <2>2, <2>3, HitsEnqueued
<1>6. PICK d \in {0, 1} : d = 0
  OBVIOUS
<1>7. QED
  BY <1>3, <1>4, <1>5, <1>6, MapsStay

LEMMA MapsMap ==
  ASSUME CoreOK, CoreOK', MapsOK, NEW t \in Threads, NEW b \in Buffers, NEW a,
         \/ a \in Addresses /\ MapBuffer(t, b, a)
         \/ a = Null /\ EnqueueFails(t, b)
  PROVE  MapsOK'
<1>1. PICK m \in Maps : m = [of |-> b, at |-> a]
  BY DEF Maps
<1>2. PICK n \in Nat : n = Len(mapping) /\ DOMAIN mapping = 1..n
  BY TypeParts, MappingPlaces DEF CoreOK
<1>3. /\ mapping' = Append(mapping, m) /\ mapCount' = mapCount /\ unmapped' = unmapped
      /\ edit' = edit /\ miscounted' = miscounted /\ torn \subseteq torn'
  BY <1>1 DEF MapBuffer, EnqueueFails, Marked, editVars
<1>4. /\ DOMAIN mapping \subseteq DOMAIN mapping' /\ n + 1 \in DOMAIN mapping' /\ n + 1 \notin DOMAIN mapping
      /\ \A i \in DOMAIN mapping : mapping'[i] = mapping[i]
      /\ mapping'[n + 1] = m
  BY <1>2, <1>3, TypeParts, MappingAppended DEF CoreOK
<1>5. \A c \in Buffers : MapsIn(mapping, c) \subseteq MapsIn(mapping', c)
  BY <1>4, MapsInKept
<1>6. \A c \in Buffers : mappings[c] \in Seq(DOMAIN mapping') /\ mappings[c] \in Seq(DOMAIN mapping)
  <2>1. mappings \in [Buffers -> Seq(DOMAIN mapping)]
    BY TypeParts DEF CoreOK
  <2>2. \A s \in Seq(DOMAIN mapping) : s \in Seq(DOMAIN mapping')
    BY <1>4, SeqMonotonic
  <2>3. QED
    BY <2>1, <2>2
<1>7. \A c \in Buffers : ListIs(mappings[c], MapsIn(mapping, c))
  BY DEF MapsOK, ListsOK
<1>8. \A c \in Buffers : \A r \in Threads : r \in Deleting(edit', c) => r \in Deleting(edit, c) /\ edit'[r] = edit[r]
  BY <1>3
<1>9. PICK d \in {0, 1} : d = 0
  OBVIOUS
<1>10. CASE MapBuffer(t, b, a)
  <2>1. PICK c \in Commands(Int) : c = MapCommand("map", b, n + 1)
    <3>1. n + 1 \in Int
      OBVIOUS
    <3>2. QED
      BY <3>1, CommandsMade
  <2>2. /\ queue' = Append(queue, c) /\ c.kind = "map" /\ c.buffers[1] = b
        /\ mappings' = [mappings EXCEPT ![b] = IF b \in torn' THEN <<>> ELSE Append(mappings[b], n + 1)]
    BY <1>2, <1>10, <2>1 DEF MapBuffer, MapCommand, Relists
  <2>3. mappings \in [Buffers -> Seq(DOMAIN mapping)]
    BY TypeParts DEF CoreOK
  <2>4. ASSUME NEW o \in Buffers
        PROVE  /\ ListIs(mappings'[o], MapsIn(mapping', o))
               /\ o \notin torn' => /\ ToSet(mappings[o]) \subseteq ToSet(mappings'[o])
                                    /\ \A x \in Int : Balanced(x, mappings[o], queue, o)
                                                        => Balanced(x, mappings'[o], queue', o)
    <3>1. PICK x \in Nat : x = Cardinality(Hits(queue, Of("map", o)))
      BY <2>2, HitsEnqueued
    <3>2. Cardinality(Hits(queue', Of("map", o))) = x + One(c.kind = "map" /\ c.buffers[1] = o)
      BY <2>2, <3>1, HitsEnqueued
    <3>3. ListIs(mappings[o], MapsIn(mapping, o))
      BY <1>7
    <3>4. CASE o = b /\ b \notin torn'
      <4>1. Cardinality(Hits(queue', Of("map", o))) = x + 1
        BY <2>2, <3>2, <3>4 DEF One
      <4>2. mappings'[o] = Append(mappings[o], n + 1)
        BY <2>2, <2>3, <3>4
      <4>3. n + 1 \notin MapsIn(mapping, o) /\ n + 1 \in MapsIn(mapping', o)
        BY <1>1, <1>4, <3>4 DEF MapsIn
      <4>4. /\ ListIs(Append(mappings[o], n + 1), MapsIn(mapping', o))
            /\ ToSet(mappings[o]) \subseteq ToSet(Append(mappings[o], n + 1))
            /\ Len(mappings[o]) \in Nat /\ Len(Append(mappings[o], n + 1)) = Len(mappings[o]) + 1
        <5>1. /\ ListIs(Append(mappings[o], n + 1), MapsIn(mapping', o))
              /\ ToSet(mappings[o]) \subseteq ToSet(Append(mappings[o], n + 1))
          BY <1>4, <1>5, <1>6, <3>3, <4>3, ListAppended
        <5>2. Len(mappings[o]) \in Nat /\ Len(Append(mappings[o], n + 1)) = Len(mappings[o]) + 1
          BY <1>4, <1>6, LenProperties, AppendProperties
        <5>3. QED
          BY <5>1, <5>2
      <4>5. ASSUME NEW y \in Int, y + x = Len(mappings[o])
            PROVE  y + (x + 1) = Len(mappings'[o])
        BY <4>2, <4>4, <4>5
      <4>6. QED
        BY <3>1, <4>1, <4>2, <4>4, <4>5 DEF Balanced
    <3>5. CASE o = b /\ b \in torn'
      <4>1. mappings'[o] = <<>>
        BY <2>2, <2>3, <3>5
      <4>2. QED
        BY <3>5, <4>1 DEF ListIs, ToSet
    <3>6. CASE o # b
      <4>1. Cardinality(Hits(queue', Of("map", o))) = x
        <5>1. One(c.kind = "map" /\ c.buffers[1] = o) = 0
          BY <2>2, <3>6 DEF One
        <5>2. x + 0 = x
          OBVIOUS
        <5>3. QED
          BY <3>2, <5>1, <5>2
      <4>2. mappings'[o] = mappings[o]
        BY <2>2, <2>3, <3>6
      <4>3. ListIs(mappings'[o], MapsIn(mapping', o))
        BY <1>5, <3>3, <4>2, ListWider
      <4>4. QED
        BY <3>1, <4>1, <4>2, <4>3 DEF Balanced
    <3>7. QED
      BY <3>4, <3>5, <3>6
  <2>5. \A o \in Buffers : Follows(queue', queue, Of("unmap", o), d)
    BY <1>9, <2>2, HitsEnqueued
  <2>6. UnmapsOK'
    BY <1>3, <1>4, <1>8, <2>4, <2>5, MapsGrow
  <2>7. NumbersOK'
    BY <1>3, <2>4, NumbersStay
  <2>8. ListsOK'
    BY <2>4 DEF ListsOK
  <2>9. QED
    BY <2>6, <2>7, <2>8 DEF MapsOK
<1>11. CASE EnqueueFails(t, b)
  <2>1. queue' = queue /\ mappings' = mappings
    BY <1>11 DEF EnqueueFails
  <2>2. \A o \in Buffers : ListIs(mappings'[o], MapsIn(mapping', o))
    BY <1>5, <1>7, <2>1, ListWider
  <2>3. ListsOK'
    BY <2>2 DEF ListsOK
  <2>4. \A o \in Buffers : Follows(queue', queue, Of("unmap", o), d)
    BY <1>9, <2>1, StateTyped, FollowsSame DEF CoreOK
  <2>5. UnmapsOK'
    BY <1>3, <1>4, <1>8, <2>1, <2>4, MapsGrow
  <2>6. NumbersOK'
    BY <1>3, <2>1, NumbersStay
  <2>7. QED
    BY <2>3, <2>5, <2>6 DEF MapsOK
<1>12. QED
  BY <1>10, <1>11

LEMMA MapsUnmap ==
  ASSUME CoreOK, CoreOK', MapsOK, NEW t \in Threads, NEW b \in Buffers, NEW a \in Addresses,
         UnmapMemObject(t, b, a)
  PROVE  MapsOK'
<1>1. /\ Cardinality(MapsAt(b, a)) > unmapped[b][a]
      /\ unmapped' = [unmapped EXCEPT ![b][a] = @ + 1]
      /\ mapping' = mapping /\ mappings' = mappings /\ mapCount' = mapCount
      /\ edit' = edit /\ torn' = torn /\ miscounted' = miscounted
  BY DEF UnmapMemObject, editVars
<1>2. PICK f \in DOMAIN mapping :
        /\ queue' = Append(queue, MapCommand("unmap", b, f))
        /\ f \in MapsAt(b, a) /\ f \in MapsIn(mapping, b)
        /\ b \notin torn => f \in ToSet(mappings[b])
  BY UnmapIs DEF CoreOK
<1>3. mapping[f].at = a
  BY <1>2 DEF MapsAt
<1>4. f \in Int
  BY TypeParts, MappingPlaces DEF CoreOK
<1>5. PICK c \in Commands(Int) : c = MapCommand("unmap", b, f)
  BY <1>4, CommandsMade
<1>6. queue' = Append(queue, c) /\ c.kind = "unmap" /\ c.buffers[1] = b /\ c.map = f
  BY <1>2, <1>5 DEF MapCommand
<1>7. unmapped \in [Buffers -> [Addresses -> 0..MaxMaps]]
  BY TypeParts DEF CoreOK
<1>8. /\ \A o \in Buffers : o # b => unmapped'[o] = unmapped[o]
      /\ \A x \in Addresses : x # a => unmapped'[b][x] = unmapped[b][x]
      /\ unmapped'[b][a] = unmapped[b][a] + 1 /\ unmapped[b][a] \in Nat
  BY <1>1, <1>7
<1>9. ListsOK'
  BY <1>1 DEF MapsOK, ListsOK
<1>10. NumbersOK'
  <2>1. ASSUME NEW o \in Buffers
        PROVE  Cardinality(Hits(queue', Of("map", o))) = Cardinality(Hits(queue, Of("map", o)))
    <3>1. One(c.kind = "map" /\ c.buffers[1] = o) = 0
      BY <1>6 DEF One
    <3>2. PICK x \in Nat : x = Cardinality(Hits(queue, Of("map", o)))
      BY <1>6, HitsEnqueued
    <3>3. x + 0 = x
      OBVIOUS
    <3>4. QED
      BY <1>6, <3>1, <3>2, <3>3, HitsEnqueued
  <2>2. QED
    BY <1>1, <2>1, NumbersStay DEF Balanced
<1>11. UnmapsOK'
  <2>1. SUFFICES ASSUME NEW o \in Buffers \ torn, MappedOnce(o)'
                 PROVE  OwnUnmaps(edit', queue', mappings'[o], mapping', unmapped'[o], o)
    BY <1>1 DEF UnmapsOK
  <2>2. MappedOnce(o)
    BY <1>1, <2>1 DEF MappedOnce, MapsAt
  <2>3. /\ Asked(queue, mappings[o], mapping, unmapped[o], o) /\ Apart(queue, o)
        /\ Deletes(edit, queue, mappings[o], mapping, unmapped[o], o)
    BY <2>2 DEF MapsOK, UnmapsOK, OwnUnmaps
  <2>4. queue \in Seq(Commands(Int))
    BY StateTyped DEF CoreOK
  <2>5. CASE o # b
    <3>1. PICK d \in {0, 1} : d = 0 /\ Follows(queue', queue, Of("unmap", o), d)
      BY <1>6, <2>5, HitsEnqueued
    <3>2. unmapped'[o] = unmapped[o]
      BY <1>8, <2>5
    <3>3. QED
      BY <1>1, <2>1, <3>1, <3>2, UnmapsStay
  <2>6. CASE o = b
    <3>1. unmapped[b][a] = 0
      <4>1. PICK x \in Nat : x = Cardinality(MapsAt(b, a)) /\ x < 2
        BY <2>2, <2>6, MapsAtCount DEF CoreOK, MappedOnce
      <4>2. QED
        BY <1>1, <1>8, <4>1
    <3>2. \A i \in Hits(queue', Of("unmap", b)) :
            \/ i \in Hits(queue, Of("unmap", b)) /\ queue'[i] = queue[i]
            \/ i = Len(queue) + 1 /\ queue'[i] = c
      <4>1. PICK G, S : G = Of("unmap", b) /\ S = Commands(Int)
        OBVIOUS
      <4>2. queue \in Seq(S) /\ c \in S
        BY <2>4, <4>1
      <4>3. \A i \in Hits(Append(queue, c), G) :
              \/ i \in Hits(queue, G) /\ Append(queue, c)[i] = queue[i]
              \/ i = Len(queue) + 1 /\ Append(queue, c)[i] = c /\ c \in G
        BY <4>2, FollowsAppend
      <4>4. QED
        BY <1>6, <4>1, <4>3
    <3>3. \A m : AskedFor(m, mappings[b], mapping, unmapped[b])
                   => m # f /\ AskedFor(m, mappings[b], mapping, unmapped'[b])
      BY <1>3, <1>8, <3>1 DEF AskedFor
    <3>4. AskedFor(f, mappings[b], mapping, unmapped'[b])
      <4>1. f \in ToSet(mappings[b])
        BY <1>2, <2>1, <2>6
      <4>2. unmapped'[b][a] > 0
        BY <1>8
      <4>3. QED
        BY <1>3, <4>1, <4>2 DEF AskedFor
    <3>5. Apart(queue', b)
      <4>1. SUFFICES ASSUME NEW i \in Hits(queue', Of("unmap", b)), NEW j \in Hits(queue', Of("unmap", b)),
                            i # j
                     PROVE  queue'[i].map # queue'[j].map
        BY DEF Apart
      <4>2. CASE i \in Hits(queue, Of("unmap", b)) /\ queue'[i] = queue[i]
                 /\ j \in Hits(queue, Of("unmap", b)) /\ queue'[j] = queue[j]
        BY <2>3, <2>6, <4>1, <4>2 DEF Apart
      <4>3. CASE i \in Hits(queue, Of("unmap", b)) /\ queue'[i] = queue[i] /\ queue'[j] = c
        BY <1>6, <2>3, <2>6, <3>3, <4>3 DEF Asked
      <4>4. CASE j \in Hits(queue, Of("unmap", b)) /\ queue'[j] = queue[j] /\ queue'[i] = c
        BY <1>6, <2>3, <2>6, <3>3, <4>4 DEF Asked
      <4>5. QED
        BY <3>2, <4>1, <4>2, <4>3, <4>4
    <3>6. Asked(queue', mappings[b], mapping, unmapped'[b], b)
      BY <1>6, <2>3, <2>6, <3>2, <3>3, <3>4 DEF Asked
    <3>7. Deletes(edit, queue', mappings[b], mapping, unmapped'[b], b)
      <4>1. SUFFICES ASSUME NEW s \in Deleting(edit, b)
                     PROVE  /\ AskedFor(edit[s].value, mappings[b], mapping, unmapped'[b])
                            /\ \A i \in Hits(queue', Of("unmap", b)) : queue'[i].map # edit[s].value
        BY <2>3, <2>6 DEF Deletes
      <4>2. /\ AskedFor(edit[s].value, mappings[b], mapping, unmapped[b])
            /\ \A i \in Hits(queue, Of("unmap", b)) : queue[i].map # edit[s].value
        BY <2>3, <2>6 DEF Deletes
      <4>3. edit[s].value # f
        BY <3>3, <4>2
      <4>4. QED
        BY <1>6, <3>2, <3>3, <4>2, <4>3
    <3>8. QED
      BY <1>1, <2>6, <3>5, <3>6, <3>7 DEF OwnUnmaps
  <2>7. QED
    BY <2>5, <2>6
<1>12. QED
  BY <1>9, <1>10, <1>11 DEF MapsOK

-----------------------------------------------------------------------------
\* Executing.
LEMMA MapsExecuteUse ==
  ASSUME CoreOK, CoreOK', MapsOK, NEW t \in Threads, ExecuteUse(t)
  PROVE  MapsOK'
<1>1. /\ queue # <<>> /\ queue' = Tail(queue) /\ queue[1].kind = "use"
      /\ mapping' = mapping /\ mapCount' = mapCount /\ unmapped' = unmapped /\ editVars' = editVars
      /\ mappings' = [b \in Buffers |-> IF b \in refs'.freed THEN <<>> ELSE mappings[b]]
  BY DEF ExecuteUse
<1>2. \A b \in Buffers : mappings'[b] = mappings[b]
  BY <1>1, FreedUnmapped DEF MapsOK
<1>3. PICK d \in {0, 1} : d = 1 /\ \A b \in Buffers : Follows(queue', queue, Of("unmap", b), d)
  BY <1>1, HitsTaken
<1>4. ASSUME NEW b \in Buffers
      PROVE  Cardinality(Hits(queue', Of("map", b))) = Cardinality(Hits(queue, Of("map", b)))
  <2>1. One(queue[1].kind = "map" /\ queue[1].buffers[1] = b) = 0
    BY <1>1 DEF One
  <2>2. PICK x \in Nat : x = Cardinality(Hits(queue', Of("map", b)))
    BY <1>1, HitsTaken
  <2>3. x + 0 = x
    OBVIOUS
  <2>4. QED
    BY <1>1, <2>1, <2>2, <2>3, HitsTaken
<1>5. QED
  BY <1>1, <1>2, <1>3, <1>4, MapsStay

LEMMA MapsExecuteMap ==
  ASSUME CoreOK, CoreOK', MapsOK, NEW t \in Threads, ExecuteMap(t)
  PROVE  MapsOK'
<1>1. /\ queue # <<>> /\ queue' = Tail(queue) /\ queue[1].kind = "map"
      /\ mapping' = mapping /\ mappings' = mappings /\ unmapped' = unmapped /\ mapCount' = mapCount
      /\ torn' = torn /\ edit[t].at = "none"
  BY DEF ExecuteMap, Takes, Idle
<1>2. PICK b \in Buffers : b = queue[1].buffers[1] /\ MapsIn(mapping, b) # {}
  BY TakenIs DEF ExecuteMap
<1>3. ReadCount(t, b, 1) /\ 1 \in Int
  BY <1>2 DEF ExecuteMap
<1>4. ListsOK'
  BY <1>1 DEF MapsOK, ListsOK
<1>5. ASSUME NEW o \in Buffers, NEW n \in Int, Balanced(n, mappings[o], queue, o)
      PROVE  Balanced(IF o = b THEN n + 1 ELSE n, mappings'[o], queue', o)
  <2>1. PICK x \in Nat : x = Cardinality(Hits(queue', Of("map", o)))
    BY <1>1, HitsTaken
  <2>2. Cardinality(Hits(queue, Of("map", o))) = x + One(queue[1].kind = "map" /\ queue[1].buffers[1] = o)
    BY <1>1, <2>1, HitsTaken
  <2>3. One(queue[1].kind = "map" /\ queue[1].buffers[1] = o) = IF o = b THEN 1 ELSE 0
    BY <1>1, <1>2 DEF One
  <2>4. n + (x + (IF o = b THEN 1 ELSE 0)) = (IF o = b THEN n + 1 ELSE n) + x
    OBVIOUS
  <2>5. QED
    BY <1>1, <1>5, <2>1, <2>2, <2>3, <2>4 DEF Balanced
<1>6. NumbersOK'
  BY <1>1, <1>2, <1>3, <1>5, NumbersRead
<1>7. UnmapsOK'
  <2>1. PICK d \in {0, 1} : d = 1 /\ \A o \in Buffers : Follows(queue', queue, Of("unmap", o), d)
    BY <1>1, HitsTaken
  <2>2. torn' \subseteq Buffers
    BY TypePartsNext DEF CoreOK, EditsTyped
  <2>3. edit'[t].at = "count" /\ \A s \in Threads : s # t => edit'[s] = edit[s]
    BY <1>1, <1>2, <1>3, <2>2, CountRead
  <2>4. \A o \in Buffers : \A s \in Deleting(edit', o) : s \in Deleting(edit, o) /\ edit'[s] = edit[s]
    BY <2>3 DEF Deleting
  <2>5. QED
    BY <1>1, <2>1, <2>4, MapsGrow
<1>8. QED
  BY <1>4, <1>6, <1>7 DEF MapsOK

LEMMA MapsExecuteUnmap ==
  ASSUME CoreOK, CoreOK', MapsOK, NEW t \in Threads, ExecuteUnmap(t)
  PROVE  MapsOK'
<1>1. /\ queue # <<>> /\ queue' = Tail(queue) /\ queue[1].kind = "unmap"
      /\ mapping' = mapping /\ unmapped' = unmapped /\ mapCount' = mapCount
      /\ miscounted' = miscounted /\ edit[t].at = "none"
  BY DEF ExecuteUnmap, Takes, Idle
<1>2. PICK b \in Buffers : b = queue[1].buffers[1]
  BY TakenIs DEF ExecuteUnmap
<1>3. PICK m \in Int : m = queue[1].map
  BY TakenIs, CommandParts DEF ExecuteUnmap
<1>4. /\ torn' = Marked(t, b, "delete", torn)
      /\ mappings' = [mappings EXCEPT ![b] = IF b \in torn' THEN <<>> ELSE mappings[b]]
  BY <1>2 DEF ExecuteUnmap, Relists
<1>5. /\ edit'[t].at = "delete" /\ edit'[t].of = b /\ edit'[t].value = m
      /\ \A s \in Threads : s # t => edit'[s] = edit[s]
  <2>1. PICK v \in EditStates : v = [at |-> "delete", of |-> b, value |-> m]
    BY DEF EditStates
  <2>2. edit' = [edit EXCEPT ![t] = v]
    BY <1>2, <1>3, <2>1 DEF ExecuteUnmap, Edits
  <2>3. edit'[t] = v /\ \A s \in Threads : s # t => edit'[s] = edit[s]
    BY <2>2, EditSet DEF CoreOK
  <2>4. QED
    BY <2>1, <2>3
<1>6. mappings \in [Buffers -> Seq(DOMAIN mapping)]
  BY TypeParts DEF CoreOK
<1>7. /\ torn \subseteq torn'
      /\ b \in torn' => mappings'[b] = <<>>
      /\ \A o \in Buffers : o # b \/ o \notin torn' => mappings'[o] = mappings[o]
  BY <1>4, <1>6 DEF Marked
<1>8. ListsOK'
  <2>1. \A o \in Buffers : mappings'[o] = mappings[o] \/ mappings'[o] = <<>>
    BY <1>7
  <2>2. \A M : ListIs(<<>>, M)
    BY DEF ListIs, ToSet
  <2>3. QED
    BY <1>1, <2>1, <2>2 DEF MapsOK, ListsOK
<1>9. NumbersOK'
  <2>1. \A o \in Buffers : Counting(edit', o) = Counting(edit, o)
                             /\ \A s \in Counting(edit, o) : edit'[s] = edit[s]
    BY <1>1, <1>5 DEF Counting
  <2>2. ASSUME NEW o \in Buffers
        PROVE  Cardinality(Hits(queue', Of("map", o))) = Cardinality(Hits(queue, Of("map", o)))
    <3>1. One(queue[1].kind = "map" /\ queue[1].buffers[1] = o) = 0
      BY <1>1 DEF One
    <3>2. PICK x \in Nat : x = Cardinality(Hits(queue', Of("map", o)))
      BY <1>1, HitsTaken
    <3>3. x + 0 = x
      OBVIOUS
    <3>4. QED
      BY <1>1, <3>1, <3>2, <3>3, HitsTaken
  <2>3. \A o \in Buffers \ torn' : \A n \in Int :
          Balanced(n, mappings[o], queue, o) => Balanced(n, mappings'[o], queue', o)
    BY <1>7, <2>2 DEF Balanced
  <2>4. QED
    BY <1>1, <1>7, <2>1, <2>3, NumbersStay
<1>10. UnmapsOK'
  <2>1. SUFFICES ASSUME NEW o \in Buffers, o \notin torn', MappedOnce(o)'
                 PROVE  OwnUnmaps(edit', queue', mappings'[o], mapping', unmapped'[o], o)
    BY DEF UnmapsOK
  <2>2. mappings'[o] = mappings[o] /\ o \notin torn
    BY <1>7, <2>1
  <2>3. PICK d \in {0, 1} : d = 1 /\ Follows(queue', queue, Of("unmap", o), d)
    BY <1>1, HitsTaken
  <2>4. CASE o # b
    <3>1. \A s \in Deleting(edit', o) : s \in Deleting(edit, o) /\ edit'[s] = edit[s]
      BY <1>5, <2>4 DEF Deleting
    <3>2. QED
      BY <1>1, <2>1, <2>2, <2>3, <3>1, UnmapsStay
  <2>5. CASE o = b
    <3>1. MappedOnce(b)
      BY <1>1, <2>1, <2>5 DEF MappedOnce, MapsAt
    <3>2. Asked(queue, mappings[b], mapping, unmapped[b], b) /\ Apart(queue, b)
      BY <2>2, <2>5, <3>1 DEF MapsOK, UnmapsOK, OwnUnmaps
    <3>3. queue \in Seq(Commands(Int)) /\ queue' \in Seq(Commands(Int))
      BY <1>1, StateTyped, TailParts DEF CoreOK
    <3>4. Deleting(edit, b) = {}
      BY <1>1, <1>4, <2>1, <2>5 DEF Marked, Another, Deleting
    <3>5. \A s \in Deleting(edit', b) : s = t
      BY <1>5, <3>4 DEF Deleting
    <3>6. 1 \in Hits(queue, Of("unmap", b))
      BY <1>1, <1>2, <3>3, TailParts DEF Hits, Of
    <3>7. AskedFor(m, mappings[b], mapping, unmapped[b])
      BY <1>3, <3>2, <3>6 DEF Asked
    <3>8. ASSUME NEW i \in Hits(queue', Of("unmap", b))
          PROVE  AskedFor(queue'[i].map, mappings[b], mapping, unmapped[b]) /\ queue'[i].map # m
      <4>1. i + 1 \in Hits(queue, Of("unmap", b)) /\ queue'[i] = queue[i + 1]
        BY <2>3, <2>5, <3>8 DEF Follows
      <4>2. i + 1 # 1
        <5>1. i \in DOMAIN Tail(queue)
          BY <1>1, <3>8 DEF Hits
        <5>2. PICK n \in Nat : DOMAIN Tail(queue) = 1..(n - 1)
          BY <1>1, <3>3, TailParts
        <5>3. QED
          BY <5>1, <5>2
      <4>3. queue[i + 1].map # queue[1].map
        BY <3>2, <3>6, <4>1, <4>2 DEF Apart
      <4>4. AskedFor(queue[i + 1].map, mappings[b], mapping, unmapped[b])
        BY <3>2, <4>1 DEF Asked
      <4>5. QED
        BY <1>3, <4>1, <4>3, <4>4
    <3>9. Apart(queue', b)
      BY <2>3, <2>5, <3>2, <3>3, AskedFollows
    <3>10. Asked(queue', mappings[b], mapping, unmapped[b], b)
      BY <3>8 DEF Asked
    <3>11. Deletes(edit', queue', mappings[b], mapping, unmapped[b], b)
      BY <1>5, <3>5, <3>7, <3>8 DEF Deletes
    <3>12. QED
      BY <1>1, <2>2, <2>5, <3>9, <3>10, <3>11 DEF OwnUnmaps
  <2>6. QED
    BY <2>4, <2>5
<1>11. QED
  BY <1>8, <1>9, <1>10 DEF MapsOK

LEMMA MapsDelete ==
  ASSUME CoreOK, CoreOK', MapsOK, NEW t \in Threads, Delete(t)
  PROVE  MapsOK'
<1>1. CASE Corrupts
  BY <1>1, MapsAlone DEF Corrupts, mapVars
<1>2. CASE ~Corrupts
  <2>1. PICK b \in Buffers : b = edit[t].of /\ MapsIn(mapping, b) # {}
    BY DEF Delete, CoreOK, EditsOK
  <2>2. PICK m : m = edit[t].value
    OBVIOUS
  <2>3. /\ mapping' = mapping /\ unmapped' = unmapped /\ mapCount' = mapCount /\ queue' = queue
        /\ torn' = torn /\ edit[t].at = "delete"
        /\ b \notin torn => m \in ToSet(mappings[b])
        /\ mappings' = [mappings EXCEPT ![b] =
                          IF b \in torn THEN <<>> ELSE RemoveAt(mappings[b], Place(mappings[b], m))]
        /\ ReadCount(t, b, -1)
    BY <1>2, <2>1, <2>2 DEF Delete, Relists
  <2>4. mappings \in [Buffers -> Seq(DOMAIN mapping)]
    BY TypeParts DEF CoreOK
  <2>5. /\ b \in torn => mappings'[b] = <<>>
        /\ b \notin torn => mappings'[b] = RemoveAt(mappings[b], Place(mappings[b], m))
        /\ \A o \in Buffers : o # b => mappings'[o] = mappings[o]
    BY <2>3, <2>4
  <2>6. ASSUME b \notin torn
        PROVE  /\ ListIs(mappings'[b], MapsIn(mapping, b))
               /\ \A x \in ToSet(mappings[b]) : x # m => x \in ToSet(mappings'[b])
               /\ Len(mappings[b]) \in Nat /\ Len(mappings'[b]) = Len(mappings[b]) - 1
    <3>1. PICK S, s : S = DOMAIN mapping /\ s = mappings[b] /\ s \in Seq(S)
      BY <2>4
    <3>2. ListIs(s, MapsIn(mapping, b)) /\ m \in ToSet(s)
      BY <2>3, <2>6, <3>1 DEF MapsOK, ListsOK
    <3>3. /\ ListIs(RemoveAt(s, Place(s, m)), MapsIn(mapping, b))
          /\ \A x \in ToSet(s) : x # m => x \in ToSet(RemoveAt(s, Place(s, m)))
      BY <3>1, <3>2, ListRemoved
    <3>4. Len(RemoveAt(s, Place(s, m))) = Len(s) - 1 /\ Len(s) \in Nat
      BY <3>1, <3>2, Removed, LenProperties
    <3>5. QED
      BY <2>5, <2>6, <3>1, <3>3, <3>4
  <2>7. ListsOK'
    <3>1. \A M : ListIs(<<>>, M)
      BY DEF ListIs, ToSet
    <3>2. \A o \in Buffers : ListIs(mappings'[o], MapsIn(mapping, o))
      BY <2>5, <2>6, <3>1 DEF MapsOK, ListsOK
    <3>3. QED
      BY <2>3, <3>2 DEF ListsOK
  <2>8. ASSUME NEW o \in Buffers, o \notin torn, NEW n \in Int, Balanced(n, mappings[o], queue, o)
        PROVE  Balanced(IF o = b THEN n + (-1) ELSE n, mappings'[o], queue', o)
    <3>1. PICK x \in Nat : x = Cardinality(Hits(queue, Of("map", o)))
      BY StateTyped, HitsFinite DEF CoreOK
    <3>2. CASE o = b
      <4>1. n + x = Len(mappings[b]) /\ Len(mappings'[b]) = Len(mappings[b]) - 1 /\ Len(mappings[b]) \in Nat
        BY <2>6, <2>8, <3>1, <3>2 DEF Balanced
      <4>2. (n + (-1)) + x = Len(mappings'[b])
        BY <4>1
      <4>3. QED
        BY <2>3, <3>1, <3>2, <4>2 DEF Balanced
    <3>3. CASE o # b
      BY <2>3, <2>5, <2>8, <3>3 DEF Balanced
    <3>4. QED
      BY <3>2, <3>3
  <2>9. NumbersOK'
    <3>1. -1 \in Int /\ edit[t].at # "count"
      BY <2>3
    <3>2. \A o \in Buffers \ torn : \A n \in Int :
            Balanced(n, mappings[o], queue, o) => Balanced(IF o = b THEN n + (-1) ELSE n, mappings'[o], queue', o)
      BY <2>8
    <3>3. QED
      BY <2>1, <2>3, <3>1, <3>2, NumbersRead
  <2>10. UnmapsOK'
    <3>1. torn' \subseteq Buffers /\ -1 \in Int
      BY TypePartsNext DEF CoreOK, EditsTyped
    <3>2. edit'[t].at = "count" /\ \A s \in Threads : s # t => edit'[s] = edit[s]
      BY <2>1, <2>3, <3>1, CountRead
    <3>3. \A o \in Buffers : \A s \in Deleting(edit', o) : s # t /\ s \in Deleting(edit, o) /\ edit'[s] = edit[s]
      BY <3>2 DEF Deleting
    <3>4. SUFFICES ASSUME NEW o \in Buffers, o \notin torn, MappedOnce(o)'
                   PROVE  OwnUnmaps(edit', queue', mappings'[o], mapping', unmapped'[o], o)
      BY <2>3 DEF UnmapsOK
    <3>5. PICK d \in {0, 1} : d = 0 /\ Follows(queue', queue, Of("unmap", o), d)
      BY <2>3, StateTyped, FollowsSame DEF CoreOK
    <3>6. CASE o # b
      BY <2>3, <2>5, <3>3, <3>4, <3>5, <3>6, UnmapsStay
    <3>7. CASE o = b
      <4>1. MappedOnce(b)
        BY <2>3, <3>4, <3>7 DEF MappedOnce, MapsAt
      <4>2. /\ Asked(queue, mappings[b], mapping, unmapped[b], b) /\ Apart(queue, b)
            /\ Deletes(edit, queue, mappings[b], mapping, unmapped[b], b)
        BY <3>4, <3>7, <4>1 DEF MapsOK, UnmapsOK, OwnUnmaps
      <4>3. t \in Deleting(edit, b)
        BY <2>1, <2>3 DEF Deleting
      <4>4. Deleting(edit', b) = {}
        BY <3>3, <4>2, <4>3 DEF Deletes
      <4>5. \A i \in Hits(queue, Of("unmap", b)) : queue[i].map # m
        BY <2>2, <4>2, <4>3 DEF Deletes
      <4>6. Asked(queue, mappings'[b], mapping, unmapped[b], b)
        BY <2>6, <3>4, <3>7, <4>2, <4>5 DEF Asked, AskedFor
      <4>7. Deletes(edit', queue, mappings'[b], mapping, unmapped[b], b)
        BY <4>4 DEF Deletes
      <4>8. QED
        BY <2>3, <3>7, <4>2, <4>6, <4>7 DEF OwnUnmaps
    <3>8. QED
      BY <3>6, <3>7
  <2>11. QED
    BY <2>7, <2>9, <2>10 DEF MapsOK
<1>3. QED
  BY <1>1, <1>2

LEMMA MapsStoreCount ==
  ASSUME CoreOK, CoreOK', MapsOK, NEW t \in Threads, StoreCount(t)
  PROVE  MapsOK'
<1>1. CASE Corrupts
  BY <1>1, MapsAlone DEF Corrupts, mapVars
<1>2. CASE ~Corrupts
  <2>1. PICK b \in Buffers : b = edit[t].of
    BY DEF StoreCount, CoreOK, EditsOK
  <2>2. PICK v \in EditStates : v = NoEdit
    <3>1. NoEdit \in EditStates
      BY DEF NoEdit, EditStates
    <3>2. QED
      BY <3>1
  <2>3. /\ mapping' = mapping /\ mappings' = mappings /\ unmapped' = unmapped /\ queue' = queue
        /\ torn' = torn /\ miscounted' = miscounted /\ edit[t].at = "count"
        /\ mapCount' = [mapCount EXCEPT ![b] = IF b \in miscounted THEN 0 ELSE edit[t].value]
        /\ edit' = [edit EXCEPT ![t] = v]
    BY <1>2, <2>1, <2>2 DEF StoreCount
  <2>4. edit'[t] = v /\ \A s \in Threads : s # t => edit'[s] = edit[s]
    BY <2>3, EditSet DEF CoreOK
  <2>5. v.at = "none"
    BY <2>2 DEF NoEdit
  <2>6. mapCount \in [Buffers -> Int]
    BY TypeParts DEF CoreOK
  <2>7. ListsOK'
    BY <2>3 DEF MapsOK, ListsOK
  <2>8. NumbersOK'
    <3>1. SUFFICES ASSUME NEW o \in Buffers \ (torn \cup miscounted)
                   PROVE  /\ \A s \in Counting(edit', o) : Balanced(edit'[s].value, mappings[o], queue, o)
                          /\ Counting(edit', o) = {} => Balanced(mapCount'[o], mappings[o], queue, o)
      BY <2>3 DEF NumbersOK
    <3>2. /\ \A s \in Counting(edit, o) : Balanced(edit[s].value, mappings[o], queue, o)
          /\ Counting(edit, o) = {} => Balanced(mapCount[o], mappings[o], queue, o)
      BY DEF MapsOK, NumbersOK
    <3>3. \A s \in Counting(edit', o) : s \in Counting(edit, o) /\ edit'[s] = edit[s]
      BY <2>4, <2>5 DEF Counting
    <3>4. CASE o = b
      <4>1. t \in Counting(edit, o)
        BY <2>1, <2>3, <3>4 DEF Counting
      <4>2. mapCount'[o] = edit[t].value
        BY <2>3, <2>6, <3>1, <3>4
      <4>3. QED
        BY <3>2, <3>3, <4>1, <4>2
    <3>5. CASE o # b
      <4>1. Counting(edit', o) = Counting(edit, o)
        BY <2>1, <2>4, <3>3, <3>5 DEF Counting
      <4>2. mapCount'[o] = mapCount[o]
        BY <2>3, <2>6, <3>5
      <4>3. QED
        BY <3>2, <3>3, <4>1, <4>2
    <3>6. QED
      BY <3>4, <3>5
  <2>9. UnmapsOK'
    <3>1. PICK d \in {0, 1} : d = 0 /\ \A o \in Buffers : Follows(queue', queue, Of("unmap", o), d)
      BY <2>3, StateTyped, FollowsSame DEF CoreOK
    <3>2. \A o \in Buffers : \A s \in Deleting(edit', o) : s \in Deleting(edit, o) /\ edit'[s] = edit[s]
      BY <2>4, <2>5 DEF Deleting
    <3>3. QED
      BY <2>3, <3>1, <3>2, MapsGrow
  <2>10. QED
    BY <2>7, <2>8, <2>9 DEF MapsOK
<1>3. QED
  BY <1>1, <1>2


LEMMA MapsNext ==
  ASSUME CoreOK, MapsOK, [Next]_vars
  PROVE  CoreOK' /\ MapsOK'
<1>1. CoreOK'
  BY CoreNext
<1>2. CASE UNCHANGED vars
  <2>1. /\ queue' = queue /\ mapping' = mapping /\ mapCount' = mapCount /\ unmapped' = unmapped
        /\ mappings' = mappings /\ editVars' = editVars
    BY <1>2 DEF vars, editVars
  <2>2. QED
    BY <1>1, <2>1, MapsAlone
<1>3. ASSUME NEW t \in Threads, ClientStep(t) PROVE MapsOK'
  BY <1>1, <1>3, MapsClient
<1>4. ASSUME NEW t \in Threads, KernelStep(t) PROVE MapsOK'
  BY <1>1, <1>4, MapsKernel
<1>5. ASSUME NEW t \in Threads, EnqueueStep(t) PROVE MapsOK'
  BY <1>1, <1>5, MapsEnqueueUse, MapsMap, MapsUnmap DEF EnqueueStep
<1>6. ASSUME NEW t \in Threads, ExecuteStep(t) PROVE MapsOK'
  BY <1>1, <1>6, MapsExecuteUse, MapsExecuteMap, MapsExecuteUnmap, MapsDelete, MapsStoreCount
     DEF ExecuteStep
<1>7. QED
  BY <1>1, <1>2, <1>3, <1>4, <1>5, <1>6, NextSteps

LEMMA MapsInit ==
  ASSUME Init
  PROVE  MapsOK
<1>1. /\ mappings = [b \in Buffers |-> <<>>] /\ mapCount = [b \in Buffers |-> 0] /\ queue = <<>>
      /\ edit = [t \in Threads |-> NoEdit]
  BY DEF Init
<1>2. \A G : Hits(queue, G) = {}
  BY <1>1 DEF Hits
<1>3. Cardinality({}) = 0 /\ 0 + 0 = 0
  BY FS_EmptySet
<1>4. DOMAIN <<>> = {} /\ Len(<<>>) = 0
  OBVIOUS
<1>5. ListsOK
  BY <1>1, <1>4 DEF ListsOK, ListIs, ToSet
<1>6. \A b : Counting(edit, b) = {} /\ Deleting(edit, b) = {}
  BY <1>1 DEF Counting, Deleting, NoEdit
<1>7. NumbersOK
  <2>1. \A b \in Buffers : Balanced(mapCount[b], mappings[b], queue, b)
    BY <1>1, <1>2, <1>3, <1>4 DEF Balanced
  <2>2. QED
    BY <1>6, <2>1 DEF NumbersOK
<1>8. UnmapsOK
  BY <1>2, <1>6 DEF UnmapsOK, OwnUnmaps, Asked, Apart, Deletes
<1>9. QED
  BY <1>5, <1>7, <1>8 DEF MapsOK

LEMMA MapsUnmapTheirOwn ==
  ASSUME CoreOK, MapsOK
  PROVE  UnmapsTheirOwn
<1>1. SUFFICES ASSUME NEW b \in Buffers \ torn, MappedOnce(b), NEW unmaps, NEW deleting,
                      unmaps = {i \in DOMAIN queue : queue[i].kind = "unmap" /\ queue[i].buffers[1] = b},
                      deleting = {t \in Threads : edit[t].at = "delete" /\ edit[t].of = b}
               PROVE  /\ \A i \in unmaps : queue[i].map \in ToSet(mappings[b])
                      /\ \A t \in deleting : edit[t].value \in ToSet(mappings[b])
                      /\ \A i, j \in unmaps : i # j => queue[i].map # queue[j].map
                      /\ \A i \in unmaps, t \in deleting : queue[i].map # edit[t].value
                      /\ /\ \A i \in DOMAIN queue : queue[i].kind # "use" => queue[i].buffers[1] # b
                         /\ \A t \in Threads : edit[t].of # b
                         /\ b \notin miscounted
                         => mapCount[b] = Len(mappings[b])
  BY DEF UnmapsTheirOwn
<1>2. \A i \in DOMAIN queue : queue[i] \in Commands(Int)
  BY StateTyped DEF CoreOK
<1>3. unmaps = Hits(queue, Of("unmap", b)) /\ deleting = Deleting(edit, b)
  BY <1>1, <1>2 DEF Hits, Of, Deleting
<1>4. /\ Asked(queue, mappings[b], mapping, unmapped[b], b) /\ Apart(queue, b)
      /\ Deletes(edit, queue, mappings[b], mapping, unmapped[b], b)
  BY <1>1 DEF MapsOK, UnmapsOK, OwnUnmaps
<1>5. ASSUME \A i \in DOMAIN queue : queue[i].kind # "use" => queue[i].buffers[1] # b,
             \A t \in Threads : edit[t].of # b, b \notin miscounted
      PROVE  mapCount[b] = Len(mappings[b])
  <2>1. Hits(queue, Of("map", b)) = {} /\ Counting(edit, b) = {}
    BY <1>5 DEF Hits, Of, Counting
  <2>2. Cardinality({}) = 0
    BY FS_EmptySet
  <2>3. mapCount[b] + 0 = Len(mappings[b])
    BY <1>1, <1>5, <2>1, <2>2 DEF MapsOK, NumbersOK, Balanced
  <2>4. mapCount[b] \in Int
    BY TypeParts DEF CoreOK
  <2>5. QED
    BY <2>3, <2>4
<1>6. /\ \A i \in unmaps : queue[i].map \in ToSet(mappings[b])
      /\ \A i, j \in unmaps : i # j => queue[i].map # queue[j].map
  BY <1>3, <1>4 DEF Asked, Apart, AskedFor
<1>7. /\ \A t \in deleting : edit[t].value \in ToSet(mappings[b])
      /\ \A i \in unmaps, t \in deleting : queue[i].map # edit[t].value
  BY <1>3, <1>4 DEF Deletes, AskedFor
<1>8. QED
  BY <1>5, <1>6, <1>7

\* Of a buffer that was not mapped twice at one address, and whose list no two
\* threads changed at once, the unmaps that clEnqueueUnmapMemObject queues name
\* mappings apart, and each finds its own until clFinish deletes it, before the
\* delete and after the unmap is taken from the queue; and map_count is the number
\* of mappings when neither a map nor an unmap of the buffer is queued or executing,
\* unless two threads changed the count at once.
THEOREM UnmapsFindTheirOwn == Spec => []UnmapsTheirOwn
<1>1. Init => CoreOK /\ MapsOK
  BY CoreInit, MapsInit
<1>2. CoreOK /\ MapsOK /\ [Next]_vars => (CoreOK /\ MapsOK)'
  BY MapsNext
<1>3. CoreOK /\ MapsOK => UnmapsTheirOwn
  BY MapsUnmapTheirOwn
<1>4. QED
  BY <1>1, <1>2, <1>3, PTL DEF Spec

-----------------------------------------------------------------------------
\* The list of a program's kernels.  From head h, n links the kernels of K, each
\* once, in the order s, and then Null.
Chain(s, m, h, n, K) ==
  /\ h = IF m = 0 THEN Null ELSE s[1]
  /\ \A i \in 1..m : n[s[i]] = IF i = m THEN Null ELSE s[i + 1]
  /\ \A i, j \in 1..m : s[i] = s[j] => i = j
  /\ \A i \in 1..m : s[i] \in K
  /\ \A k \in K : \E i \in 1..m : s[i] = k
Lists(h, n, K) == \E m \in Nat : \E s \in [1..m -> Kernels] : Chain(s, m, h, n, K)

\* Only the links of the kernels matter.
LEMMA ListsSame ==
  ASSUME NEW h, NEW n, NEW g, NEW K, Lists(h, n, K), \A x \in Kernels : g[x] = n[x]
  PROVE  Lists(h, g, K)
<1>1. PICK m \in Nat : \E s \in [1..m -> Kernels] : Chain(s, m, h, n, K)
  BY DEF Lists
<1>2. PICK s \in [1..m -> Kernels] : Chain(s, m, h, n, K)
  BY <1>1
<1>3. \A i \in 1..m : g[s[i]] = n[s[i]]
  OBVIOUS
<1>4. Chain(s, m, h, g, K)
  BY <1>2, <1>3 DEF Chain
<1>5. QED
  BY <1>4 DEF Lists

\* A list stays among its kernels, ...
LEMMA ListsClosed ==
  ASSUME NEW h, NEW n, NEW K, Lists(h, n, K)
  PROVE  h \in K \cup {Null} /\ \A x \in K : n[x] \in K \cup {Null}
<1>1. PICK m \in Nat : \E s \in [1..m -> Kernels] : Chain(s, m, h, n, K)
  BY DEF Lists
<1>2. PICK s \in [1..m -> Kernels] : Chain(s, m, h, n, K)
  BY <1>1
<1>3. m # 0 => 1 \in 1..m
  OBVIOUS
<1>4. \A i \in 1..m : i # m => i + 1 \in 1..m
  OBVIOUS
<1>5. h \in K \cup {Null}
  BY <1>2, <1>3 DEF Chain
<1>6. \A x \in K : n[x] \in K \cup {Null}
  BY <1>2, <1>4 DEF Chain
<1>7. QED
  BY <1>5, <1>6

\* ... and reaches each of them.
LEMMA ListsReach ==
  ASSUME NEW h, NEW n, NEW K, Lists(h, n, K),
         NEW S, h \in S \cup {Null}, \A x \in S : n[x] \in S \cup {Null}
  PROVE  K \subseteq S
<1>1. PICK m \in Nat : \E s \in [1..m -> Kernels] : Chain(s, m, h, n, K)
  BY DEF Lists
<1>2. PICK s \in [1..m -> Kernels] : Chain(s, m, h, n, K)
  BY <1>1
<1>3. PICK B : B = {i \in 1..m : s[i] \notin S}
  OBVIOUS
<1>4. B = {}
  <2>1. SUFFICES ASSUME B # {} PROVE FALSE
    OBVIOUS
  <2>2. B \subseteq Nat
    BY <1>3
  <2>3. PICK i \in B : \A j \in B : i <= j
    <3>1. \E x \in B : \A y \in B : ~(<<y, x>> \in OpToRel(<, Nat))
      BY <2>1, <2>2, NatLessThanWellFounded, WFMin
    <3>2. PICK x \in B : \A y \in B : ~(y < x)
      BY <2>2, <3>1 DEF OpToRel
    <3>3. \A y \in B : x <= y
      BY <2>2, <3>2
    <3>4. QED
      BY <3>3
  <2>4. i \in 1..m /\ s[i] \notin S
    BY <1>3
  <2>5. s[i] \in Kernels /\ s[i] # Null
    BY <2>4, KindsDisjoint
  <2>6. CASE i = 1
    <3>1. h = s[1]
      BY <1>2, <2>4, <2>6 DEF Chain
    <3>2. QED
      BY <2>4, <2>5, <2>6, <3>1
  <2>7. CASE i # 1
    <3>1. i - 1 \in 1..m /\ i - 1 # m /\ (i - 1) + 1 = i /\ ~(i <= i - 1)
      BY <2>4, <2>7
    <3>2. s[i - 1] \in S
      BY <1>3, <2>3, <3>1
    <3>3. n[s[i - 1]] = s[i]
      BY <1>2, <3>1 DEF Chain
    <3>4. QED
      BY <2>4, <2>5, <3>2, <3>3
  <2>8. QED
    BY <2>6, <2>7
<1>5. QED
  BY <1>2, <1>3, <1>4 DEF Chain

\* A kernel is put in front.
LEMMA ListsPush ==
  ASSUME NEW h, NEW n, NEW K, K \subseteq Kernels, Lists(h, n, K),
         NEW k \in Kernels, k \notin K, NEW g, g[k] = h, \A x \in Kernels : x # k => g[x] = n[x]
  PROVE  Lists(k, g, K \cup {k})
<1>1. PICK m \in Nat : \E s \in [1..m -> Kernels] : Chain(s, m, h, n, K)
  BY DEF Lists
<1>2. PICK s \in [1..m -> Kernels] : Chain(s, m, h, n, K)
  BY <1>1
<1>3. PICK r : r = [i \in 1..(m + 1) |-> IF i = 1 THEN k ELSE s[i - 1]]
  OBVIOUS
<1>4. \A i \in 1..(m + 1) : i # 1 => i - 1 \in 1..m
  OBVIOUS
<1>5. \A i \in 1..m : i + 1 \in 1..(m + 1) /\ i + 1 # 1 /\ (i + 1) - 1 = i
  OBVIOUS
<1>6. 1 \in 1..(m + 1) /\ m + 1 \in Nat /\ m + 1 # 0
  OBVIOUS
<1>7. r \in [1..(m + 1) -> Kernels]
  BY <1>3, <1>4
<1>8. r[1] = k /\ \A i \in 1..m : r[i + 1] = s[i]
  BY <1>3, <1>5, <1>6
<1>9. \A i \in 1..m : s[i] \in K /\ s[i] # k
  BY <1>2 DEF Chain
<1>10. ASSUME NEW i \in 1..(m + 1) PROVE g[r[i]] = IF i = m + 1 THEN Null ELSE r[i + 1]
  <2>1. CASE i = 1
    <3>1. g[r[i]] = h
      BY <1>8, <2>1
    <3>2. CASE m = 0
      BY <1>2, <2>1, <3>1, <3>2 DEF Chain
    <3>3. CASE m # 0
      <4>1. 1 \in 1..m /\ i # m + 1 /\ h = s[1]
        BY <1>2, <2>1, <3>3 DEF Chain
      <4>2. r[i + 1] = s[1]
        BY <1>8, <2>1, <4>1
      <4>3. QED
        BY <3>1, <4>1, <4>2
    <3>4. QED
      BY <3>2, <3>3
  <2>2. CASE i # 1
    <3>1. PICK j \in 1..m : j = i - 1 /\ i = j + 1
      BY <2>2
    <3>2. r[i] = s[j] /\ g[r[i]] = n[s[j]]
      BY <1>8, <1>9, <3>1
    <3>3. n[s[j]] = IF j = m THEN Null ELSE s[j + 1]
      BY <1>2 DEF Chain
    <3>4. j # m => r[i + 1] = s[j + 1]
      <4>1. j # m => j + 1 \in 1..m
        OBVIOUS
      <4>2. QED
        BY <1>8, <3>1, <4>1
    <3>5. i = m + 1 <=> j = m
      BY <3>1
    <3>6. QED
      BY <3>2, <3>3, <3>4, <3>5
  <2>3. QED
    BY <2>1, <2>2
<1>11. ASSUME NEW i \in 1..(m + 1), NEW j \in 1..(m + 1), r[i] = r[j] PROVE i = j
  <2>1. ASSUME NEW x \in 1..(m + 1), x # 1 PROVE x - 1 \in 1..m /\ r[x] = s[x - 1] /\ r[x] # k
    BY <1>3, <1>4, <1>9, <2>1
  <2>2. CASE i = 1 \/ j = 1
    BY <1>8, <1>11, <2>1, <2>2
  <2>3. CASE i # 1 /\ j # 1
    <3>1. i - 1 = j - 1
      BY <1>2, <1>11, <2>1, <2>3 DEF Chain
    <3>2. QED
      BY <3>1
  <2>4. QED
    BY <2>2, <2>3
<1>12. \A i \in 1..(m + 1) : r[i] \in K \cup {k}
  BY <1>3, <1>4, <1>9
<1>13. \A x \in K \cup {k} : \E i \in 1..(m + 1) : r[i] = x
  <2>1. \A x \in K : \E i \in 1..m : s[i] = x
    BY <1>2 DEF Chain
  <2>2. QED
    BY <1>5, <1>6, <1>8, <2>1
<1>14. Chain(r, m + 1, k, g, K \cup {k})
  BY <1>6, <1>8, <1>10, <1>11, <1>12, <1>13 DEF Chain
<1>15. QED
  BY <1>6, <1>7, <1>14 DEF Lists

\* A kernel is cut out.
LEMMA ListsCut ==
  ASSUME NEW h, NEW n, NEW K, K \subseteq Kernels, Lists(h, n, K),
         NEW k \in K, NEW p \in K \cup {Null}, k = (IF p = Null THEN h ELSE n[p]),
         NEW g, p # Null => g[p] = n[k], \A x \in Kernels : x # p => g[x] = n[x]
  PROVE  Lists(IF p = Null THEN n[k] ELSE h, g, K \ {k})
<1>1. PICK m \in Nat : \E s \in [1..m -> Kernels] : Chain(s, m, h, n, K)
  BY DEF Lists
<1>2. PICK s \in [1..m -> Kernels] : Chain(s, m, h, n, K)
  BY <1>1
<1>3. PICK q \in 1..m : s[q] = k
  BY <1>2 DEF Chain
<1>4. k # Null
  BY KindsDisjoint
<1>5. m - 1 \in Nat /\ m # 0 /\ 1 \in 1..m /\ h = s[1]
  BY <1>2, <1>3 DEF Chain
<1>6. q = 1 => p = Null
  <2>1. SUFFICES ASSUME q = 1, p # Null PROVE FALSE
    OBVIOUS
  <2>2. PICK j \in 1..m : s[j] = p /\ n[s[j]] = k
    BY <1>2, <2>1 DEF Chain
  <2>3. j # m /\ s[j + 1] = k
    BY <1>2, <1>4, <2>2 DEF Chain
  <2>4. j + 1 \in 1..m
    BY <2>3
  <2>5. j + 1 = q
    BY <1>2, <1>3, <2>3, <2>4 DEF Chain
  <2>6. QED
    BY <2>1, <2>5
<1>7. q # 1 => p # Null /\ p = s[q - 1]
  <2>1. SUFFICES ASSUME q # 1 PROVE p # Null /\ p = s[q - 1]
    OBVIOUS
  <2>2. p # Null
    BY <1>2, <1>3, <1>5, <2>1 DEF Chain
  <2>3. PICK j \in 1..m : s[j] = p /\ n[s[j]] = k
    BY <1>2, <2>2 DEF Chain
  <2>4. j # m /\ s[j + 1] = k
    BY <1>2, <1>4, <2>3 DEF Chain
  <2>5. j + 1 \in 1..m
    BY <2>4
  <2>6. j + 1 = q
    BY <1>2, <1>3, <2>4, <2>5 DEF Chain
  <2>7. j = q - 1
    BY <2>6
  <2>8. QED
    BY <2>2, <2>3, <2>7
<1>8. PICK r : r = [i \in 1..(m - 1) |-> IF i < q THEN s[i] ELSE s[i + 1]]
  OBVIOUS
<1>9. \A i \in 1..(m - 1) : i \in 1..m /\ i + 1 \in 1..m
  OBVIOUS
<1>10. r \in [1..(m - 1) -> Kernels] /\ \A i \in 1..(m - 1) : r[i] = IF i < q THEN s[i] ELSE s[i + 1]
  BY <1>8, <1>9
<1>11. \A i, j \in 1..m : s[i] = s[j] => i = j
  BY <1>2 DEF Chain
<1>12. \A i \in 1..m : n[s[i]] = IF i = m THEN Null ELSE s[i + 1]
  BY <1>2 DEF Chain
<1>13. (IF p = Null THEN n[k] ELSE h) = IF m - 1 = 0 THEN Null ELSE r[1]
  <2>1. CASE q = 1
    <3>1. n[k] = IF m = 1 THEN Null ELSE s[1 + 1]
      BY <1>3, <1>12, <2>1
    <3>2. m # 1 => r[1] = s[1 + 1]
      <4>1. m # 1 => 1 \in 1..(m - 1)
        BY <1>5
      <4>2. QED
        BY <1>10, <2>1, <4>1
    <3>3. m - 1 = 0 <=> m = 1
      OBVIOUS
    <3>4. QED
      BY <1>6, <2>1, <3>1, <3>2, <3>3
  <2>2. CASE q # 1
    <3>1. 1 \in 1..(m - 1) /\ 1 < q /\ m - 1 # 0
      BY <2>2
    <3>2. r[1] = s[1]
      BY <1>10, <3>1
    <3>3. QED
      BY <1>5, <1>7, <2>2, <3>1, <3>2
  <2>3. QED
    BY <2>1, <2>2
<1>14. ASSUME NEW i \in 1..(m - 1) PROVE g[r[i]] = IF i = m - 1 THEN Null ELSE r[i + 1]
  <2>0. i \in 1..m /\ i + 1 \in 1..m /\ i # m
    OBVIOUS
  <2>1. CASE i < q - 1
    <3>1. i < q /\ i + 1 < q /\ i # m - 1 /\ i + 1 \in 1..(m - 1) /\ i # q - 1 /\ q # 1 /\ q - 1 \in 1..m
      BY <2>1
    <3>2. r[i] = s[i] /\ r[i + 1] = s[i + 1]
      BY <1>10, <3>1
    <3>3. s[i] # p
      BY <1>7, <1>11, <2>0, <3>1
    <3>4. g[s[i]] = n[s[i]]
      BY <2>0, <3>3
    <3>5. n[s[i]] = s[i + 1]
      BY <1>12, <2>0
    <3>6. QED
      BY <3>1, <3>2, <3>4, <3>5
  <2>2. CASE i = q - 1
    <3>1. i < q /\ q # 1 /\ i + 1 = q /\ (i = m - 1 <=> q = m)
      BY <2>2
    <3>2. r[i] = p /\ p # Null
      BY <1>7, <1>10, <2>2, <3>1
    <3>3. g[r[i]] = IF q = m THEN Null ELSE s[q + 1]
      BY <1>3, <1>12, <3>2
    <3>4. q # m => r[q] = s[q + 1]
      <4>1. q # m => q \in 1..(m - 1) /\ ~(q < q)
        OBVIOUS
      <4>2. QED
        BY <1>10, <4>1
    <3>5. QED
      BY <3>1, <3>3, <3>4
  <2>3. CASE i >= q
    <3>1. ~(i < q) /\ i + 1 # q - 1 /\ (i = m - 1 <=> i + 1 = m)
      BY <2>3
    <3>2. r[i] = s[i + 1]
      BY <1>10, <3>1
    <3>3. s[i + 1] # p
      <4>1. CASE q = 1
        BY <1>6, <2>0, <4>1, KindsDisjoint
      <4>2. CASE q # 1
        <5>1. q - 1 \in 1..m
          BY <4>2
        <5>2. QED
          BY <1>7, <1>11, <2>0, <3>1, <4>2, <5>1
      <4>3. QED
        BY <4>1, <4>2
    <3>4. g[s[i + 1]] = n[s[i + 1]]
      BY <2>0, <3>3
    <3>5. n[s[i + 1]] = IF i + 1 = m THEN Null ELSE s[(i + 1) + 1]
      BY <1>12, <2>0
    <3>6. i # m - 1 => r[i + 1] = s[(i + 1) + 1]
      <4>1. i # m - 1 => i + 1 \in 1..(m - 1) /\ ~(i + 1 < q)
        BY <2>3
      <4>2. QED
        BY <1>10, <4>1
    <3>7. QED
      BY <3>1, <3>2, <3>4, <3>5, <3>6
  <2>4. i < q - 1 \/ i = q - 1 \/ i >= q
    OBVIOUS
  <2>5. QED
    BY <2>1, <2>2, <2>3, <2>4
<1>15. ASSUME NEW i \in 1..(m - 1)
       PROVE  \E j \in 1..m : j = (IF i < q THEN i ELSE i + 1) /\ r[i] = s[j] /\ j # q
  <2>1. CASE i < q
    BY <1>9, <1>10, <2>1
  <2>2. CASE ~(i < q)
    <3>1. i + 1 # q
      BY <2>2
    <3>2. QED
      BY <1>9, <1>10, <2>2, <3>1
  <2>3. QED
    BY <2>1, <2>2
<1>16. ASSUME NEW i \in 1..(m - 1), NEW j \in 1..(m - 1), r[i] = r[j] PROVE i = j
  <2>1. PICK x \in 1..m : x = (IF i < q THEN i ELSE i + 1) /\ r[i] = s[x]
    BY <1>15
  <2>2. PICK y \in 1..m : y = (IF j < q THEN j ELSE j + 1) /\ r[j] = s[y]
    BY <1>15
  <2>3. x = y
    BY <1>11, <1>16, <2>1, <2>2
  <2>4. QED
    BY <2>1, <2>2, <2>3
<1>17. \A i \in 1..(m - 1) : r[i] \in K \ {k}
  <2>1. SUFFICES ASSUME NEW i \in 1..(m - 1) PROVE r[i] \in K \ {k}
    OBVIOUS
  <2>2. PICK x \in 1..m : r[i] = s[x] /\ x # q
    BY <1>15
  <2>3. s[x] \in K /\ s[x] # k
    BY <1>2, <1>3, <1>11, <2>2 DEF Chain
  <2>4. QED
    BY <2>2, <2>3
<1>18. \A x \in K \ {k} : \E i \in 1..(m - 1) : r[i] = x
  <2>1. SUFFICES ASSUME NEW x \in K \ {k} PROVE \E i \in 1..(m - 1) : r[i] = x
    OBVIOUS
  <2>2. PICK j \in 1..m : s[j] = x /\ j # q
    BY <1>2, <1>3 DEF Chain
  <2>3. CASE j < q
    <3>1. j \in 1..(m - 1)
      BY <2>3
    <3>2. QED
      BY <1>10, <2>2, <2>3, <3>1
  <2>4. CASE ~(j < q)
    <3>1. j - 1 \in 1..(m - 1) /\ ~(j - 1 < q) /\ (j - 1) + 1 = j
      BY <2>2, <2>4
    <3>2. r[j - 1] = s[j]
      BY <1>10, <3>1
    <3>3. QED
      BY <2>2, <3>1, <3>2
  <2>5. QED
    BY <2>3, <2>4
<1>19. Chain(r, m - 1, IF p = Null THEN n[k] ELSE h, g, K \ {k})
  BY <1>13, <1>14, <1>16, <1>17, <1>18 DEF Chain
<1>20. QED
  BY <1>5, <1>10, <1>19 DEF Lists

-----------------------------------------------------------------------------
\* While no two threads were in calls on kernels at once, at most one is; the
\* list is of the kernels that live, but for the links that clCreateKernel still
\* has to set; and clReleaseKernel has a place in it, in front of its kernel when
\* it unlinks that.
Living == Kernels \cap Alive
ListOK == ~raced =>
  /\ \A s, t \in Threads : Calling(s) /\ Calling(t) => s = t
  /\ (\A t \in Threads : call[t].at # "create") => Lists(head, next, Living)
  /\ \A t \in Threads : call[t].at = "create" =>
       Lists(head, [next EXCEPT ![call[t].kernel] = call[t].link], Living)
  /\ \A t \in Threads : call[t].at \in {"walk", "unlink"} =>
       call[t].link \in Living \cup {Null} /\ call[t].link # call[t].kernel
  /\ \A t \in Threads : call[t].at = "unlink" => Link(call[t].link) = call[t].kernel

\* The same, where thread t alone may be in such a call, as v.
PlaceOf(v, h, n, K) ==
  /\ v.at # "create" => Lists(h, n, K)
  /\ v.at = "create" => Lists(h, [n EXCEPT ![v.kernel] = v.link], K)
  /\ v.at \in {"walk", "unlink"} => v.link \in K \cup {Null} /\ v.link # v.kernel
  /\ v.at = "unlink" => (IF v.link = Null THEN h ELSE n[v.link]) = v.kernel
Alone(t) == \A s \in Threads : s # t => call[s].at = "idle"

LEMMA ListOfOne ==
  ASSUME ListOK, ~raced, NEW t \in Threads, Alone(t)
  PROVE  PlaceOf(call[t], head, next, Living)
<1>1. call[t].at # "create" => \A s \in Threads : call[s].at # "create"
  BY DEF Alone
<1>2. QED
  BY <1>1 DEF ListOK, PlaceOf, Link

LEMMA CallerAlone ==
  ASSUME ListOK, ~raced, NEW t \in Threads, Calling(t)
  PROVE  Alone(t)
BY DEF ListOK, Alone, Calling

LEMMA ListEnters ==
  ASSUME TypeOK, NEW t \in Threads, Alone(t), NEW v \in CallStates, call' = [call EXCEPT ![t] = v],
         PlaceOf(v, head', next', Living')
  PROVE  ListOK'
<1>1. call'[t] = v /\ \A s \in Threads : s # t => call'[s] = call[s]
  BY CallSet
<1>2. \A s \in Threads : s # t => call'[s].at = "idle"
  BY <1>1 DEF Alone
<1>3. \A s \in Threads : call'[s].at # "idle" => s = t
  BY <1>2
<1>4. (\A s \in Threads : call'[s].at # "create") => Lists(head', next', Living')
  BY <1>1 DEF PlaceOf
<1>5. \A s \in Threads : call'[s].at = "create" =>
        Lists(head', [next' EXCEPT ![call'[s].kernel] = call'[s].link], Living')
  BY <1>1, <1>3 DEF PlaceOf
<1>6. \A s \in Threads : call'[s].at \in {"walk", "unlink"} =>
        call'[s].link \in Living' \cup {Null} /\ call'[s].link # call'[s].kernel
  BY <1>1, <1>3 DEF PlaceOf
<1>7. \A s \in Threads : call'[s].at = "unlink" =>
        (IF call'[s].link = Null THEN head' ELSE next'[call'[s].link]) = call'[s].kernel
  BY <1>1, <1>3 DEF PlaceOf
<1>8. \A r, s \in Threads : call'[r].at # "idle" /\ call'[s].at # "idle" => r = s
  BY <1>3
<1>9. QED
  BY <1>4, <1>5, <1>6, <1>7, <1>8 DEF ListOK, Calling, Link

\* Steps that leave the list, the calls and the living kernels alone.
LEMMA ListAlone ==
  ASSUME ListOK, head' = head, next' = next, call' = call, raced' = raced, Living' = Living
  PROVE  ListOK'
BY DEF ListOK, Calling, Link

LEMMA LivingSame ==
  ASSUME made' \cap Kernels = made \cap Kernels, refs'.freed \cap Kernels = refs.freed \cap Kernels
  PROVE  Living' = Living
BY DEF Living, Alive

LEMMA ListClient ==
  ASSUME CoreOK, ListOK, NEW t \in Threads, ClientStep(t)
  PROVE  ListOK'
<1>1. head' = head /\ next' = next /\ call' = call /\ raced' = raced
  BY DEF ClientStep, Retain, CreateBuffer, ReleaseMemObject, CreateSubBuffer, CreateProgram,
         ReleaseProgram, ReleaseContext, kernelVars
<1>2. refs \in Counts /\ parent \in [Buffers -> Buffers \cup {Null}] /\ NumDevices \in Int /\ 1 \in Int
  BY StateTyped, KindsDisjoint DEF CoreOK
<1>3. ASSUME NEW o \in Objects, Retain(t, o) PROVE Living' = Living
  <2>1. refs' = Retained(refs, <<o>>) /\ made' = made
    BY <1>3 DEF Retain
  <2>2. QED
    BY <1>2, <2>1, RetainedOne, LivingSame
<1>4. ASSUME NEW o \in Objects \ Kernels, NEW n \in Int, NEW r, r = [refs EXCEPT !.count[o] = n],
             \/ refs' = Retained(r, <<Context>>)
             \/ \E p \in Objects : refs' = Retained(r, <<p, Context>>),
             made' = made \cup {o}
      PROVE  Living' = Living
  <2>1. r \in Counts /\ r.freed = refs.freed
    BY <1>2, <1>4, CountSet
  <2>2. refs'.freed = refs.freed
    <3>1. CASE refs' = Retained(r, <<Context>>)
      BY <2>1, <3>1, RetainedOne, KindsDisjoint
    <3>2. ASSUME NEW p \in Objects, refs' = Retained(r, <<p, Context>>) PROVE refs'.freed = refs.freed
      BY <2>1, <3>2, RetainedTwo, KindsDisjoint
    <3>3. QED
      BY <1>4, <3>1, <3>2
  <2>3. QED
    BY <1>4, <2>2, LivingSame
<1>5. ASSUME NEW b \in Buffers, CreateBuffer(t, b) PROVE Living' = Living
  <2>1. refs' = Retained([refs EXCEPT !.count[b] = NumDevices], <<Context>>) /\ made' = made \cup {b}
    BY <1>5 DEF CreateBuffer
  <2>2. QED
    BY <1>2, <1>4, <2>1, KindsDisjoint
<1>6. ASSUME NEW b \in Buffers, NEW p \in Buffers, CreateSubBuffer(t, b, p) PROVE Living' = Living
  <2>1. refs' = Retained([refs EXCEPT !.count[b] = 1], <<p, Context>>) /\ made' = made \cup {b}
    BY <1>6 DEF CreateSubBuffer
  <2>2. QED
    BY <1>2, <1>4, <2>1, KindsDisjoint
<1>7. ASSUME CreateProgram(t) PROVE Living' = Living
  <2>1. refs' = Retained([refs EXCEPT !.count[Program] = 1], <<Context>>) /\ made' = made \cup {Program}
    BY <1>7 DEF CreateProgram
  <2>2. QED
    BY <1>2, <1>4, <2>1, KindsDisjoint
<1>8. ASSUME NEW o \in Objects \ Kernels, refs'.freed = refs.freed \/ refs'.freed = refs.freed \cup {o},
             made' = made
      PROVE  Living' = Living
  BY <1>8, LivingSame
<1>9. ASSUME NEW b \in Buffers, ReleaseMemObject(t, b) PROVE Living' = Living
  <2>1. refs' = MemReleased(refs, b) /\ made' = made
    BY <1>9 DEF ReleaseMemObject
  <2>2. refs'.freed = refs.freed \/ refs'.freed = refs.freed \cup {b}
    BY <1>2, <2>1, MemReleasedIs
  <2>3. QED
    BY <1>8, <2>1, <2>2, KindsDisjoint
<1>10. ASSUME ReleaseProgram(t) PROVE Living' = Living
  <2>1. refs' = ProgramReleased(refs) /\ made' = made
    BY <1>10 DEF ReleaseProgram
  <2>2. refs'.freed = refs.freed \/ refs'.freed = refs.freed \cup {Program}
    BY <1>2, <2>1, ProgramReleasedIs
  <2>3. QED
    BY <1>8, <2>1, <2>2, KindsDisjoint
<1>11. ASSUME ReleaseContext(t) PROVE Living' = Living
  <2>1. PICK r : r = Dropped(refs, Context)
    OBVIOUS
  <2>2. /\ refs' = IF r.count[Context] = 0 THEN [r EXCEPT !.freed = @ \cup {Context}] ELSE r
        /\ made' = made
    BY <1>11, <2>1 DEF ReleaseContext
  <2>3. r \in Counts /\ r.freed = refs.freed
    BY <1>2, <2>1, DroppedOne, KindsDisjoint
  <2>4. refs'.freed = refs.freed \/ refs'.freed = refs.freed \cup {Context}
    BY <2>2, <2>3, FreedMore, KindsDisjoint
  <2>5. QED
    BY <1>8, <2>2, <2>4, KindsDisjoint
<1>12. Living' = Living
  BY <1>3, <1>5, <1>6, <1>7, <1>9, <1>10, <1>11 DEF ClientStep
<1>13. QED
  BY <1>1, <1>12, ListAlone

LEMMA ListEnqueue ==
  ASSUME CoreOK, ListOK, NEW t \in Threads, EnqueueStep(t)
  PROVE  ListOK'
<1>1. head' = head /\ next' = next /\ call' = call /\ raced' = raced /\ made' = made
  BY DEF EnqueueStep, EnqueueUse, EnqueueFails, MapBuffer, UnmapMemObject, kernelVars
<1>2. refs \in Counts
  BY StateTyped DEF CoreOK
<1>3. \/ refs' = refs
      \/ \E o \in Objects : refs' = Retained(refs, <<o>>)
      \/ \E o, p \in Objects : refs' = Retained(refs, <<o, p>>)
  <2>1. CASE \E b \in Buffers : EnqueueUse(t, <<b>>, Null)
    BY <2>1, KindsDisjoint DEF EnqueueUse, Uses
  <2>2. CASE \E b, p \in Buffers : EnqueueUse(t, <<b, p>>, Null)
    BY <2>2, KindsDisjoint DEF EnqueueUse, Uses
  <2>3. ASSUME NEW b \in Buffers, NEW k \in Kernels, EnqueueUse(t, <<b>>, k)
        PROVE  \E o, p \in Objects : refs' = Retained(refs, <<o, p>>)
    <3>1. Uses(<<b>>, k) = Append(<<b>>, k)
      BY KindsDisjoint DEF Uses
    <3>2. Append(<<b>>, k) = <<b, k>>
      BY KindsDisjoint, AppendedPair
    <3>3. refs' = Retained(refs, <<b, k>>)
      BY <2>3, <3>1, <3>2 DEF EnqueueUse
    <3>4. QED
      BY <3>3, KindsDisjoint
  <2>4. CASE \E b \in Buffers : EnqueueFails(t, b)
    BY <2>4, KindsDisjoint DEF EnqueueFails, MapRetains
  <2>5. CASE \E b \in Buffers, a \in Addresses : MapBuffer(t, b, a) \/ UnmapMemObject(t, b, a)
    BY <2>5, KindsDisjoint DEF MapBuffer, MapRetains, UnmapMemObject
  <2>6. QED
    BY <2>1, <2>2, <2>3, <2>4, <2>5 DEF EnqueueStep
<1>4. refs'.freed = refs.freed
  <2>1. ASSUME NEW o \in Objects, refs' = Retained(refs, <<o>>) PROVE refs'.freed = refs.freed
    BY <1>2, <2>1, RetainedOne
  <2>2. ASSUME NEW o \in Objects, NEW p \in Objects, refs' = Retained(refs, <<o, p>>)
        PROVE  refs'.freed = refs.freed
    BY <1>2, <2>2, RetainedTwo
  <2>3. QED
    BY <1>3, <2>1, <2>2
<1>5. QED
  BY <1>1, <1>4, LivingSame, ListAlone

LEMMA ListCreateKernel ==
  ASSUME CoreOK, ListOK, NEW t \in Threads, NEW k \in Kernels, CreateKernel(t, k)
  PROVE  ListOK'
<1>1. SUFFICES ASSUME ~raced' PROVE ListOK'
  BY DEF ListOK
<1>2. PICK v \in CallStates : v = [at |-> "create", kernel |-> k, link |-> head]
  BY TypeParts DEF CallStates, CoreOK
<1>3. /\ refs' = [refs EXCEPT !.count[k] = NumDevices] /\ made' = made \cup {k} /\ k \notin made
      /\ head' = k /\ next' = [next EXCEPT ![k] = Null] /\ call[t].at = "idle"
      /\ call' = [call EXCEPT ![t] = v]
      /\ raced' = (raced \/ \E s \in Threads \ {t} : call[s].at # "idle")
  BY <1>2 DEF CreateKernel, CanMake, Enter, Idle
<1>4. ~raced /\ Alone(t)
  BY <1>1, <1>3 DEF Alone
<1>5. Lists(head, next, Living)
  BY <1>3, <1>4, ListOfOne DEF PlaceOf
<1>6. refs'.freed = refs.freed /\ k \notin Living
  <2>1. refs \in Counts /\ NumDevices \in Int /\ k \in Objects
    BY StateTyped, KindsDisjoint DEF CoreOK
  <2>2. refs'.freed = refs.freed
    BY <1>3, <2>1, CountSet
  <2>3. QED
    BY <1>3, <2>2 DEF Living, Alive
<1>7. Living' = Living \cup {k}
  <2>1. k \notin refs.freed
    BY <1>3, StateTyped DEF CoreOK
  <2>2. QED
    BY <1>3, <1>6, <2>1 DEF Living, Alive
<1>8. next \in [Kernels -> Kernels \cup {Null}] /\ head \in Kernels \cup {Null}
  BY TypeParts DEF CoreOK
<1>9. PICK g : g = [next' EXCEPT ![v.kernel] = v.link]
  OBVIOUS
<1>10. g[k] = head /\ \A x \in Kernels : x # k => g[x] = next[x]
  BY <1>2, <1>3, <1>8, <1>9
<1>11. Lists(k, g, Living \cup {k})
  BY <1>5, <1>6, <1>10, ListsPush DEF Living
<1>12. v.at = "create" /\ Lists(head', [next' EXCEPT ![v.kernel] = v.link], Living')
  BY <1>2, <1>3, <1>7, <1>9, <1>11
<1>13. PlaceOf(v, head', next', Living')
  BY <1>12 DEF PlaceOf
<1>14. QED
  BY <1>3, <1>4, <1>13, ListEnters DEF CoreOK

LEMMA ListLinkOthers ==
  ASSUME CoreOK, ListOK, NEW t \in Threads, LinkOthers(t)
  PROVE  ListOK'
<1>1. SUFFICES ASSUME ~raced' PROVE ListOK'
  BY DEF ListOK
<1>2. PICK v \in CallStates : v = NoCall
  BY CallOfState DEF CoreOK
<1>3. /\ refs' = Retained(refs, <<Program>>) /\ made' = made /\ head' = head
      /\ next' = [next EXCEPT ![call[t].kernel] = call[t].link] /\ call[t].at = "create"
      /\ call' = [call EXCEPT ![t] = v] /\ raced' = raced
  BY <1>2 DEF LinkOthers, At, Leave
<1>4. ~raced /\ Alone(t)
  BY <1>1, <1>3, CallerAlone DEF Calling
<1>5. Lists(head, [next EXCEPT ![call[t].kernel] = call[t].link], Living)
  BY <1>3, <1>4, ListOfOne DEF PlaceOf
<1>6. Living' = Living
  BY <1>3, StateTyped, RetainedOne, KindsDisjoint, LivingSame DEF CoreOK
<1>7. v.at = "idle" /\ Lists(head', next', Living')
  BY <1>2, <1>3, <1>5, <1>6 DEF NoCall
<1>8. PlaceOf(v, head', next', Living')
  BY <1>7 DEF PlaceOf
<1>9. QED
  BY <1>3, <1>4, <1>8, ListEnters DEF CoreOK

\* A call that begins to walk.
LEMMA ListWalks ==
  ASSUME CoreOK, ListOK, NEW t \in Threads, call[t].at = "idle", NEW k \in Kernels,
         head' = head, next' = next, Living' = Living,
         \/ Enter(t, "walk", k, Null)
         \/ call' = call /\ raced' = raced
  PROVE  ListOK'
<1>1. CASE call' = call /\ raced' = raced
  BY <1>1, ListAlone
<1>2. CASE Enter(t, "walk", k, Null)
  <2>1. SUFFICES ASSUME ~raced' PROVE ListOK'
    BY DEF ListOK
  <2>2. PICK v \in CallStates : v = [at |-> "walk", kernel |-> k, link |-> Null]
    BY DEF CallStates
  <2>3. /\ call' = [call EXCEPT ![t] = v]
        /\ raced' = (raced \/ \E s \in Threads \ {t} : call[s].at # "idle")
    BY <1>2, <2>2 DEF Enter
  <2>4. ~raced /\ Alone(t)
    BY <2>1, <2>3 DEF Alone
  <2>5. Lists(head, next, Living)
    BY <2>4, ListOfOne DEF PlaceOf
  <2>6. v.at = "walk" /\ v.link = Null /\ v.link # v.kernel
    BY <2>2, KindsDisjoint
  <2>7. PlaceOf(v, head', next', Living')
    BY <2>5, <2>6 DEF PlaceOf
  <2>8. QED
    BY <2>3, <2>4, <2>7, ListEnters DEF CoreOK
<1>3. QED
  BY <1>1, <1>2

LEMMA ListReleaseKernel ==
  ASSUME CoreOK, ListOK, NEW t \in Threads, NEW k \in Kernels, ReleaseKernel(t, k)
  PROVE  ListOK'
<1>1. /\ refs' = Dropped(refs, k) /\ made' = made /\ call[t].at = "idle"
      /\ head' = head /\ next' = next
      /\ \/ Enter(t, "walk", k, Null)
         \/ call' = call /\ raced' = raced
  BY DEF ReleaseKernel, Idle
<1>2. Living' = Living
  BY <1>1, StateTyped, DroppedOne, KindsDisjoint, LivingSame DEF CoreOK
<1>3. QED
  BY <1>1, <1>2, ListWalks

LEMMA ListExecute ==
  ASSUME CoreOK, ListOK, NEW t \in Threads, ExecuteStep(t)
  PROVE  ListOK'
<1>1. CASE ExecuteUse(t)
  <2>1. PICK k \in Kernels \cup {Null} : k = queue[1].kernel
    BY <1>1, FirstUses, CommandParts DEF CoreOK, ExecuteUse
  <2>2. /\ call[t].at = "idle" /\ made' = made /\ head' = head /\ next' = next
        /\ \/ k # Null /\ Enter(t, "walk", k, Null)
           \/ call' = call /\ raced' = raced
    BY <1>1, <2>1 DEF ExecuteUse, Idle
  <2>3. Living' = Living
    BY <1>1, <2>2, CountsExecuteUse, LivingSame DEF CoreOK
  <2>4. CASE k # Null /\ Enter(t, "walk", k, Null)
    <3>1. k \in Kernels
      BY <2>4
    <3>2. QED
      BY <2>2, <2>3, <2>4, <3>1, ListWalks
  <2>5. CASE call' = call /\ raced' = raced
    BY <2>2, <2>3, <2>5, ListAlone
  <2>6. QED
    BY <2>2, <2>4, <2>5
<1>2. CASE ExecuteMap(t) \/ ExecuteUnmap(t) \/ Delete(t) \/ StoreCount(t)
  <2>1. head' = head /\ next' = next /\ call' = call /\ raced' = raced /\ made' = made /\ refs' = refs
    BY <1>2 DEF ExecuteMap, ExecuteUnmap, Takes, Delete, StoreCount, Corrupts, kernelVars
  <2>2. QED
    BY <2>1, LivingSame, ListAlone
<1>3. QED
  BY <1>1, <1>2 DEF ExecuteStep

LEMMA ListWalk ==
  ASSUME CoreOK, ListOK, NEW t \in Threads, Walk(t)
  PROVE  ListOK'
<1>1. CASE Corrupts
  <2>1. head' = head /\ next' = next /\ call' = call /\ raced' = raced /\ made' = made /\ refs' = refs
    BY <1>1 DEF Corrupts, kernelVars
  <2>2. QED
    BY <2>1, LivingSame, ListAlone
<1>2. CASE ~Corrupts
  <2>1. SUFFICES ASSUME ~raced' PROVE ListOK'
    BY DEF ListOK
  <2>2. PICK k, p : k = call[t].kernel /\ p = call[t].link
    OBVIOUS
  <2>3. /\ refs' = refs /\ made' = made /\ call[t].at = "walk" /\ head' = head /\ next' = next
        /\ \/ Link(p) = k /\ Enter(t, "unlink", k, p)
           \/ Leave(t)
           \/ Link(p) # k /\ Enter(t, "walk", k, Link(p))
    BY <1>2, <2>2, Zenon DEF Walk, At
  <2>4. ~raced /\ Alone(t)
    <3>1. ~raced
      BY <2>1, <2>3 DEF Enter, Leave
    <3>2. Calling(t)
      BY <2>3 DEF Calling
    <3>3. QED
      BY <3>1, <3>2, CallerAlone
  <2>5. /\ Lists(head, next, Living) /\ p \in Living \cup {Null} /\ p # k
    BY <2>2, <2>3, <2>4, ListOfOne DEF PlaceOf
  <2>6. Link(p) \in Living \cup {Null}
    BY <2>5, ListsClosed DEF Link
  <2>7. Living' = Living
    BY <2>3, LivingSame
  <2>8. k \in Kernels /\ Living \subseteq Kernels
    BY <2>2, <2>3, CallsUnused DEF Calling, CoreOK, Living
  <2>9. CASE Link(p) = k /\ Enter(t, "unlink", k, p)
    <3>1. PICK v \in CallStates : v = [at |-> "unlink", kernel |-> k, link |-> p]
      BY <2>5, <2>8 DEF CallStates
    <3>2. call' = [call EXCEPT ![t] = v]
      BY <2>9, <3>1 DEF Enter
    <3>3. /\ v.at = "unlink" /\ v.link = p /\ v.kernel = k
          /\ (IF v.link = Null THEN head' ELSE next'[v.link]) = v.kernel
      BY <2>3, <2>9, <3>1 DEF Link
    <3>4. PlaceOf(v, head', next', Living')
      BY <2>3, <2>5, <2>7, <3>3 DEF PlaceOf
    <3>5. QED
      BY <2>4, <3>2, <3>4, ListEnters DEF CoreOK
  <2>10. CASE Leave(t)
    <3>1. PICK v \in CallStates : v = NoCall
      BY CallOfState DEF CoreOK
    <3>2. call' = [call EXCEPT ![t] = v]
      BY <2>10, <3>1 DEF Leave
    <3>3. v.at = "idle"
      BY <3>1 DEF NoCall
    <3>4. PlaceOf(v, head', next', Living')
      BY <2>3, <2>5, <2>7, <3>3 DEF PlaceOf
    <3>5. QED
      BY <2>4, <3>2, <3>4, ListEnters DEF CoreOK
  <2>11. CASE Link(p) # k /\ Enter(t, "walk", k, Link(p))
    <3>1. PICK v \in CallStates : v = [at |-> "walk", kernel |-> k, link |-> Link(p)]
      BY <2>6, <2>8 DEF CallStates
    <3>2. call' = [call EXCEPT ![t] = v]
      BY <2>11, <3>1 DEF Enter
    <3>3. v.at = "walk" /\ v.link = Link(p) /\ v.kernel = k
      BY <3>1
    <3>4. PlaceOf(v, head', next', Living')
      BY <2>3, <2>5, <2>6, <2>7, <2>11, <3>3 DEF PlaceOf
    <3>5. QED
      BY <2>4, <3>2, <3>4, ListEnters DEF CoreOK
  <2>12. QED
    BY <2>3, <2>9, <2>10, <2>11
<1>3. QED
  BY <1>1, <1>2

LEMMA ListUnlink ==
  ASSUME CoreOK, ListOK, NEW t \in Threads, Unlink(t)
  PROVE  ListOK'
<1>1. CASE Corrupts
  <2>1. head' = head /\ next' = next /\ call' = call /\ raced' = raced /\ made' = made /\ refs' = refs
    BY <1>1 DEF Corrupts, kernelVars
  <2>2. QED
    BY <2>1, LivingSame, ListAlone
<1>2. CASE ~Corrupts
  <2>1. SUFFICES ASSUME ~raced' PROVE ListOK'
    BY DEF ListOK
  <2>2. PICK k, p : k = call[t].kernel /\ p = call[t].link
    OBVIOUS
  <2>3. PICK v \in CallStates : v = NoCall
    BY CallOfState DEF CoreOK
  <2>4. /\ made' = made /\ call[t].at = "unlink" /\ call' = [call EXCEPT ![t] = v] /\ raced' = raced
        /\ refs' = FreeKernel(refs, k)
        /\ head' = (IF p = Null THEN next[Link(p)] ELSE head)
        /\ next' = (IF p = Null THEN next ELSE [next EXCEPT ![p] = next[Link(p)]])
    BY <1>2, <2>2, <2>3 DEF Unlink, At, Leave
  <2>5. ~raced /\ Alone(t)
    BY <2>1, <2>4, CallerAlone DEF Calling
  <2>6. /\ Lists(head, next, Living) /\ p \in Living \cup {Null}
        /\ k = (IF p = Null THEN head ELSE next[p])
    BY <2>2, <2>4, <2>5, ListOfOne DEF PlaceOf
  <2>7. Link(p) = k
    BY <2>6 DEF Link
  <2>8. k \in Kernels /\ k \in made /\ k \notin refs.freed /\ k \in Living /\ Living \subseteq Kernels
    BY <2>2, <2>4, CallsUnused DEF Calling, CoreOK, Living, Alive
  <2>9. k \in refs'.freed
    <3>1. PICK r : r = ProgramReleased(refs)
      OBVIOUS
    <3>2. r \in Counts
      BY <3>1, StateTyped, ProgramReleasedIs DEF CoreOK
    <3>3. refs' = [r EXCEPT !.freed = @ \cup {k}]
      BY <2>4, <3>1 DEF FreeKernel
    <3>4. k \in Objects
      BY <2>8, KindsDisjoint
    <3>5. QED
      BY <3>2, <3>3, <3>4, FreedMore
  <2>10. refs'.freed \cap Kernels = (refs.freed \cap Kernels) \cup {k}
    BY <2>2, <2>8, <2>9, CountsUnlink DEF CoreOK
  <2>11. Living' = Living \ {k}
    BY <2>4, <2>10 DEF Living, Alive
  <2>12. next \in [Kernels -> Kernels \cup {Null}]
    BY TypeParts DEF CoreOK
  <2>13. /\ p # Null => next'[p] = next[k]
         /\ \A x \in Kernels : x # p => next'[x] = next[x]
    BY <2>4, <2>6, <2>7, <2>8, <2>12
  <2>14. Lists(IF p = Null THEN next[k] ELSE head, next', Living \ {k})
    BY <2>6, <2>8, <2>13, ListsCut
  <2>15. v.at = "idle" /\ Lists(head', next', Living')
    BY <2>3, <2>4, <2>7, <2>11, <2>14 DEF NoCall
  <2>16. PlaceOf(v, head', next', Living')
    BY <2>15 DEF PlaceOf
  <2>17. QED
    BY <2>4, <2>5, <2>16, ListEnters DEF CoreOK
<1>3. QED
  BY <1>1, <1>2

LEMMA ListNext ==
  ASSUME CoreOK, ListOK, [Next]_vars
  PROVE  CoreOK' /\ ListOK'
<1>1. CoreOK'
  BY CoreNext
<1>2. CASE UNCHANGED vars
  <2>1. head' = head /\ next' = next /\ call' = call /\ raced' = raced /\ made' = made /\ refs' = refs
    BY <1>2 DEF vars
  <2>2. QED
    BY <1>1, <2>1, LivingSame, ListAlone
<1>3. ASSUME NEW t \in Threads, ClientStep(t) PROVE ListOK'
  BY <1>3, ListClient
<1>4. ASSUME NEW t \in Threads, EnqueueStep(t) PROVE ListOK'
  BY <1>4, ListEnqueue
<1>5. ASSUME NEW t \in Threads, KernelStep(t) PROVE ListOK'
  BY <1>5, ListCreateKernel, ListReleaseKernel, ListLinkOthers, ListWalk, ListUnlink DEF KernelStep
<1>6. ASSUME NEW t \in Threads, ExecuteStep(t) PROVE ListOK'
  BY <1>6, ListExecute
<1>7. QED
  BY <1>1, <1>2, <1>3, <1>4, <1>5, <1>6, NextSteps

LEMMA ListInit ==
  ASSUME Init
  PROVE  ListOK
<1>1. /\ head = Null /\ refs.freed = {} /\ made = {Context}
      /\ \A t \in Threads : call[t] = NoCall
  BY DEF Init
<1>2. Living = {}
  BY <1>1, KindsDisjoint DEF Living, Alive
<1>3. \A t \in Threads : call[t].at = "idle"
  BY <1>1 DEF NoCall
<1>4. Lists(head, next, Living)
  <2>1. PICK m \in Nat : m = 0
    OBVIOUS
  <2>2. PICK s : s = [i \in 1..m |-> Null]
    OBVIOUS
  <2>3. 1..m = {}
    BY <2>1
  <2>4. s \in [1..m -> Kernels]
    BY <2>2, <2>3
  <2>5. Chain(s, m, head, next, Living)
    BY <1>1, <1>2, <2>1, <2>3 DEF Chain
  <2>6. QED
    BY <2>4, <2>5 DEF Lists
<1>5. QED
  BY <1>3, <1>4 DEF ListOK, Calling

\* The kernels that every set closed under the links has are those of the list.
LEMMA ListedIs ==
  ASSUME NEW K, K \subseteq Kernels, Lists(head, next, K)
  PROVE  Listed = K
<1>1. head \in K \cup {Null} /\ \A x \in K : next[x] \in K \cup {Null}
  BY ListsClosed
<1>2. Listed \subseteq K
  BY <1>1 DEF Listed
<1>3. \A S \in SUBSET Kernels :
        head \in S \cup {Null} /\ (\A x \in S : next[x] \in S \cup {Null}) => K \subseteq S
  BY ListsReach
<1>4. K \subseteq Listed
  BY <1>3 DEF Listed
<1>5. QED
  BY <1>2, <1>4

\* While no two threads were in clCreateKernel or clReleaseKernel at once, the
\* list of a program holds the kernels that live and no other, as soon as no
\* thread is in such a call.
THEOREM ListHoldsTheLiving == Spec => []KernelsListed
<1>1. Init => CoreOK /\ ListOK
  BY CoreInit, ListInit
<1>2. CoreOK /\ ListOK /\ [Next]_vars => (CoreOK /\ ListOK)'
  BY ListNext
<1>3. CoreOK /\ ListOK => KernelsListed
  <2>1. SUFFICES ASSUME ListOK, ~raced, \A t \in Threads : call[t].at = "idle"
                 PROVE  Listed = {k \in Kernels : Live(k)}
    BY DEF KernelsListed
  <2>2. Lists(head, next, Living)
    BY <2>1 DEF ListOK
  <2>3. Living = {k \in Kernels : Live(k)}
    BY DEF Living, Alive, Live
  <2>4. Listed = Living
    BY <2>2, ListedIs DEF Living
  <2>5. QED
    BY <2>3, <2>4
<1>4. QED
  BY <1>1, <1>2, <1>3, PTL DEF Spec

-----------------------------------------------------------------------------
\* Memory that was freed, or an element that is not in its list, is touched only
\* where two threads were in calls on kernels at once, where two threads changed
\* the list of a buffer's mappings at once, or where a buffer was mapped twice at
\* one address.
Intact == corrupt => raced \/ torn # {} \/ \E b \in Buffers : ~MappedOnce(b)

\* What excuses a corruption lasts.
LEMMA ExcusesLast ==
  ASSUME CoreOK, CoreOK', [Next]_vars
  PROVE  /\ raced => raced'
         /\ torn \subseteq torn'
         /\ \A b \in Buffers : MappedOnce(b)' => MappedOnce(b)
<1>1. \/ mapping' = mapping
      \/ \E m \in Maps : mapping' = Append(mapping, m)
  <2>1. ASSUME NEW t \in Threads, NEW b \in Buffers, NEW a \in Addresses \cup {Null},
               MapBuffer(t, b, a) \/ (a = Null /\ EnqueueFails(t, b))
        PROVE  \E m \in Maps : mapping' = Append(mapping, m)
    <3>1. [of |-> b, at |-> a] \in Maps
      BY DEF Maps
    <3>2. QED
      BY <2>1, <3>1 DEF MapBuffer, EnqueueFails
  <2>2. CASE UNCHANGED vars
    BY <2>2 DEF vars
  <2>3. ASSUME NEW t \in Threads, ClientStep(t) PROVE mapping' = mapping
    BY <2>3 DEF ClientStep, Retain, CreateBuffer, ReleaseMemObject, CreateSubBuffer, CreateProgram,
                ReleaseProgram, ReleaseContext, mapVars
  <2>4. ASSUME NEW t \in Threads, EnqueueStep(t)
        PROVE  mapping' = mapping \/ \E m \in Maps : mapping' = Append(mapping, m)
    <3>1. CASE \E b \in Buffers : EnqueueFails(t, b)
      BY <2>1, <3>1
    <3>2. CASE \E b \in Buffers, a \in Addresses : MapBuffer(t, b, a)
      BY <2>1, <3>2
    <3>3. CASE \E b \in Buffers, a \in Addresses : UnmapMemObject(t, b, a)
      BY <3>3 DEF UnmapMemObject
    <3>4. CASE \/ \E b \in Buffers : EnqueueUse(t, <<b>>, Null)
               \/ \E b, p \in Buffers : EnqueueUse(t, <<b, p>>, Null)
               \/ \E b \in Buffers, k \in Kernels : EnqueueUse(t, <<b>>, k)
      BY <3>4 DEF EnqueueUse, mapVars
    <3>5. QED
      BY <2>4, <3>1, <3>2, <3>3, <3>4 DEF EnqueueStep
  <2>5. ASSUME NEW t \in Threads, KernelStep(t) \/ ExecuteStep(t) PROVE mapping' = mapping
    BY <2>5 DEF KernelStep, CreateKernel, ReleaseKernel, LinkOthers, Walk, Unlink, Corrupts,
                ExecuteStep, ExecuteUse, ExecuteMap, ExecuteUnmap, Takes, Delete, StoreCount, mapVars
  <2>6. QED
    BY <2>2, <2>3, <2>4, <2>5, NextSteps
<1>2. /\ DOMAIN mapping \subseteq DOMAIN mapping'
      /\ \A i \in DOMAIN mapping : mapping'[i] = mapping[i]
  <2>1. mapping \in Seq(Maps)
    BY TypeParts DEF CoreOK
  <2>2. CASE mapping' = mapping
    BY <2>2
  <2>3. ASSUME NEW m \in Maps, mapping' = Append(mapping, m)
        PROVE  DOMAIN mapping \subseteq DOMAIN mapping' /\ \A i \in DOMAIN mapping : mapping'[i] = mapping[i]
    BY <2>1, <2>3, MappingAppended
  <2>4. QED
    BY <1>1, <2>2, <2>3
<1>3. \A b \in Buffers : MappedOnce(b)' => MappedOnce(b)
  BY <1>2, OnceBefore
<1>4. raced => raced'
  <2>1. SUFFICES ASSUME raced PROVE raced'
    OBVIOUS
  <2>2. CASE UNCHANGED vars
    BY <2>1, <2>2 DEF vars
  <2>3. ASSUME NEW t \in Threads, ClientStep(t) PROVE raced'
    BY <2>1, <2>3 DEF ClientStep, Retain, CreateBuffer, ReleaseMemObject, CreateSubBuffer, CreateProgram,
                ReleaseProgram, ReleaseContext, kernelVars
  <2>4. ASSUME NEW t \in Threads, EnqueueStep(t) PROVE raced'
    BY <2>1, <2>4 DEF EnqueueStep, EnqueueUse, EnqueueFails, MapBuffer, UnmapMemObject, kernelVars
  <2>5. ASSUME NEW t \in Threads, KernelStep(t) PROVE raced'
    <3>1. CASE \E k \in Kernels : CreateKernel(t, k) \/ ReleaseKernel(t, k)
      BY <2>1, <3>1 DEF CreateKernel, ReleaseKernel, Enter
    <3>2. CASE LinkOthers(t)
      BY <2>1, <3>2 DEF LinkOthers, Leave
    <3>3. CASE Walk(t)
      BY <2>1, <3>3 DEF Walk, Corrupts, Enter, Leave, kernelVars
    <3>4. CASE Unlink(t)
      BY <2>1, <3>4 DEF Unlink, Corrupts, Leave, kernelVars
    <3>5. QED
      BY <2>5, <3>1, <3>2, <3>3, <3>4 DEF KernelStep
  <2>6. ASSUME NEW t \in Threads, ExecuteStep(t) PROVE raced'
    BY <2>1, <2>6 DEF ExecuteStep, ExecuteUse, ExecuteMap, ExecuteUnmap, Takes, Delete, StoreCount,
                      Corrupts, Enter, kernelVars
  <2>7. QED
    BY <2>2, <2>3, <2>4, <2>5, <2>6, NextSteps
<1>5. torn \subseteq torn'
  <2>1. CASE UNCHANGED vars
    BY <2>1 DEF vars
  <2>2. ASSUME NEW t \in Threads, ClientStep(t) PROVE torn' = torn
    BY <2>2 DEF ClientStep, Retain, CreateBuffer, ReleaseMemObject, CreateSubBuffer, CreateProgram,
                ReleaseProgram, ReleaseContext, mapVars, editVars
  <2>3. ASSUME NEW t \in Threads, EnqueueStep(t) PROVE torn \subseteq torn'
    BY <2>3 DEF EnqueueStep, EnqueueUse, EnqueueFails, MapBuffer, UnmapMemObject, Marked, mapVars, editVars
  <2>4. ASSUME NEW t \in Threads, KernelStep(t) PROVE torn' = torn
    BY <2>4 DEF KernelStep, CreateKernel, ReleaseKernel, LinkOthers, Walk, Unlink, Corrupts, mapVars, editVars
  <2>5. ASSUME NEW t \in Threads, ExecuteStep(t) PROVE torn \subseteq torn'
    BY <2>5 DEF ExecuteStep, ExecuteUse, ExecuteMap, ExecuteUnmap, Delete, StoreCount, Marked, Corrupts,
                mapVars, editVars
  <2>6. QED
    BY <2>1, <2>2, <2>3, <2>4, <2>5, NextSteps
<1>6. QED
  BY <1>3, <1>4, <1>5

\* Only a walk, an unlinking and the further steps of an unmap or a map can corrupt.
LEMMA CorruptingSteps ==
  ASSUME [Next]_vars, ~corrupt, corrupt'
  PROVE  Corrupts /\ \E t \in Threads : Walk(t) \/ Unlink(t) \/ Delete(t) \/ StoreCount(t)
<1>1. CASE UNCHANGED vars
  BY <1>1 DEF vars
<1>2. ASSUME NEW t \in Threads, ClientStep(t) PROVE FALSE
  BY <1>2 DEF ClientStep, Retain, CreateBuffer, ReleaseMemObject, CreateSubBuffer, CreateProgram,
              ReleaseProgram, ReleaseContext
<1>3. ASSUME NEW t \in Threads, EnqueueStep(t) PROVE FALSE
  BY <1>3 DEF EnqueueStep, EnqueueUse, EnqueueFails, MapBuffer, UnmapMemObject
<1>4. ASSUME NEW t \in Threads, KernelStep(t) PROVE Corrupts /\ (Walk(t) \/ Unlink(t))
  <2>1. CASE \E k \in Kernels : CreateKernel(t, k) \/ ReleaseKernel(t, k)
    BY <2>1 DEF CreateKernel, ReleaseKernel
  <2>2. CASE LinkOthers(t)
    BY <2>2 DEF LinkOthers
  <2>3. CASE Walk(t)
    BY <2>3 DEF Walk
  <2>4. CASE Unlink(t)
    BY <2>4 DEF Unlink
  <2>5. QED
    BY <1>4, <2>1, <2>2, <2>3, <2>4 DEF KernelStep
<1>5. ASSUME NEW t \in Threads, ExecuteStep(t) PROVE Corrupts /\ (Delete(t) \/ StoreCount(t))
  BY <1>5 DEF ExecuteStep, ExecuteUse, ExecuteMap, ExecuteUnmap, Takes, Delete, StoreCount
<1>6. QED
  BY <1>1, <1>2, <1>3, <1>4, <1>5, NextSteps

LEMMA IntactNext ==
  ASSUME CoreOK, MapsOK, ListOK, Intact, [Next]_vars
  PROVE  Intact'
<1>1. SUFFICES ASSUME corrupt' PROVE raced' \/ torn' # {} \/ \E b \in Buffers : ~MappedOnce(b)'
  BY DEF Intact
<1>2. /\ raced => raced'
      /\ torn # {} => torn' # {}
      /\ \A b \in Buffers : MappedOnce(b)' => MappedOnce(b)
  <2>1. /\ raced => raced'
        /\ torn \subseteq torn'
        /\ \A b \in Buffers : MappedOnce(b)' => MappedOnce(b)
    BY CoreNext, ExcusesLast
  <2>2. QED
    BY <2>1
<1>3. CASE corrupt
  BY <1>2, <1>3 DEF Intact
<1>4. CASE ~corrupt
  <2>1. SUFFICES ASSUME ~raced, torn = {}, \A b \in Buffers : MappedOnce(b) PROVE FALSE
    BY <1>2
  <2>2. PICK t \in Threads : Corrupts /\ (Walk(t) \/ Unlink(t) \/ Delete(t) \/ StoreCount(t))
    BY <1>1, <1>4, CorruptingSteps
  <2>3. Living \cap refs.freed = {} /\ Null \notin refs.freed
    BY StateTyped, ObjectsAssumption DEF Living, Alive, CoreOK
  <2>4. CASE Walk(t)
    <3>1. call[t].at = "walk" /\ call[t].link \in refs.freed
      BY <1>4, <2>2, <2>4 DEF Walk, Corrupts, At
    <3>2. call[t].link \in Living \cup {Null}
      BY <2>1, <3>1 DEF ListOK
    <3>3. QED
      BY <2>3, <3>1, <3>2
  <2>5. CASE Unlink(t)
    <3>1. PICK p, k : p = call[t].link /\ k = call[t].kernel
      OBVIOUS
    <3>2. call[t].at = "unlink" /\ ({p, Link(p)} \cap refs.freed # {} \/ Link(p) = Null)
      BY <1>4, <2>2, <2>5, <3>1 DEF Unlink, Corrupts, At
    <3>3. p \in Living \cup {Null} /\ Link(p) = k
      BY <2>1, <3>1, <3>2 DEF ListOK
    <3>4. k \in Kernels /\ k \notin refs.freed /\ k # Null
      BY <3>1, <3>2, CallsUnused, KindsDisjoint DEF Calling, CoreOK
    <3>5. QED
      BY <2>3, <3>2, <3>3, <3>4
  <2>6. \A b \in Buffers : b = edit[t].of /\ edit[t].at # "none" => b \notin refs.freed
    BY CoreLives DEF NothingDangles, Live
  <2>7. CASE Delete(t)
    <3>1. PICK b \in Buffers : b = edit[t].of
      BY <2>7 DEF Delete, CoreOK, EditsOK
    <3>2. /\ edit[t].at = "delete"
          /\ b \in refs.freed \cup torn \/ edit[t].value \notin ToSet(mappings[b])
      BY <1>4, <2>2, <2>7, <3>1 DEF Delete, Corrupts
    <3>3. t \in Deleting(edit, b)
      BY <3>1, <3>2 DEF Deleting
    <3>4. edit[t].value \in ToSet(mappings[b])
      BY <2>1, <3>3 DEF MapsOK, UnmapsOK, OwnUnmaps, Deletes, AskedFor
    <3>5. QED
      BY <2>1, <2>6, <3>1, <3>2, <3>4
  <2>8. CASE StoreCount(t)
    <3>1. PICK b \in Buffers : b = edit[t].of
      BY <2>8 DEF StoreCount, CoreOK, EditsOK
    <3>2. edit[t].at = "count" /\ b \in refs.freed
      BY <1>4, <2>2, <2>8, <3>1 DEF StoreCount, Corrupts
    <3>3. QED
      BY <2>6, <3>1, <3>2
  <2>9. QED
    BY <2>2, <2>4, <2>5, <2>7, <2>8
<1>5. QED
  BY <1>3, <1>4

\* Nothing that was freed is read or written, neither by the walk along a program's
\* kernels, nor by the unlinking of one, nor by an unmap, whose mapping is in its
\* list when clFinish deletes it: unless clEnqueueMapBuffer was given one address
\* twice, two threads were in clCreateKernel or clReleaseKernel at once, or two
\* threads changed the list of one buffer's mappings at once, which clFinish does
\* without the lock that clEnqueueMapBuffer holds.
THEOREM FreedMemoryUntouched == Spec => []Intact
<1>1. Init => CoreOK /\ MapsOK /\ ListOK /\ Intact
  BY CoreInit, MapsInit, ListInit DEF Init, Intact
<1>2. CoreOK /\ MapsOK /\ ListOK /\ Intact /\ [Next]_vars => (CoreOK /\ MapsOK /\ ListOK /\ Intact)'
  BY MapsNext, ListNext, IntactNext
<1>3. QED
  BY <1>1, <1>2, PTL DEF Spec
=============================================================================
