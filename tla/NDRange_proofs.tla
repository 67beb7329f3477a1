---------------------------- MODULE NDRange_proofs ----------------------------
(* Proofs about NDRange, for any hosts, sizes and numbers of threads.          *)
EXTENDS NDRange, SequenceTheorems, TLAPS

Busy(h, i) == worker[h][i].at \in {"created", "running"}

\* The pool holds thread_arguments that exist, each once.
PoolInv ==
  /\ \E S : args \in Seq(S)
  /\ pool \in Seq(1..Len(args))
  /\ \A m, n \in 1..Len(pool) : m # n => pool[m] # pool[n]
\* The workers' fields are there, and name arguments that exist.
WorkersInv ==
  /\ DOMAIN worker = Hosts
  /\ \A h \in Hosts : DOMAIN worker[h] = Threads
  /\ \A h \in Hosts, i \in Threads :
       /\ DOMAIN worker[h][i] = {"at", "args", "first", "gid"}
       /\ Busy(h, i) => worker[h][i].args \in 1..Len(args)
ArgsInv == PoolInv /\ WorkersInv /\ ArgsPrivate

\* A worker that only goes on with what it has leaves the pool private.
LEMMA WorkerGoesOn ==
  ASSUME ArgsInv, NEW h \in Hosts, NEW i \in Threads, Busy(h, i),
         NEW w, DOMAIN w = {"at", "args", "first", "gid"}, w.args = worker[h][i].args,
         worker' = [worker EXCEPT ![h][i] = w],
         pool' = pool, Len(args') = Len(args), \E S : args' \in Seq(S)
  PROVE  ArgsInv'
<1>1. /\ DOMAIN worker' = Hosts /\ \A k \in Hosts : DOMAIN worker'[k] = Threads
      /\ \A k \in Hosts, j \in Threads :
           worker'[k][j] = IF k = h /\ j = i THEN w ELSE worker[k][j]
  BY DEF ArgsInv, WorkersInv
<1>2. /\ \A k \in Hosts, j \in Threads :
           /\ DOMAIN worker'[k][j] = {"at", "args", "first", "gid"}
           /\ worker'[k][j].args = worker[k][j].args
           /\ worker'[k][j].at \in {"created", "running"} => Busy(k, j)
  BY <1>1 DEF ArgsInv, WorkersInv, Busy
<1>3. WorkersInv'
  BY <1>1, <1>2 DEF ArgsInv, WorkersInv, Busy, Threads
<1>4. PoolInv'
  BY DEF ArgsInv, PoolInv
<1>5. ArgsPrivate'
  <2> SUFFICES ASSUME NEW k \in Hosts, NEW l \in Hosts, NEW j \in Threads, NEW m \in Threads, Busy(k, j)'
               PROVE  /\ \A n \in DOMAIN pool' : pool'[n] # worker'[k][j].args
                      /\ Busy(l, m)' /\ <<k, j>> # <<l, m>> => worker'[k][j].args # worker'[l][m].args
    BY DEF ArgsPrivate, Busy, Threads
  <2>1. Busy(k, j) /\ worker'[k][j].args = worker[k][j].args
    BY <1>2 DEF Busy
  <2>2. worker'[l][m].args = worker[l][m].args /\ (Busy(l, m)' => Busy(l, m))
    BY <1>2 DEF Busy
  <2>3. QED
    BY <2>1, <2>2 DEF ArgsInv, ArgsPrivate, Busy
<1>6. QED
  BY <1>3, <1>4, <1>5 DEF ArgsInv

LEMMA InitArgs == Init => ArgsInv
<1> SUFFICES ASSUME Init PROVE ArgsInv
  OBVIOUS
<1>1. args \in Seq({}) /\ pool \in Seq(1..Len(args)) /\ Len(pool) = 0
  BY DEF Init
<1>2. PoolInv
  BY <1>1 DEF PoolInv
<1>3. \A h \in Hosts, i \in Threads : ~Busy(h, i)
  BY DEF Init, Busy, NoWorker
<1>4. WorkersInv
  BY <1>3 DEF Init, WorkersInv, NoWorker
<1>5. ArgsPrivate
  BY <1>3 DEF ArgsPrivate, Busy
<1>6. QED
  BY <1>2, <1>4, <1>5 DEF ArgsInv

LEMMA ArgsNext == ArgsInv /\ [Next]_vars => ArgsInv'
<1> SUFFICES ASSUME ArgsInv, [Next]_vars
             PROVE  ArgsInv'
  OBVIOUS
<1>1. ASSUME UNCHANGED <<worker, args, pool>>
      PROVE  ArgsInv'
  BY <1>1 DEF ArgsInv, PoolInv, WorkersInv, ArgsPrivate, Busy, Threads
<1>2. ASSUME NEW h \in Hosts, Create(h)
      PROVE  ArgsInv'
  <2> DEFINE n == host[h].next
             a == IF pool # <<>> THEN Head(pool) ELSE Len(args) + 1
  <2>1. PICK c : args' = IF pool # <<>> THEN [args EXCEPT ![a] = c] ELSE Append(args, c)
    BY <1>2 DEF Create
  <2>2. /\ worker' = [worker EXCEPT ![h][n] = [at |-> "created", args |-> a, first |-> 0,
                                               gid |-> <<0, 0, 0>>]]
        /\ pool' = IF pool # <<>> THEN Tail(pool) ELSE pool
    BY <1>2 DEF Create, PoolLeft
  <2> HIDE DEF n
  <2>3. /\ \E S : args' \in Seq(S)
        /\ Len(args') \in Nat /\ Len(args) \in Nat /\ Len(args') >= Len(args)
        /\ a \in 1..Len(args')
    <3>1. PICK S : args \in Seq(S)
      BY DEF ArgsInv, PoolInv
    <3>2. args \in Seq(S \cup {c}) /\ Len(args) \in Nat
      BY <3>1, LenProperties
    <3>3. CASE pool # <<>>
      <4>1. a \in 1..Len(args)
        BY <3>3, HeadTailProperties DEF ArgsInv, PoolInv
      <4>2. args' = [args EXCEPT ![a] = c]
        BY <2>1, <3>3
      <4> HIDE DEF a
      <4>3. args' \in Seq(S \cup {c}) /\ Len(args') = Len(args)
        BY <3>2, <4>1, <4>2, ExceptSeq
      <4>4. QED
        BY <3>2, <4>1, <4>3
    <3>4. CASE pool = <<>>
      <4>1. args' \in Seq(S \cup {c}) /\ Len(args') = Len(args) + 1 /\ a = Len(args) + 1
        BY <2>1, <3>2, <3>4, AppendProperties
      <4>2. QED
        BY <3>2, <4>1
    <3>5. QED
      BY <3>3, <3>4
  <2>4. /\ pool' \in Seq(1..Len(args'))
        /\ \A m, k \in 1..Len(pool') : m # k => pool'[m] # pool'[k]
        /\ \A m \in 1..Len(pool') : pool'[m] # a /\ \E k \in 1..Len(pool) : pool'[m] = pool[k]
    <3>1. CASE pool # <<>>
      <4>1. /\ pool' = Tail(pool) /\ a = Head(pool) /\ pool \in Seq(1..Len(args))
            /\ \A m, k \in 1..Len(pool) : m # k => pool[m] # pool[k]
        BY <2>2, <3>1 DEF ArgsInv, PoolInv
      <4>2. /\ Tail(pool) \in Seq(1..Len(args)) /\ Len(Tail(pool)) = Len(pool) - 1
            /\ \A m \in 1..Len(Tail(pool)) : Tail(pool)[m] = pool[m + 1]
            /\ Head(pool) = pool[1] /\ Len(pool) \in Nat \ {0}
        BY <3>1, <4>1, HeadTailProperties, LenProperties, EmptySeq
      <4> HIDE DEF a
      <4>3. pool' \in Seq(1..Len(args'))
        BY <2>3, <4>1, <4>2
      <4>4. \A m \in 1..Len(pool') : pool'[m] = pool[m + 1] /\ m + 1 \in 2..Len(pool)
        BY <4>1, <4>2
      <4>5. \A m \in 1..Len(pool') : pool'[m] # a /\ \E k \in 1..Len(pool) : pool'[m] = pool[k]
        BY <4>1, <4>2, <4>4
      <4>6. \A m, k \in 1..Len(pool') : m # k => pool'[m] # pool'[k]
        BY <4>1, <4>2, <4>4
      <4>7. QED
        BY <4>3, <4>5, <4>6
    <3>2. CASE pool = <<>>
      <4>1. pool' = <<>> /\ Len(pool') = 0
        BY <2>2, <3>2
      <4>2. QED
        BY <4>1
    <3>3. QED
      BY <3>1, <3>2
  <2>5. \A k \in Hosts, j \in Threads : Busy(k, j) => worker[k][j].args # a
    <3>1. CASE pool # <<>>
      <4>1. a = pool[1] /\ 1 \in DOMAIN pool
        BY <3>1, HeadTailProperties, EmptySeq, LenProperties DEF ArgsInv, PoolInv
      <4>2. QED
        BY <4>1 DEF ArgsInv, ArgsPrivate, Busy
    <3>2. CASE pool = <<>>
      BY <2>3, <3>2 DEF ArgsInv, WorkersInv
    <3>3. QED
      BY <3>1, <3>2
  <2> HIDE DEF a
  <2>6. /\ DOMAIN worker' = Hosts /\ \A k \in Hosts : DOMAIN worker'[k] = Threads
        /\ \A k \in Hosts, j \in Threads :
             worker'[k][j] = IF k = h /\ j = n
                             THEN [at |-> "created", args |-> a, first |-> 0, gid |-> <<0, 0, 0>>]
                             ELSE worker[k][j]
    BY <2>2 DEF ArgsInv, WorkersInv
  <2>7. WorkersInv'
    BY <2>3, <2>6 DEF ArgsInv, WorkersInv, Busy, Threads
  <2>8. ArgsPrivate'
    <3> SUFFICES ASSUME NEW k \in Hosts, NEW l \in Hosts, NEW j \in Threads, NEW m \in Threads,
                        Busy(k, j)'
                 PROVE  /\ \A e \in DOMAIN pool' : pool'[e] # worker'[k][j].args
                        /\ Busy(l, m)' /\ <<k, j>> # <<l, m>> =>
                             worker'[k][j].args # worker'[l][m].args
      BY DEF ArgsPrivate, Busy, Threads
    <3>1. DOMAIN pool' = 1..Len(pool') /\ DOMAIN pool = 1..Len(pool)
      BY <2>4, LenProperties DEF ArgsInv, PoolInv
    <3>2. \A g \in Hosts, e \in Threads : Busy(g, e)' =>
            \/ worker'[g][e].args = a /\ g = h /\ e = n
            \/ worker'[g][e].args = worker[g][e].args /\ Busy(g, e)
      <4>1. \A g \in Hosts, e \in Threads :
              \/ g = h /\ e = n /\ worker'[g][e].args = a
              \/ worker'[g][e] = worker[g][e]
        <5>1. TAKE g \in Hosts, e \in Threads
        <5>2. CASE g = h /\ e = n
          BY <2>6, <5>2
        <5>3. CASE ~(g = h /\ e = n)
          BY <2>6, <5>3
        <5>4. QED
          BY <5>2, <5>3
      <4>2. QED
        <5>1. TAKE g \in Hosts, e \in Threads
        <5>2. CASE g = h /\ e = n /\ worker'[g][e].args = a
          BY <5>2
        <5>3. CASE worker'[g][e] = worker[g][e]
          BY <5>3 DEF Busy
        <5>4. QED
          BY <4>1, <5>2, <5>3
    <3>3. Busy(k, j) => \A e \in 1..Len(pool) : pool[e] # worker[k][j].args
      BY <3>1 DEF ArgsInv, ArgsPrivate, Busy
    <3>4. \A e \in DOMAIN pool' : pool'[e] # worker'[k][j].args
      BY <2>4, <3>1, <3>2, <3>3
    <3>5. Busy(k, j) /\ Busy(l, m) /\ <<k, j>> # <<l, m>> => worker[k][j].args # worker[l][m].args
      BY DEF ArgsInv, ArgsPrivate, Busy
    <3>6. Busy(l, m)' /\ <<k, j>> # <<l, m>> => worker'[k][j].args # worker'[l][m].args
      BY <2>5, <3>2, <3>5
    <3>7. QED
      BY <3>4, <3>6
  <2>9. QED
    BY <2>3, <2>4, <2>7, <2>8 DEF ArgsInv, PoolInv
<1>3. ASSUME NEW h \in Hosts, NEW i \in Threads, Begin(h, i)
      PROVE  ArgsInv'
  <2> DEFINE x == args[worker[h][i].args].group[1]
             w == [worker[h][i] EXCEPT !.at = "running", !.first = x, !.gid = <<x, 0, 0>>]
  <2>1. Busy(h, i) /\ worker' = [worker EXCEPT ![h][i] = w] /\ UNCHANGED <<pool, args>>
    BY <1>3 DEF Begin, WorkerAt, Busy
  <2>2. DOMAIN w = {"at", "args", "first", "gid"} /\ w.args = worker[h][i].args
    BY DEF ArgsInv, WorkersInv
  <2> HIDE DEF w
  <2>3. QED
    BY <2>1, <2>2, WorkerGoesOn DEF ArgsInv, PoolInv
<1>4. ASSUME NEW h \in Hosts, NEW i \in Threads, RunGroup(h, i)
      PROVE  ArgsInv'
  <2> DEFINE r == worker[h][i]
             g == NextGroup(r.gid, r.first, args[r.args].last, args[r.args].groups)
             w == [r EXCEPT !.gid = g]
  <2>1. /\ Busy(h, i) /\ worker' = [worker EXCEPT ![h][i] = w] /\ pool' = pool
        /\ args' = [args EXCEPT ![r.args] = [args[r.args] EXCEPT !.group = r.gid]]
    BY <1>4 DEF RunGroup, WorkerAt, Busy
  <2>2. DOMAIN w = {"at", "args", "first", "gid"} /\ w.args = worker[h][i].args
    BY DEF ArgsInv, WorkersInv
  <2>3. Len(args') = Len(args) /\ \E S : args' \in Seq(S)
    <3> DEFINE c == [args[r.args] EXCEPT !.group = r.gid]
    <3>1. PICK S : args \in Seq(S)
      BY DEF ArgsInv, PoolInv
    <3>2. r.args \in 1..Len(args)
      BY <2>1 DEF ArgsInv, WorkersInv
    <3> HIDE DEF c
    <3>3. args \in Seq(S \cup {c})
      BY <3>1
    <3>4. QED
      BY <2>1, <3>2, <3>3, ExceptSeq DEF c
  <2> HIDE DEF w
  <2>4. QED
    BY <2>1, <2>2, <2>3, WorkerGoesOn
<1>5. ASSUME NEW h \in Hosts, NEW i \in Threads, Exit(h, i)
      PROVE  ArgsInv'
  <2> DEFINE a == worker[h][i].args
             w == [worker[h][i] EXCEPT !.at = "exited"]
  <2>1. /\ Busy(h, i) /\ worker' = [worker EXCEPT ![h][i] = w]
        /\ pool' = <<a>> \o pool /\ args' = args
    BY <1>5 DEF Exit, WorkerAt, Busy
  <2>2. /\ DOMAIN w = {"at", "args", "first", "gid"} /\ w.at = "exited"
        /\ a \in 1..Len(args) /\ pool \in Seq(1..Len(args)) /\ \A e \in DOMAIN pool : pool[e] # a
    BY <2>1 DEF ArgsInv, PoolInv, WorkersInv, ArgsPrivate, Busy
  <2> HIDE DEF a, w
  <2>3. /\ pool' \in Seq(1..Len(args)) /\ Len(pool) \in Nat /\ Len(pool') = Len(pool) + 1
        /\ \A m \in 1..Len(pool') : pool'[m] = IF m = 1 THEN a ELSE pool[m - 1]
    <3>1. <<a>> \in Seq(1..Len(args)) /\ Len(<<a>>) = 1 /\ <<a>>[1] = a
      BY <2>2
    <3>2. QED
      BY <2>1, <2>2, <3>1, ConcatProperties, LenProperties
  <2>4. \A m \in 2..Len(pool') : m - 1 \in 1..Len(pool) /\ m - 1 \in DOMAIN pool
    BY <2>2, <2>3, LenProperties
  <2>5. PoolInv'
    BY <2>1, <2>2, <2>3, <2>4 DEF ArgsInv, PoolInv
  <2>6. /\ DOMAIN worker' = Hosts /\ \A k \in Hosts : DOMAIN worker'[k] = Threads
        /\ \A k \in Hosts, j \in Threads :
             worker'[k][j] = IF k = h /\ j = i THEN w ELSE worker[k][j]
    BY <2>1 DEF ArgsInv, WorkersInv
  <2>7. WorkersInv'
    BY <2>1, <2>2, <2>6 DEF ArgsInv, WorkersInv, Busy, Threads
  <2>8. ArgsPrivate'
    <3> SUFFICES ASSUME NEW k \in Hosts, NEW l \in Hosts, NEW j \in Threads, NEW m \in Threads,
                        Busy(k, j)'
                 PROVE  /\ \A e \in DOMAIN pool' : pool'[e] # worker'[k][j].args
                        /\ Busy(l, m)' /\ <<k, j>> # <<l, m>> =>
                             worker'[k][j].args # worker'[l][m].args
      BY DEF ArgsPrivate, Busy, Threads
    <3>1. /\ worker'[k][j] = worker[k][j] /\ Busy(k, j) /\ <<k, j>> # <<h, i>>
          /\ Busy(l, m)' => worker'[l][m] = worker[l][m] /\ Busy(l, m)
      BY <2>2, <2>6 DEF Busy
    <3>2. worker[k][j].args # a
      BY <2>1, <3>1 DEF ArgsInv, ArgsPrivate, Busy, a
    <3>3. DOMAIN pool' = 1..Len(pool')
      BY <2>3, LenProperties
    <3>4. \A e \in DOMAIN pool' : pool'[e] # worker'[k][j].args
      BY <2>3, <2>4, <3>1, <3>2, <3>3 DEF ArgsInv, ArgsPrivate, Busy
    <3>5. Busy(l, m)' /\ <<k, j>> # <<l, m>> => worker'[k][j].args # worker'[l][m].args
      BY <3>1 DEF ArgsInv, ArgsPrivate, Busy
    <3>6. QED
      BY <3>4, <3>5
  <2>9. QED
    BY <2>5, <2>7, <2>8 DEF ArgsInv
<1>6. ASSUME NEW h \in Hosts, HostStep(h)
      PROVE  ArgsInv'
  BY <1>1, <1>2, <1>6 DEF HostStep, Choose, Check, Split, CreateFails, Join
<1>7. CASE UNCHANGED vars
  BY <1>1, <1>7 DEF vars
<1>8. QED
  BY <1>1, <1>3, <1>4, <1>5, <1>6, <1>7 DEF Next, WorkerStep, Enqueue

\* Host threads launch at once and take thread_arguments from one pool: no two
\* threads at work ever have the same, and none of theirs is handed out again.
THEOREM ThreadArgumentsPrivate == Spec => []ArgsPrivate
<1>1. ArgsInv => ArgsPrivate
  BY DEF ArgsInv
<1>2. QED
  BY <1>1, InitArgs, ArgsNext, PTL DEF Spec

-----------------------------------------------------------------------------
(* Sizes, and the arithmetic of the launch.                                    *)

LEMMA FunctionIsSize ==
  ASSUME NEW f, f \in [Dims -> Nat]
  PROVE  f \in Size
<1>1. f = <<f[1], f[2], f[3]>>
  BY DEF Dims
<1>2. f[1] \in Nat /\ f[2] \in Nat /\ f[3] \in Nat
  BY DEF Dims
<1>3. QED
  BY <1>1, <1>2 DEF Size

LEMMA SizeIsFunction ==
  ASSUME NEW l \in Size
  PROVE  l \in [Dims -> Nat] /\ l = <<l[1], l[2], l[3]>>
BY DEF Size, Dims

LEMMA LeastIn == ASSUME NEW S, S \subseteq Dims, S # {} PROVE Least(S) \in S
<1>1. \E d \in S : \A e \in S : d <= e
  <2>1. \A e \in S : e \in {1, 2, 3}
    BY DEF Dims
  <2>2. CASE 1 \in S
    BY <2>1, <2>2
  <2>3. CASE 1 \notin S /\ 2 \in S
    BY <2>1, <2>3
  <2>4. CASE 1 \notin S /\ 2 \notin S
    BY <2>1, <2>4
  <2>5. QED
    BY <2>2, <2>3, <2>4
<1>2. QED
  BY <1>1 DEF Least

LEMMA MostIn == ASSUME NEW S, S \subseteq Dims, S # {} PROVE Most(S) \in S
<1>1. \E d \in S : \A e \in S : e <= d
  <2>1. \A e \in S : e \in {1, 2, 3}
    BY DEF Dims
  <2>2. CASE 3 \in S
    BY <2>1, <2>2
  <2>3. CASE 3 \notin S /\ 2 \in S
    BY <2>1, <2>3
  <2>4. CASE 3 \notin S /\ 2 \notin S
    BY <2>1, <2>4
  <2>5. QED
    BY <2>2, <2>3, <2>4
<1>2. QED
  BY <1>1 DEF Most

LEMMA HalfDivides ==
  ASSUME NEW g \in Nat, NEW l \in Nat, l > 1, l % 2 = 0, g % l = 0
  PROVE  l \div 2 \in Nat /\ l \div 2 >= 1 /\ g % (l \div 2) = 0
<1>1. PICK k \in Nat : l = 2 * k /\ k = l \div 2 /\ k >= 1
  OBVIOUS
<1>2. PICK m \in Nat : g = m * l
  OBVIOUS
<1>3. g = (2 * m) * k /\ 2 * m \in Nat
  BY <1>1, <1>2
<1>4. \A n, e \in Nat : e >= 1 => (n * e) % e = 0
  OBVIOUS
<1>5. QED
  BY <1>1, <1>3, <1>4

LEMMA OneDivides == ASSUME NEW g \in Nat PROVE g % 1 = 0
OBVIOUS

LEMMA SelfDivides == ASSUME NEW g \in Nat, g >= 1 PROVE g % g = 0 /\ g \div g = 1
OBVIOUS

\* A divisor of a size goes into it a whole number of times, at least once.
LEMMA GroupsIn ==
  ASSUME NEW g \in Nat, NEW l \in Nat, l >= 1, g >= 1, g % l = 0
  PROVE  /\ g \div l \in Nat /\ g \div l >= 1 /\ g = (g \div l) * l
         /\ g \div l <= g /\ g % (g \div l) = 0
<1>1. PICK q \in Nat : q = g \div l /\ g = q * l
  OBVIOUS
<1>2. q >= 1
  BY <1>1
<1>3. q <= q * l
  BY <1>2
<1>4. \A n, e \in Nat : e >= 1 => (e * n) % e = 0
  OBVIOUS
<1>5. g % q = 0
  BY <1>1, <1>2, <1>4
<1>6. QED
  BY <1>1, <1>2, <1>3, <1>5

LEMMA IntNoLarger == ASSUME NEW n \in Nat PROVE ToInt(n) \in Int /\ ToInt(n) <= n
<1>1. PICK w \in Nat \ {0}, u \in Nat \ {0} : w = 2^IntBits /\ u = 2^(IntBits - 1)
  BY PowerAssumption
<1>2. (n + u) % w \in Nat /\ (n + u) % w <= n + u
  BY <1>1
<1>3. ToInt(n) = ((n + u) % w) - u
  BY <1>1 DEF ToInt
<1>4. \A m \in Nat : m <= n + u => m - u \in Int /\ m - u <= n
  BY <1>1
<1>5. QED
  BY <1>2, <1>3, <1>4

\* One turn of the loop changes one dimension, to a divisor of what it was.
LEMMA ShrunkChanges ==
  ASSUME NEW l \in Size
  PROVE  /\ Shrunk(l) \in Size
         /\ \A d \in Dims : \/ Shrunk(l)[d] = l[d]
                            \/ l[d] > 1 /\ Shrunk(l)[d] = 1
                            \/ l[d] > 1 /\ l[d] % 2 = 0 /\ Shrunk(l)[d] = l[d] \div 2
<1> DEFINE left == {d \in Dims : l[d] > 1}
           halvable == {d \in left : l[d] % 2 = 0 /\ (l[d] \div 2) % Multiple = 0}
           uneven == {d \in left \ {1} : l[d] % Multiple # 0}
<1>1. \A d \in Dims : l[d] \in Nat /\ l[d] \div 2 \in Nat
  BY SizeIsFunction
<1>2. CASE halvable # {}
  <2>1. Shrunk(l) = [l EXCEPT ![Least(halvable)] = @ \div 2]
    BY <1>2 DEF Shrunk
  <2>2. PICK d \in halvable : d = Least(halvable)
    BY <1>2, LeastIn
  <2>3. Shrunk(l) = [l EXCEPT ![d] = l[d] \div 2] /\ d \in Dims /\ l[d] > 1 /\ l[d] % 2 = 0
    BY <2>1, <2>2
  <2>4. l[d] \div 2 \in Nat
    BY <1>1, <2>3
  <2>5. /\ Shrunk(l) \in Size
        /\ \A e \in Dims : Shrunk(l)[e] = IF e = d THEN l[d] \div 2 ELSE l[e]
    <3>1. Shrunk(l) \in [Dims -> Nat] /\ \A e \in Dims : Shrunk(l)[e] = IF e = d THEN l[d] \div 2 ELSE l[e]
      BY <2>3, <2>4, SizeIsFunction
    <3>2. QED
      BY <3>1, FunctionIsSize
  <2>6. QED
    BY <2>3, <2>5
<1>3. ASSUME NEW S, S \subseteq left, S # {}, Shrunk(l) = [l EXCEPT ![Most(S)] = 1]
      PROVE  /\ Shrunk(l) \in Size
             /\ \A d \in Dims : Shrunk(l)[d] = l[d] \/ (l[d] > 1 /\ Shrunk(l)[d] = 1)
  <2>1. PICK d \in S : d = Most(S)
    BY <1>3, MostIn
  <2>2. d \in Dims /\ l[d] > 1 /\ Shrunk(l) = [l EXCEPT ![d] = 1]
    BY <1>3, <2>1
  <2>3. Shrunk(l) \in Size /\ \A e \in Dims : Shrunk(l)[e] = IF e = d THEN 1 ELSE l[e]
    <3>1. Shrunk(l) \in [Dims -> Nat] /\ \A e \in Dims : Shrunk(l)[e] = IF e = d THEN 1 ELSE l[e]
      BY <2>2, SizeIsFunction
    <3>2. QED
      BY <3>1, FunctionIsSize
  <2>4. QED
    BY <2>2, <2>3
<1>4. CASE halvable = {} /\ uneven # {}
  <2>1. Shrunk(l) = [l EXCEPT ![Most(uneven)] = 1]
    BY <1>4 DEF Shrunk
  <2>2. QED
    BY <1>3, <1>4, <2>1
<1>5. CASE halvable = {} /\ uneven = {} /\ left # {}
  <2>1. Shrunk(l) = [l EXCEPT ![Most(left)] = 1]
    BY <1>5 DEF Shrunk
  <2>2. QED
    BY <1>3, <1>5, <2>1
<1>6. CASE halvable = {} /\ uneven = {} /\ left = {}
  BY <1>6 DEF Shrunk
<1>7. QED
  BY <1>2, <1>4, <1>5, <1>6

Divided(g, l) == \A d \in Dims : l[d] >= 1 /\ g[d] % l[d] = 0

LEMMA ShrunkDivides ==
  ASSUME NEW g \in Size, NEW l \in Size, Divided(g, l)
  PROVE  Divided(g, Shrunk(l))
<1> SUFFICES ASSUME NEW d \in Dims
             PROVE  Shrunk(l)[d] >= 1 /\ g[d] % Shrunk(l)[d] = 0
  BY DEF Divided
<1>1. g[d] \in Nat /\ l[d] \in Nat /\ l[d] >= 1 /\ g[d] % l[d] = 0
  BY SizeIsFunction DEF Divided
<1>2. CASE Shrunk(l)[d] = l[d]
  BY <1>1, <1>2
<1>3. CASE Shrunk(l)[d] = 1
  BY <1>1, <1>3, OneDivides
<1>4. CASE l[d] > 1 /\ l[d] % 2 = 0 /\ Shrunk(l)[d] = l[d] \div 2
  BY <1>1, <1>4, HalfDivides
<1>5. QED
  BY <1>2, <1>3, <1>4, ShrunkChanges

-----------------------------------------------------------------------------
(* The hosts: types, sizes, and the split over the threads.                    *)

HostRecord == [at : Steps, global : Size, local : Size, auto : BOOLEAN,
               threads : 0..MaxThreadCount, each : Nat, next : Threads]
HostsTyped == host \in [Hosts -> HostRecord] /\ maxThreads \in ThreadCounts \cup {0}

Launched == {"create", "join", "done"}

\* A size the runtime chose, and one it let through, divides the range; one it
\* chose is refused for nothing but a dimension above MaxItemSize.
SizesOK(h) ==
  /\ host[h].at # "idle" => host[h].global \in Globals
  /\ host[h].at \notin {"idle", "refused"} => \A d \in Dims : host[h].global[d] >= 1
  /\ host[h].auto /\ host[h].at \in {"choose", "check"} => Divided(host[h].global, host[h].local)
  /\ host[h].auto /\ host[h].at = "check" => Product(host[h].local) <= MaxGroupSize
  /\ host[h].auto /\ host[h].at = "refused" =>
       \E d \in Dims : host[h].global[d] = 0 \/ host[h].local[d] > MaxItemSize
  /\ host[h].at \in Launched \cup {"run"} => Divided(host[h].global, host[h].local)
\* Every thread gets a group in x.
SplitOK(h) ==
  /\ host[h].at \in Launched =>
       host[h].threads >= 1 /\ host[h].each >= 1 /\ host[h].threads * host[h].each <= GroupsX(h)
  /\ host[h].at \in {"create", "join"} => host[h].next < host[h].threads
HostOK(h) == SizesOK(h) /\ SplitOK(h)
HostInv == HostsTyped /\ \A h \in Hosts : HostOK(h)

LEMMA HostFields ==
  ASSUME HostsTyped, NEW h \in Hosts
  PROVE  /\ host[h].at \in Steps /\ host[h].auto \in BOOLEAN
         /\ host[h].global \in Size /\ host[h].local \in Size
         /\ \A d \in Dims : host[h].global[d] \in Nat /\ host[h].local[d] \in Nat
         /\ host[h].threads \in 0..MaxThreadCount /\ host[h].each \in Nat /\ host[h].next \in Threads
         /\ MaxThreadCount \in Nat \ {0}
         /\ \A n \in Threads : n \in Nat /\ n < MaxThreadCount
BY SizeIsFunction, RangeAssumption DEF HostsTyped, HostRecord, Threads

LEMMA GroupsTyped ==
  ASSUME HostInv, NEW h \in Hosts, host[h].at \in Launched \cup {"run"}
  PROVE  /\ Groups(h) \in Size
         /\ \A d \in Dims : /\ Groups(h)[d] \in Nat /\ Groups(h)[d] >= 1
                            /\ host[h].global[d] = Groups(h)[d] * host[h].local[d]
                            /\ Groups(h)[d] <= host[h].global[d]
                            /\ host[h].global[d] % Groups(h)[d] = 0
<1>1. \A d \in Dims : /\ host[h].global[d] \in Nat /\ host[h].local[d] \in Nat
                      /\ host[h].global[d] >= 1 /\ host[h].local[d] >= 1
                      /\ host[h].global[d] % host[h].local[d] = 0
  BY HostFields DEF HostInv, HostOK, SizesOK, Divided, Launched
<1>2. \A d \in Dims : Groups(h)[d] = host[h].global[d] \div host[h].local[d]
  BY DEF Groups
<1>3. \A d \in Dims : /\ Groups(h)[d] \in Nat /\ Groups(h)[d] >= 1
                      /\ host[h].global[d] = Groups(h)[d] * host[h].local[d]
                      /\ Groups(h)[d] <= host[h].global[d]
                      /\ host[h].global[d] % Groups(h)[d] = 0
  <2> TAKE d \in Dims
  <2>1. PICK g \in Nat, l \in Nat : g = host[h].global[d] /\ l = host[h].local[d]
    BY <1>1
  <2>2. g >= 1 /\ l >= 1 /\ g % l = 0 /\ Groups(h)[d] = g \div l
    BY <1>1, <1>2, <2>1
  <2>3. /\ g \div l \in Nat /\ g \div l >= 1 /\ g = (g \div l) * l
        /\ g \div l <= g /\ g % (g \div l) = 0
    BY <2>2, GroupsIn
  <2>4. QED
    BY <2>1, <2>2, <2>3
<1>4. Groups(h) \in [Dims -> Nat]
  BY <1>3 DEF Groups
<1>5. QED
  BY <1>3, <1>4, FunctionIsSize

\* Only one host changes.
LEMMA OthersOK ==
  ASSUME HostInv, NEW h \in Hosts, \A k \in Hosts \ {h} : host'[k] = host[k],
         HostsTyped', HostOK(h)'
  PROVE  HostInv'
<1> SUFFICES ASSUME NEW k \in Hosts PROVE HostOK(k)'
  BY DEF HostInv
<1>1. CASE k = h
  BY <1>1
<1>2. CASE k # h
  <2>1. HostOK(k) /\ host'[k] = host[k]
    BY <1>2 DEF HostInv
  <2>2. GroupsX(k)' = GroupsX(k)
    BY <2>1 DEF Groups, GroupsX
  <2>3. QED
    BY <2>1, <2>2 DEF HostOK, SizesOK, SplitOK
<1>3. QED
  BY <1>1, <1>2

LEMMA InitHosts == Init => HostInv
<1> SUFFICES ASSUME Init PROVE HostInv
  OBVIOUS
<1>1. NoSize \in Size /\ 0 \in Threads
  BY RangeAssumption DEF NoSize, Size, Threads
<1>2. HostsTyped
  BY <1>1, RangeAssumption DEF Init, HostsTyped, HostRecord, Steps
<1>3. QED
  BY <1>2 DEF Init, HostInv, HostOK, SizesOK, SplitOK, Launched

LEMMA EnqueueHosts ==
  ASSUME HostInv, NEW h \in Hosts, NEW global \in Globals, NEW local \in Locals \cup {NoSizeGiven},
         Enqueue(h, global, local)
  PROVE  HostInv'
<1> DEFINE l == IF local = NoSizeGiven THEN global ELSE local
           s == IF \E d \in Dims : global[d] = 0 THEN "refused"
                ELSE IF local = NoSizeGiven THEN "choose" ELSE "check"
<1>1. host' = [host EXCEPT ![h].global = global, ![h].auto = (local = NoSizeGiven),
                           ![h].local = l, ![h].at = s]
      /\ maxThreads' = maxThreads
  BY DEF Enqueue
<1>2. global \in Size /\ l \in Size /\ \A d \in Dims : global[d] \in Nat
  BY RangeAssumption, SizeIsFunction DEF Size
<1>3. s \in {"refused", "choose", "check"}
  OBVIOUS
<1>4. s # "refused" => \A d \in Dims : global[d] >= 1
  <2>1. (\E d \in Dims : global[d] = 0) => s = "refused"
    OBVIOUS
  <2> HIDE DEF s
  <2>2. QED
    BY <1>2, <2>1
<1>5. local = NoSizeGiven /\ s # "refused" => s = "choose" /\ Divided(global, l)
  BY <1>2, <1>4, SelfDivides DEF Divided
<1>6. s = "refused" => \E d \in Dims : global[d] = 0
  OBVIOUS
<1> HIDE DEF l, s
<1>7. /\ HostsTyped'
      /\ \A k \in Hosts \ {h} : host'[k] = host[k]
      /\ host'[h].global = global /\ host'[h].local = l /\ host'[h].at = s
      /\ host'[h].auto = (local = NoSizeGiven)
  <2>1. PICK v \in BOOLEAN : v = (local = NoSizeGiven)
    OBVIOUS
  <2>2. s \in Steps
    BY <1>3 DEF Steps
  <2>3. host' = [host EXCEPT ![h].global = global, ![h].auto = v, ![h].local = l, ![h].at = s]
    BY <1>1, <2>1
  <2>4. host \in [Hosts -> HostRecord] /\ maxThreads' \in ThreadCounts \cup {0}
    BY <1>1 DEF HostInv, HostsTyped
  <2> DEFINE r == [host[h] EXCEPT !.global = global, !.auto = v, !.local = l, !.at = s]
  <2>5. host' = [host EXCEPT ![h] = r]
    BY <2>3
  <2>6. /\ r \in HostRecord /\ r.global = global /\ r.auto = v /\ r.local = l /\ r.at = s
    BY <1>2, <2>2, <2>4 DEF HostRecord
  <2> HIDE DEF r
  <2>7. QED
    BY <2>1, <2>4, <2>5, <2>6 DEF HostsTyped
<1>8. HostOK(h)'
  BY <1>3, <1>4, <1>5, <1>6, <1>7 DEF HostOK, SizesOK, SplitOK, Launched
<1>9. QED
  BY <1>7, <1>8, OthersOK

LEMMA ProductTyped ==
  ASSUME NEW l, \A d \in Dims : l[d] \in Nat
  PROVE  Product(l) \in Int
<1>1. PICK m \in Nat \ {0} : m = SizeModulus
  BY RangeAssumption
<1>2. l[1] * l[2] * l[3] \in Nat
  BY DEF Dims
<1>3. \A n \in Nat : n % m \in Int
  OBVIOUS
<1>4. QED
  BY <1>1, <1>2, <1>3 DEF Product

LEMMA ChooseHosts == ASSUME HostInv, NEW h \in Hosts, Choose(h) PROVE HostInv'
<1> DEFINE l == Shrunk(host[h].local)
           s == IF Product(l) > MaxGroupSize THEN "choose" ELSE "check"
<1>1. /\ host' = [host EXCEPT ![h].local = l, ![h].at = s] /\ maxThreads' = maxThreads
      /\ host[h].at = "choose"
  BY DEF Choose, At
<1>2. l \in Size
  BY HostFields, ShrunkChanges DEF HostInv
<1>3. host[h].auto => Divided(host[h].global, l)
  BY <1>1, HostFields, ShrunkDivides DEF HostInv, HostOK, SizesOK
<1>4. s \in {"choose", "check"} /\ (s = "check" => Product(l) <= MaxGroupSize)
  <2>1. \A d \in Dims : l[d] \in Nat
    BY <1>2, SizeIsFunction
  <2>2. Product(l) \in Int
    BY <2>1, ProductTyped
  <2>3. QED
    BY <2>2, RangeAssumption
<1> HIDE DEF l, s
<1>5. /\ HostsTyped'
      /\ \A k \in Hosts \ {h} : host'[k] = host[k]
      /\ host'[h].local = l /\ host'[h].at = s
      /\ host'[h].global = host[h].global /\ host'[h].auto = host[h].auto
  <2>1. s \in Steps
    BY <1>4 DEF Steps
  <2>2. QED
    BY <1>1, <1>2, <2>1 DEF HostInv, HostsTyped, HostRecord
<1>6. HostOK(h)'
  BY <1>1, <1>3, <1>4, <1>5 DEF HostInv, HostOK, SizesOK, SplitOK, Launched
<1>7. QED
  BY <1>5, <1>6, OthersOK

LEMMA CheckHosts == ASSUME HostInv, NEW h \in Hosts, Check(h) PROVE HostInv'
<1>1. CASE host' = host
  BY <1>1 DEF Check, HostInv, HostsTyped, HostOK, SizesOK, SplitOK, GroupsX, Groups
<1>2. ASSUME NEW s \in {"refused", "run"}, Goto(h, s),
             s = "refused" => \/ TooLarge(host[h].local)
                              \/ \E d \in Dims : host[h].global[d] % host[h].local[d] # 0,
             s = "run" => \A d \in Dims : host[h].local[d] # 0 /\ host[h].global[d] % host[h].local[d] = 0
      PROVE  HostInv'
  <2>1. /\ HostsTyped'
        /\ \A k \in Hosts \ {h} : host'[k] = host[k]
        /\ host'[h].at = s /\ host'[h].local = host[h].local
        /\ host'[h].global = host[h].global /\ host'[h].auto = host[h].auto
    BY <1>2 DEF Check, HostInv, HostsTyped, HostRecord, Steps, Goto
  <2>2. s = "run" => Divided(host[h].global, host[h].local)
    BY <1>2, HostFields DEF Divided, HostInv
  <2>3. host[h].at = "check"
    BY DEF Check, At
  <2>4. host[h].auto /\ s = "refused" => \E d \in Dims : host[h].local[d] > MaxItemSize
    <3> SUFFICES ASSUME host[h].auto, s = "refused" PROVE \E d \in Dims : host[h].local[d] > MaxItemSize
      OBVIOUS
    <3>1. Divided(host[h].global, host[h].local) /\ Product(host[h].local) <= MaxGroupSize
      BY <2>3 DEF HostInv, HostOK, SizesOK
    <3>2. Product(host[h].local) \in Int
      BY HostFields, ProductTyped DEF HostInv
    <3>3. QED
      BY <1>2, <3>1, <3>2, RangeAssumption DEF TooLarge, Divided
  <2>5. HostOK(h)'
    BY <1>2, <2>1, <2>2, <2>3, <2>4 DEF HostInv, HostOK, SizesOK, SplitOK, Launched
  <2>6. QED
    BY <2>1, <2>5, OthersOK
<1>3. QED
  BY <1>1, <1>2 DEF Check, Dies

LEMMA SplitHosts == ASSUME HostInv, NEW h \in Hosts, Split(h) PROVE HostInv'
<1>1. PICK n \in Int, x \in Int, threads \in Int :
        /\ n \in (IF maxThreads = 0 THEN ThreadCounts ELSE {maxThreads})
        /\ x = GroupsX(h) /\ threads = IF n < x THEN n ELSE x
        /\ maxThreads' = n
        /\ IF threads <= 0 THEN UNCHANGED host
           ELSE host' = [host EXCEPT ![h].at = "create", ![h].next = 0,
                                     ![h].threads = threads, ![h].each = x \div threads]
  <2>1. host[h].at = "run"
    BY DEF Split, At
  <2>2. GroupsX(h) \in Int
    BY <2>1, GroupsTyped, IntNoLarger DEF Dims, GroupsX
  <2>3. \A n \in IF maxThreads = 0 THEN ThreadCounts ELSE {maxThreads} : n \in Int
    BY RangeAssumption DEF HostInv, HostsTyped
  <2>4. PICK n \in IF maxThreads = 0 THEN ThreadCounts ELSE {maxThreads} :
          LET x == GroupsX(h)
              threads == IF n < x THEN n ELSE x
          IN  /\ maxThreads' = n
              /\ IF threads <= 0 THEN UNCHANGED host
                 ELSE host' = [host EXCEPT ![h].at = "create", ![h].next = 0,
                                           ![h].threads = threads, ![h].each = x \div threads]
    BY DEF Split, Dies
  <2>5. PICK x \in Int : x = GroupsX(h)
    BY <2>2
  <2>6. PICK threads \in Int : threads = IF n < x THEN n ELSE x
    BY <2>3
  <2>7. QED
    BY <2>3, <2>4, <2>5, <2>6
<1>2. host[h].at = "run"
  BY DEF Split, At
<1>3. maxThreads' \in ThreadCounts \cup {0} /\ n <= MaxThreadCount
  BY <1>1, RangeAssumption DEF HostInv, HostsTyped
<1>4. CASE threads <= 0
  BY <1>1, <1>3, <1>4 DEF HostInv, HostsTyped, HostOK, SizesOK, SplitOK, GroupsX, Groups
<1>5. CASE threads > 0
  <2>2. threads \in Nat /\ threads >= 1 /\ threads <= x /\ threads <= MaxThreadCount
    BY <1>1, <1>3, <1>5, RangeAssumption
  <2>3. PICK q \in Nat : q = x \div threads /\ q >= 1 /\ threads * q <= x
    <3>1. \A a, b \in Nat : b >= 1 /\ b <= a => a \div b \in Nat /\ a \div b >= 1 /\ b * (a \div b) <= a
      OBVIOUS
    <3>2. QED
      BY <2>2, <3>1
  <2>4. host' = [host EXCEPT ![h].at = "create", ![h].next = 0, ![h].threads = threads, ![h].each = q]
    BY <1>1, <1>5, <2>3
  <2>5. 0 \in Threads /\ threads \in 0..MaxThreadCount
    BY <2>2, RangeAssumption DEF Threads
  <2>6. /\ HostsTyped'
        /\ \A k \in Hosts \ {h} : host'[k] = host[k]
        /\ host'[h].at = "create" /\ host'[h].local = host[h].local
        /\ host'[h].global = host[h].global /\ host'[h].auto = host[h].auto
        /\ host'[h].next = 0 /\ host'[h].threads = threads /\ host'[h].each = q
    <3>1. "create" \in Steps
      BY DEF Steps
    <3>2. QED
      BY <1>3, <2>4, <2>5, <3>1 DEF HostInv, HostsTyped, HostRecord
  <2>7. GroupsX(h)' = GroupsX(h)
    BY <2>6 DEF Groups, GroupsX
  <2>8. threads * q <= GroupsX(h)
    BY <1>1, <2>3
  <2>9. SizesOK(h)'
    BY <1>2, <2>6 DEF HostInv, HostOK, SizesOK, Launched
  <2>10. SplitOK(h)'
    BY <2>2, <2>3, <2>6, <2>7, <2>8 DEF SplitOK
  <2>11. QED
    BY <2>6, <2>9, <2>10, OthersOK DEF HostOK
<1>6. QED
  BY <1>1, <1>4, <1>5

LEMMA LoopHosts ==
  ASSUME HostInv, NEW h \in Hosts, NEW s \in {"join", "done"}, host[h].at \in {"create", "join"},
         NextOf(h, s), maxThreads' = maxThreads
  PROVE  HostInv'
<1>1. /\ host[h].next \in Nat /\ host[h].threads \in Nat /\ host[h].next < host[h].threads
      /\ host[h].threads <= MaxThreadCount
  BY HostFields DEF HostInv, HostOK, SplitOK
<1>2. PICK n \in Threads, t \in {"create", "join", "done"} :
        /\ host' = [host EXCEPT ![h].next = n, ![h].at = t] /\ n < host[h].threads
  <2> DEFINE n == IF host[h].next + 1 = host[h].threads THEN 0 ELSE host[h].next + 1
             t == IF host[h].next + 1 = host[h].threads THEN s ELSE host[h].at
  <2>1. host' = [host EXCEPT ![h].next = n, ![h].at = t]
    BY DEF NextOf
  <2>2. n \in Threads /\ n < host[h].threads /\ t \in {"create", "join", "done"}
    BY <1>1, RangeAssumption DEF Threads
  <2>3. QED
    BY <2>1, <2>2
<1>3. /\ HostsTyped'
      /\ \A k \in Hosts \ {h} : host'[k] = host[k]
      /\ host'[h].at = t /\ host'[h].local = host[h].local
      /\ host'[h].global = host[h].global /\ host'[h].auto = host[h].auto
      /\ host'[h].next = n /\ host'[h].threads = host[h].threads /\ host'[h].each = host[h].each
  BY <1>2 DEF HostInv, HostsTyped, HostRecord, Steps
<1>4. GroupsX(h)' = GroupsX(h)
  BY <1>3 DEF Groups, GroupsX
<1>5. SizesOK(h)'
  BY <1>2, <1>3 DEF HostInv, HostOK, SizesOK, Launched
<1>6. SplitOK(h)'
  BY <1>2, <1>3, <1>4 DEF HostInv, HostOK, SplitOK, Launched
<1>7. QED
  BY <1>3, <1>5, <1>6, OthersOK DEF HostOK

LEMMA HostsNext == HostInv /\ [Next]_vars => HostInv'
<1> SUFFICES ASSUME HostInv, [Next]_vars PROVE HostInv'
  OBVIOUS
<1>1. ASSUME UNCHANGED <<host, maxThreads>> PROVE HostInv'
  BY <1>1 DEF HostInv, HostsTyped, HostOK, SizesOK, SplitOK, GroupsX, Groups
<1>2. ASSUME NEW h \in Hosts, HostStep(h) PROVE HostInv'
  <2>1. CASE Choose(h)
    BY <2>1, ChooseHosts
  <2>2. CASE Check(h)
    BY <2>2, CheckHosts
  <2>3. CASE Split(h)
    BY <2>3, SplitHosts
  <2>4. CASE Create(h)
    BY <2>4, LoopHosts DEF Create, At
  <2>5. CASE CreateFails(h)
    BY <1>1, <2>5 DEF CreateFails, Dies
  <2>6. CASE Join(h)
    BY <2>6, LoopHosts DEF Join, At
  <2>7. QED
    BY <1>2, <2>1, <2>2, <2>3, <2>4, <2>5, <2>6 DEF HostStep
<1>3. ASSUME NEW h \in Hosts, NEW i \in Threads, WorkerStep(h, i) PROVE HostInv'
  BY <1>1, <1>3 DEF WorkerStep, Begin, RunGroup, Exit
<1>4. CASE UNCHANGED vars
  BY <1>1, <1>4 DEF vars
<1>5. QED
  BY <1>2, <1>3, <1>4, EnqueueHosts DEF Next

\* A local size the runtime chooses itself is let through by its own checks,
\* unless a dimension is above MaxItemSize: halving keeps a divisor a divisor,
\* and the loop that chooses goes on until the product is small enough.
THEOREM ChosenSizeIsAccepted == Spec => []AutoSizeAccepted
<1>1. HostInv => AutoSizeAccepted
  BY DEF HostInv, HostOK, SizesOK, AutoSizeAccepted, At
<1>2. QED
  BY <1>1, InitHosts, HostsNext, PTL DEF Spec

-----------------------------------------------------------------------------
(* The slices of the threads.                                                  *)

\* The count of a launch is a positive int, and no larger than its groups.
LEMMA GroupsXTyped ==
  ASSUME HostInv, NEW h \in Hosts, host[h].at \in Launched
  PROVE  GroupsX(h) \in Nat /\ GroupsX(h) >= 1 /\ GroupsX(h) <= Groups(h)[1]
<1>1. GroupsX(h) \in Int /\ GroupsX(h) <= Groups(h)[1]
  BY GroupsTyped, IntNoLarger DEF Dims, GroupsX
<1>2. PICK t \in Nat, e \in Nat : t >= 1 /\ e >= 1 /\ t * e <= GroupsX(h)
  BY HostFields DEF HostInv, HostOK, SplitOK
<1>3. t * e >= 1
  BY <1>2
<1>4. QED
  BY <1>1, <1>2, <1>3

LEMMA ProductIsNat == ASSUME NEW a \in Nat, NEW b \in Nat PROVE a * b \in Nat
OBVIOUS

LEMMA NextProduct ==
  ASSUME NEW a \in Nat, NEW b \in Nat, NEW c \in Nat, a + 1 = b
  PROVE  b * c = a * c + c
OBVIOUS

LEMMA Products ==
  ASSUME NEW a \in Nat, NEW b \in Nat, NEW c \in Nat, a + 1 <= b
  PROVE  a * c + c <= b * c /\ a * c \in Nat /\ b * c \in Nat
<1>1. PICK d \in Nat : b = a + 1 + d
  OBVIOUS
<1>2. b * c = a * c + c + d * c /\ d * c \in Nat /\ a * c \in Nat
  BY <1>1
<1>3. QED
  BY <1>2

LEMMA Remainder ==
  ASSUME NEW x \in Nat, NEW e \in Nat, e >= 1
  PROVE  \E q \in Nat : q * e <= x /\ x <= q * e + e - 1
<1>1. PICK q \in Nat : q = x \div e
  OBVIOUS
<1>2. q * e <= x /\ x <= q * e + e - 1
  BY <1>1
<1>3. QED
  BY <1>2

\* A thread's slice is a range of groups in x that exist.
LEMMA SliceBounds ==
  ASSUME HostInv, NEW h \in Hosts, host[h].at \in Launched, NEW i \in Threads, i < host[h].threads
  PROVE  /\ Slice(h, i).first \in Nat /\ Slice(h, i).last \in Nat
         /\ Slice(h, i).first <= Slice(h, i).last /\ Slice(h, i).last < GroupsX(h)
         /\ Slice(h, i).first = i * host[h].each
         /\ Slice(h, i).last = IF i + 1 = host[h].threads THEN GroupsX(h) - 1
                               ELSE i * host[h].each + host[h].each - 1
<1>1. PICK t \in Nat, e \in Nat, n \in Nat :
        /\ t = host[h].threads /\ e = host[h].each /\ n = GroupsX(h)
        /\ e >= 1 /\ t * e <= n /\ i \in Nat /\ i < t
  <2>1. GroupsX(h) \in Nat
    BY GroupsXTyped
  <2>2. QED
    BY <2>1, HostFields DEF HostInv, HostOK, SplitOK
<1>2. PICK f \in Nat, p \in Nat : f = i * e /\ p = t * e
  BY <1>1, ProductIsNat
<1>3. i + 1 = t => p = f + e
  BY <1>1, <1>2, NextProduct
<1>4. f + e <= p
  <2>1. i + 1 <= t
    BY <1>1
  <2>2. i * e + e <= t * e
    BY <1>1, <2>1, Products
  <2>3. QED
    BY <1>2, <2>2
<1>5. /\ Slice(h, i).first = f
      /\ Slice(h, i).last = f + e - 1 + (IF i + 1 = t THEN n - p ELSE 0)
  BY <1>1, <1>2 DEF Slice
<1>6. CASE i + 1 = t
  <2>1. Slice(h, i).last = f + e - 1 + (n - p) /\ p = f + e
    BY <1>3, <1>5, <1>6
  <2>2. Slice(h, i).last = n - 1 /\ f <= n - 1 /\ n - 1 \in Nat
    BY <1>1, <1>2, <2>1
  <2>3. QED
    BY <1>1, <1>2, <1>5, <1>6, <2>2
<1>7. CASE i + 1 # t
  <2>1. Slice(h, i).last = f + e - 1
    BY <1>1, <1>2, <1>5, <1>7
  <2>2. f <= f + e - 1 /\ f + e - 1 \in Nat /\ f + e - 1 < n
    BY <1>1, <1>2, <1>4
  <2>3. QED
    BY <1>1, <1>2, <1>5, <1>7, <2>1, <2>2
<1>8. QED
  BY <1>6, <1>7

InSlice(h, i, g) == g[1] \in Slice(h, i).first..Slice(h, i).last

\* No group is in two slices, ...
LEMMA SlicesDisjoint ==
  ASSUME HostInv, NEW h \in Hosts, host[h].at \in Launched,
         NEW i \in Threads, i < host[h].threads, NEW j \in Threads, j < host[h].threads,
         NEW g \in Size, InSlice(h, i, g), InSlice(h, j, g)
  PROVE  i = j
<1>1. ASSUME NEW a \in Threads, NEW b \in Threads, a < b, b < host[h].threads,
             InSlice(h, a, g), InSlice(h, b, g)
      PROVE  FALSE
  <2>1. PICK e \in Nat : e = host[h].each
    BY HostFields DEF HostInv
  <2>2. a \in Nat /\ b \in Nat /\ host[h].threads \in Nat /\ a < host[h].threads /\ a + 1 # host[h].threads
    BY <1>1, HostFields DEF HostInv
  <2>3. Slice(h, a).last = a * e + e - 1 /\ Slice(h, b).first = b * e
    BY <1>1, <2>1, <2>2, SliceBounds
  <2>4. PICK p \in Nat, q \in Nat : p = a * e /\ q = b * e /\ p + e <= q
    <3>1. a + 1 <= b
      BY <1>1, <2>2
    <3>2. QED
      BY <2>2, <3>1, Products
  <2>5. g[1] \in Nat
    BY DEF Size
  <2>6. g[1] <= p + e - 1 /\ q <= g[1]
    BY <1>1, <2>3, <2>4 DEF InSlice
  <2>7. QED
    BY <2>4, <2>5, <2>6
<1>2. i \in Nat /\ j \in Nat
  BY HostFields DEF HostInv
<1>3. ~(i < j)
  BY <1>1
<1>4. ~(j < i)
  BY <1>1
<1>5. QED
  BY <1>2, <1>3, <1>4

\* The grid, when the groups are a triple.
LEMMA GridIs ==
  ASSUME HostInv, NEW h \in Hosts, host[h].at \in Launched \cup {"run"}
  PROVE  Grid(h) = (0..(GroupsX(h) - 1)) \X (0..(Groups(h)[2] - 1)) \X (0..(Groups(h)[3] - 1))
<1>1. DOMAIN Groups(h) = Dims
  BY DEF Groups
<1>2. \A x : /\ [Groups(h) EXCEPT ![1] = x][1] = x
              /\ [Groups(h) EXCEPT ![1] = x][2] = Groups(h)[2]
              /\ [Groups(h) EXCEPT ![1] = x][3] = Groups(h)[3]
  BY <1>1 DEF Dims
<1>3. QED
  BY <1>2 DEF Grid, GridOf

\* ... and each group that is shared out is in one.
LEMMA SlicesCover ==
  ASSUME HostInv, NEW h \in Hosts, host[h].at \in Launched, NEW g \in Grid(h)
  PROVE  /\ g \in Size /\ g[1] < GroupsX(h) /\ g[2] < Groups(h)[2] /\ g[3] < Groups(h)[3]
         /\ \E i \in Threads : i < host[h].threads /\ InSlice(h, i, g)
<1>1. GroupsX(h) \in Nat /\ Groups(h)[2] \in Nat /\ Groups(h)[3] \in Nat
  BY GroupsTyped, GroupsXTyped DEF Dims
<1>2. g \in Size /\ g[1] < GroupsX(h) /\ g[2] < Groups(h)[2] /\ g[3] < Groups(h)[3]
  <2>1. g \in (0..(GroupsX(h) - 1)) \X (0..(Groups(h)[2] - 1)) \X (0..(Groups(h)[3] - 1))
    BY GridIs
  <2>2. QED
    BY <1>1, <2>1 DEF Size
<1>3. PICK t \in Nat, e \in Nat, n \in Nat, x \in Nat :
        /\ t = host[h].threads /\ e = host[h].each /\ n = GroupsX(h) /\ x = g[1]
        /\ e >= 1 /\ t >= 1 /\ t <= MaxThreadCount /\ x < n
  <2>1. /\ host[h].threads \in Nat /\ host[h].threads <= MaxThreadCount /\ host[h].each \in Nat
        /\ host[h].each >= 1 /\ host[h].threads >= 1
    BY HostFields DEF HostInv, HostOK, SplitOK
  <2>2. g[1] \in Nat
    BY <1>2 DEF Size
  <2>3. QED
    BY <1>1, <1>2, <2>1, <2>2
<1>4. \A i \in 0..(t - 1) : i \in Threads
  BY <1>3, RangeAssumption DEF Threads
<1>5. PICK q \in Nat : q * e <= x /\ x <= q * e + e - 1
  BY <1>3, Remainder
<1>6. CASE q + 1 < t
  <2>1. q \in Threads /\ q < host[h].threads /\ q + 1 # t
    BY <1>3, <1>4, <1>6
  <2>2. Slice(h, q).first = q * e /\ Slice(h, q).last = q * e + e - 1
    BY <1>3, <2>1, SliceBounds
  <2>3. q * e \in Nat
    BY <1>3
  <2>4. InSlice(h, q, g)
    BY <1>3, <1>5, <2>2, <2>3 DEF InSlice
  <2>5. QED
    BY <1>2, <2>1, <2>4
<1>7. CASE ~(q + 1 < t)
  <2>1. PICK m \in Nat : m = t - 1
    BY <1>3
  <2>2. m \in Threads /\ m < host[h].threads /\ m + 1 = t /\ m <= q
    BY <1>3, <1>4, <1>7, <2>1
  <2>3. Slice(h, m).first = m * e /\ Slice(h, m).last = n - 1
    BY <1>3, <2>2, SliceBounds
  <2>4. \A a, b \in Nat : a <= b => a = b \/ a + 1 <= b
    OBVIOUS
  <2>5. m * e \in Nat /\ m * e <= q * e /\ q * e \in Nat
    <3>1. CASE m = q
      BY <1>3, <3>1
    <3>2. CASE m + 1 <= q
      <4>1. m * e + e <= q * e /\ m * e \in Nat /\ q * e \in Nat
        BY <1>3, <3>2, Products
      <4>2. QED
        BY <1>3, <4>1
    <3>3. QED
      BY <2>2, <2>4, <3>1, <3>2
  <2>6. InSlice(h, m, g)
    BY <1>3, <1>5, <2>3, <2>5 DEF InSlice
  <2>7. QED
    BY <1>2, <2>2, <2>6
<1>8. QED
  BY <1>6, <1>7

\* What a slice is made of.
SameSplit(h) ==
  /\ host'[h].each = host[h].each /\ host'[h].threads = host[h].threads
  /\ host'[h].global = host[h].global /\ host'[h].local = host[h].local

LEMMA SliceKept ==
  ASSUME NEW h \in Hosts, SameSplit(h), NEW i \in Threads
  PROVE  Groups(h)' = Groups(h) /\ Slice(h, i)' = Slice(h, i)
<1>1. Groups(h)' = Groups(h) /\ GroupsX(h)' = GroupsX(h)
  BY DEF SameSplit, Groups, GroupsX
<1>2. QED
  BY <1>1 DEF SameSplit, Slice

-----------------------------------------------------------------------------
(* The threads of the launches: types.                                         *)

ArgsRecord == [group : Size, last : Nat, groups : Size]
WorkerRecord(n) == [at : {"none", "created", "running", "exited"},
                    args : 0..n, first : Nat, gid : Size]
ThreadsTyped ==
  /\ worker \in [Hosts -> [Threads -> WorkerRecord(Len(args))]]
  /\ args \in Seq(ArgsRecord) /\ dead \in BOOLEAN
Typed == HostInv /\ ArgsInv /\ ThreadsTyped

LEMMA WorkersStay ==
  ASSUME ThreadsTyped, Len(args') >= Len(args), args' \in Seq(ArgsRecord)
  PROVE  worker \in [Hosts -> [Threads -> WorkerRecord(Len(args'))]]
<1>1. Len(args) \in Nat /\ Len(args') \in Nat
  BY LenProperties DEF ThreadsTyped
<1>2. \A k \in Hosts, j \in Threads : worker[k][j] \in WorkerRecord(Len(args'))
  BY <1>1 DEF ThreadsTyped, WorkerRecord
<1>3. QED
  BY <1>2 DEF ThreadsTyped

\* Taking thread_arguments overwrites none that a thread at work has.
LEMMA ArgsTaken ==
  ASSUME ArgsInv, args \in Seq(ArgsRecord), NEW c \in ArgsRecord, NEW a,
         a = IF pool # <<>> THEN Head(pool) ELSE Len(args) + 1,
         args' = IF pool # <<>> THEN [args EXCEPT ![a] = c] ELSE Append(args, c)
  PROVE  /\ args' \in Seq(ArgsRecord) /\ Len(args') >= Len(args)
         /\ a \in 1..Len(args') /\ args'[a] = c
         /\ \A n \in 1..Len(args) : n # a => args'[n] = args[n]
         /\ \A k \in Hosts, j \in Threads : Busy(k, j) =>
              worker[k][j].args \in 1..Len(args) /\ worker[k][j].args # a
<1>1. Len(args) \in Nat
  BY LenProperties
<1>2. \A k \in Hosts, j \in Threads : Busy(k, j) => worker[k][j].args \in 1..Len(args)
  BY DEF ArgsInv, WorkersInv
<1>3. CASE pool # <<>>
  <2>1. a = pool[1] /\ 1 \in DOMAIN pool /\ a \in 1..Len(args)
    BY <1>3, HeadTailProperties, EmptySeq, LenProperties DEF ArgsInv, PoolInv
  <2>2. args' = [args EXCEPT ![a] = c]
    BY <1>3
  <2>3. /\ args' \in Seq(ArgsRecord) /\ Len(args') = Len(args) /\ args'[a] = c
        /\ \A n \in 1..Len(args) : n # a => args'[n] = args[n]
    BY <2>1, <2>2, ExceptSeq
  <2>4. \A k \in Hosts, j \in Threads : Busy(k, j) => worker[k][j].args # a
    BY <2>1 DEF ArgsInv, ArgsPrivate, Busy
  <2>5. QED
    BY <1>1, <1>2, <2>1, <2>3, <2>4
<1>4. CASE pool = <<>>
  <2>1. args' = Append(args, c) /\ a = Len(args) + 1
    BY <1>4
  <2>2. /\ args' \in Seq(ArgsRecord) /\ Len(args') = Len(args) + 1 /\ args'[a] = c
        /\ \A n \in 1..Len(args) : args'[n] = args[n]
    BY <2>1, AppendProperties
  <2>3. QED
    BY <1>1, <1>2, <2>1, <2>2
<1>5. QED
  BY <1>3, <1>4

\* What the steps of a thread do, one fact for each.
LEMMA CreateStep ==
  ASSUME Typed, NEW h \in Hosts, Create(h)
  PROVE  /\ ThreadsTyped'
         /\ \E n \in Threads :
              /\ n = host[h].next /\ n < host[h].threads
              /\ worker'[h][n].at = "created"
              /\ args'[worker'[h][n].args].last = Slice(h, n).last
              /\ args'[worker'[h][n].args].groups = Groups(h)
              /\ args'[worker'[h][n].args].group[1] = Slice(h, n).first
              /\ \A k \in Hosts, j \in Threads : <<k, j>> # <<h, n>> =>
                   /\ worker'[k][j] = worker[k][j]
                   /\ Busy(k, j) => args'[worker[k][j].args] = args[worker[k][j].args]
<1>1. PICK n \in Threads : n = host[h].next /\ n < host[h].threads /\ host[h].at = "create"
  BY HostFields DEF Typed, HostInv, HostOK, SplitOK, Create, At
<1>2. PICK f \in Nat, l \in Nat : f = Slice(h, n).first /\ l = Slice(h, n).last
  BY <1>1, SliceBounds DEF Typed, Launched
<1>3. PICK gs \in Size : gs = Groups(h)
  BY <1>1, GroupsTyped DEF Typed, Launched
<1>4. PICK c \in ArgsRecord : c = [group |-> <<f, 0, 0>>, last |-> l, groups |-> gs]
  BY DEF ArgsRecord, Size
<1>5. PICK a : a = IF pool # <<>> THEN Head(pool) ELSE Len(args) + 1
  OBVIOUS
<1>6. /\ args' = IF pool # <<>> THEN [args EXCEPT ![a] = c] ELSE Append(args, c)
      /\ worker' = [worker EXCEPT ![h][n] = [at |-> "created", args |-> a, first |-> 0,
                                             gid |-> <<0, 0, 0>>]]
      /\ dead' = dead
  BY <1>1, <1>2, <1>3, <1>4, <1>5 DEF Create
<1>7. /\ args' \in Seq(ArgsRecord) /\ Len(args') >= Len(args)
      /\ a \in 1..Len(args') /\ args'[a] = c
      /\ \A m \in 1..Len(args) : m # a => args'[m] = args[m]
      /\ \A k \in Hosts, j \in Threads : Busy(k, j) =>
           worker[k][j].args \in 1..Len(args) /\ worker[k][j].args # a
  BY <1>5, <1>6, ArgsTaken DEF Typed, ThreadsTyped
<1>8. PICK w \in WorkerRecord(Len(args')) :
        w = [at |-> "created", args |-> a, first |-> 0, gid |-> <<0, 0, 0>>]
  <2>1. Len(args') \in Nat /\ a \in 0..Len(args') /\ <<0, 0, 0>> \in Size
    BY <1>7, LenProperties DEF Size
  <2>2. QED
    BY <2>1 DEF WorkerRecord
<1>9. /\ ThreadsTyped' /\ worker'[h][n] = w
      /\ \A k \in Hosts, j \in Threads : <<k, j>> # <<h, n>> => worker'[k][j] = worker[k][j]
  <2>1. worker \in [Hosts -> [Threads -> WorkerRecord(Len(args'))]]
    BY <1>7, WorkersStay DEF Typed
  <2>2. QED
    BY <1>1, <1>6, <1>7, <1>8, <2>1 DEF Typed, ThreadsTyped
<1>10. /\ args'[worker'[h][n].args].last = Slice(h, n).last
       /\ args'[worker'[h][n].args].groups = Groups(h)
       /\ args'[worker'[h][n].args].group[1] = Slice(h, n).first
       /\ worker'[h][n].at = "created"
  BY <1>2, <1>3, <1>4, <1>7, <1>8, <1>9
<1>11. QED
  BY <1>1, <1>7, <1>9, <1>10

\* The other threads keep their variables and their arguments.
OthersKept(h, i) ==
  \A k \in Hosts, j \in Threads : <<k, j>> # <<h, i>> =>
    /\ worker'[k][j] = worker[k][j]
    /\ Busy(k, j) => args'[worker[k][j].args] = args[worker[k][j].args]

LEMMA BeginStep ==
  ASSUME Typed, NEW h \in Hosts, NEW i \in Threads, Begin(h, i)
  PROVE  /\ ThreadsTyped' /\ OthersKept(h, i) /\ UNCHANGED <<host, args>>
         /\ worker[h][i].at = "created" /\ worker'[h][i].at = "running"
         /\ worker'[h][i].args = worker[h][i].args
         /\ worker'[h][i].first = args[worker[h][i].args].group[1]
         /\ worker'[h][i].gid = <<args[worker[h][i].args].group[1], 0, 0>>
<1>1. PICK x : x = args[worker[h][i].args].group[1]
  OBVIOUS
<1>2. /\ worker[h][i].at = "created" /\ UNCHANGED <<host, args, dead>>
      /\ worker' = [worker EXCEPT ![h][i].at = "running", ![h][i].first = x, ![h][i].gid = <<x, 0, 0>>]
  BY <1>1 DEF Begin, WorkerAt
<1>3. x \in Nat
  <2>1. worker[h][i].args \in 1..Len(args)
    BY <1>2 DEF Typed, ArgsInv, WorkersInv, Busy
  <2>2. args[worker[h][i].args] \in ArgsRecord
    BY <2>1 DEF Typed, ThreadsTyped
  <2>3. QED
    BY <1>1, <2>2 DEF ArgsRecord, Size
<1> DEFINE w == [worker[h][i] EXCEPT !.at = "running", !.first = x, !.gid = <<x, 0, 0>>]
<1>4. /\ w \in WorkerRecord(Len(args)) /\ w.at = "running" /\ w.args = worker[h][i].args
      /\ w.first = x /\ w.gid = <<x, 0, 0>>
  <2>1. worker[h][i] \in WorkerRecord(Len(args))
    BY DEF Typed, ThreadsTyped
  <2>2. <<x, 0, 0>> \in Size
    BY <1>3 DEF Size
  <2>3. QED
    BY <1>3, <2>1, <2>2 DEF WorkerRecord
<1>5. worker' = [worker EXCEPT ![h][i] = w]
  BY <1>2
<1> HIDE DEF w
<1>6. Len(args') >= Len(args) /\ args' \in Seq(ArgsRecord) /\ dead' \in BOOLEAN /\ Len(args') = Len(args)
  BY <1>2, LenProperties DEF Typed, ThreadsTyped
<1>7. /\ ThreadsTyped' /\ worker'[h][i] = w
      /\ \A k \in Hosts, j \in Threads : <<k, j>> # <<h, i>> => worker'[k][j] = worker[k][j]
  BY <1>4, <1>5, <1>6 DEF Typed, ThreadsTyped
<1>8. QED
  BY <1>1, <1>2, <1>4, <1>7 DEF OthersKept

LEMMA RunGroupStep ==
  ASSUME Typed, NEW h \in Hosts, NEW i \in Threads, RunGroup(h, i)
  PROVE  /\ ThreadsTyped' /\ OthersKept(h, i) /\ host' = host
         /\ worker[h][i].at = "running" /\ worker'[h][i].at = "running"
         /\ worker'[h][i].args = worker[h][i].args /\ worker'[h][i].first = worker[h][i].first
         /\ worker[h][i].gid[3] < args[worker[h][i].args].groups[3]
         /\ worker'[h][i].gid = NextGroup(worker[h][i].gid, worker[h][i].first,
                                          args[worker[h][i].args].last, args[worker[h][i].args].groups)
         /\ args'[worker[h][i].args].last = args[worker[h][i].args].last
         /\ args'[worker[h][i].args].groups = args[worker[h][i].args].groups
<1>1. PICK r \in WorkerRecord(Len(args)) : r = worker[h][i]
  BY DEF Typed, ThreadsTyped
<1>2. r.at = "running" /\ r.args \in 1..Len(args) /\ r.gid[3] < args[r.args].groups[3]
  BY <1>1 DEF RunGroup, WorkerAt, Typed, ArgsInv, WorkersInv, Busy
<1>3. PICK a \in ArgsRecord : a = args[r.args]
  BY <1>2 DEF Typed, ThreadsTyped
<1>4. PICK g \in Size : g = NextGroup(r.gid, r.first, a.last, a.groups)
  <2>1. r.gid \in Size /\ r.first \in Nat
    BY DEF WorkerRecord
  <2>2. r.gid[1] \in Nat /\ r.gid[2] \in Nat /\ r.gid[3] \in Nat /\ r.gid = <<r.gid[1], r.gid[2], r.gid[3]>>
    BY <2>1 DEF Size
  <2>3. [r.gid EXCEPT ![1] = @ + 1] \in Size
    <3>1. [r.gid EXCEPT ![1] = @ + 1] = <<r.gid[1] + 1, r.gid[2], r.gid[3]>>
      BY <2>2
    <3>2. QED
      BY <2>2, <3>1 DEF Size
  <2>4. <<r.first, r.gid[2] + 1, r.gid[3]>> \in Size /\ <<r.first, 0, r.gid[3] + 1>> \in Size
    BY <2>1, <2>2 DEF Size
  <2>5. QED
    BY <2>3, <2>4 DEF NextGroup
<1> DEFINE w == [r EXCEPT !.gid = g]
           c == [a EXCEPT !.group = r.gid]
<1>5. /\ w \in WorkerRecord(Len(args))
      /\ w.at = r.at /\ w.args = r.args /\ w.first = r.first /\ w.gid = g
  BY DEF WorkerRecord
<1>6. c \in ArgsRecord /\ c.last = a.last /\ c.groups = a.groups
  BY DEF ArgsRecord, WorkerRecord
<1>7. /\ worker' = [worker EXCEPT ![h][i] = w] /\ args' = [args EXCEPT ![r.args] = c]
      /\ UNCHANGED <<host, dead>>
  BY <1>1, <1>3, <1>4 DEF RunGroup
<1> HIDE DEF w, c
<1>8. /\ args' \in Seq(ArgsRecord) /\ Len(args') = Len(args) /\ args'[r.args] = c
      /\ \A n \in 1..Len(args) : n # r.args => args'[n] = args[n]
      /\ Len(args) \in Nat
  <2>1. args \in Seq(ArgsRecord) /\ c \in ArgsRecord /\ r.args \in 1..Len(args)
    BY <1>2, <1>6 DEF Typed, ThreadsTyped
  <2>2. args' = [args EXCEPT ![r.args] = c]
    BY <1>7
  <2>3. QED
    BY <2>1, <2>2, ExceptSeq, LenProperties
<1>9. /\ ThreadsTyped' /\ worker'[h][i] = w
      /\ \A k \in Hosts, j \in Threads : <<k, j>> # <<h, i>> => worker'[k][j] = worker[k][j]
  BY <1>5, <1>7, <1>8 DEF Typed, ThreadsTyped
<1>10. \A k \in Hosts, j \in Threads : <<k, j>> # <<h, i>> /\ Busy(k, j) =>
         worker[k][j].args \in 1..Len(args) /\ worker[k][j].args # r.args
  BY <1>1, <1>2 DEF Typed, ArgsInv, WorkersInv, ArgsPrivate, Busy
<1>11. OthersKept(h, i)
  BY <1>8, <1>9, <1>10 DEF OthersKept
<1>12. QED
  BY <1>1, <1>2, <1>3, <1>4, <1>5, <1>6, <1>7, <1>8, <1>9, <1>11

LEMMA ExitStep ==
  ASSUME Typed, NEW h \in Hosts, NEW i \in Threads, Exit(h, i)
  PROVE  /\ ThreadsTyped' /\ OthersKept(h, i) /\ UNCHANGED <<host, args>>
         /\ worker[h][i].at = "running" /\ worker'[h][i].at = "exited"
         /\ worker[h][i].gid[3] >= args[worker[h][i].args].groups[3]
<1>1. /\ worker[h][i].at = "running" /\ UNCHANGED <<host, args, dead>>
      /\ worker[h][i].gid[3] >= args[worker[h][i].args].groups[3]
      /\ worker' = [worker EXCEPT ![h][i].at = "exited"]
  BY DEF Exit, WorkerAt
<1> DEFINE w == [worker[h][i] EXCEPT !.at = "exited"]
<1>2. w \in WorkerRecord(Len(args)) /\ w.at = "exited"
  <2>1. worker[h][i] \in WorkerRecord(Len(args))
    BY DEF Typed, ThreadsTyped
  <2>2. QED
    BY <2>1 DEF WorkerRecord
<1>3. worker' = [worker EXCEPT ![h][i] = w]
  BY <1>1
<1> HIDE DEF w
<1>4. Len(args') >= Len(args) /\ args' \in Seq(ArgsRecord) /\ dead' \in BOOLEAN /\ Len(args') = Len(args)
  BY <1>1, LenProperties DEF Typed, ThreadsTyped
<1>5. /\ ThreadsTyped' /\ worker'[h][i] = w
      /\ \A k \in Hosts, j \in Threads : <<k, j>> # <<h, i>> => worker'[k][j] = worker[k][j]
  BY <1>2, <1>3, <1>4 DEF Typed, ThreadsTyped
<1>6. QED
  BY <1>1, <1>2, <1>5 DEF OthersKept

LEMMA InitTyped == Init => Typed
<1> SUFFICES ASSUME Init PROVE Typed
  OBVIOUS
<1>1. NoWorker \in WorkerRecord(0)
  BY DEF NoWorker, NoSize, WorkerRecord, Size
<1>2. args \in Seq(ArgsRecord) /\ Len(args) = 0
  BY DEF Init
<1>3. ThreadsTyped
  BY <1>1, <1>2 DEF Init, ThreadsTyped
<1>4. QED
  BY <1>3, InitHosts, InitArgs DEF Typed

LEMMA TypedNext == Typed /\ [Next]_vars => Typed'
<1> SUFFICES ASSUME Typed, [Next]_vars PROVE Typed'
  OBVIOUS
<1>1. HostInv' /\ ArgsInv'
  BY HostsNext, ArgsNext DEF Typed
<1>2. ASSUME UNCHANGED <<worker, args>>, dead' \in BOOLEAN PROVE ThreadsTyped'
  BY <1>2 DEF Typed, ThreadsTyped
<1>3. ASSUME NEW h \in Hosts, HostStep(h) PROVE ThreadsTyped'
  <2>1. CASE Create(h)
    BY <2>1, CreateStep
  <2>2. CASE ~Create(h)
    BY <1>2, <1>3, <2>2 DEF HostStep, Choose, Check, Split, CreateFails, Join, Dies, Typed, ThreadsTyped
  <2>3. QED
    BY <2>1, <2>2
<1>4. ASSUME NEW h \in Hosts, NEW i \in Threads, WorkerStep(h, i) PROVE ThreadsTyped'
  BY <1>4, BeginStep, RunGroupStep, ExitStep DEF WorkerStep
<1>5. ASSUME UNCHANGED vars PROVE ThreadsTyped'
  BY <1>2, <1>5 DEF vars, Typed, ThreadsTyped
<1>6. ASSUME NEW h \in Hosts, NEW global \in Globals, NEW local \in Locals \cup {NoSizeGiven},
             Enqueue(h, global, local)
      PROVE  ThreadsTyped'
  BY <1>2, <1>6 DEF Enqueue, Typed, ThreadsTyped
<1>7. ThreadsTyped'
  BY <1>3, <1>4, <1>5, <1>6 DEF Next
<1>8. QED
  BY <1>1, <1>7 DEF Typed

\* The variables have their types: in particular each thread is created with a
\* slice that is not empty, and the next thread of a loop is one of the array.
THEOREM LaunchTypes == Spec => []TypeOK
<1>1. Typed => TypeOK
  <2> SUFFICES ASSUME Typed PROVE TypeOK
    OBVIOUS
  <2>1. DOMAIN args = 1..Len(args) /\ pool \in Seq(1..Len(args))
    BY DEF Typed, ThreadsTyped, ArgsInv, PoolInv
  <2>2. QED
    BY <2>1 DEF Typed, HostInv, HostsTyped, HostRecord, ThreadsTyped, WorkerRecord, ArgsRecord, TypeOK
<1>2. QED
  BY <1>1, InitTyped, TypedNext, PTL DEF Spec

-----------------------------------------------------------------------------
(* The threads of the launches: who there is, and what each still has to run.  *)

\* How many threads of a launch have been created.
Created(h) ==
  IF host[h].at = "create" THEN host[h].next
  ELSE IF host[h].at \in Launched THEN host[h].threads ELSE 0
Counted(h, i) ==
  /\ worker[h][i].at = "none" <=> i >= Created(h)
  /\ \/ host[h].at = "join" /\ i < host[h].next
     \/ host[h].at = "done" /\ i < Created(h)
     => worker[h][i].at = "exited"
\* A thread at work has its slice: in its arguments, ...
HasArgs(h, i) ==
  LET a == args[worker[h][i].args]
  IN  /\ Busy(h, i) => a.last = Slice(h, i).last /\ a.groups = Groups(h)
      /\ worker[h][i].at = "created" => a.group[1] = Slice(h, i).first
\* ... and, once it has read it from there, in its own variables.
InLoop(h, i) ==
  LET w == worker[h][i]
      slice == Slice(h, i)
  IN  w.at = "running" =>
        /\ w.first = slice.first
        /\ slice.first <= w.gid[1] /\ w.gid[1] <= slice.last /\ w.gid[2] < Groups(h)[2]
        /\ w.gid[3] < Groups(h)[3] \/ w.gid = <<slice.first, 0, Groups(h)[3]>>
WorkerOK(h, i) == Counted(h, i) /\ HasArgs(h, i) /\ InLoop(h, i)
WorkersOK == \A h \in Hosts : \A i \in Threads : WorkerOK(h, i)

LEMMA SliceThere ==
  ASSUME Typed, WorkersOK, NEW h \in Hosts, NEW i \in Threads, worker[h][i].at # "none"
  PROVE  host[h].at \in Launched /\ i < host[h].threads
<1>1. i \in Nat /\ host[h].next \in Nat /\ host[h].threads \in Nat
  BY HostFields DEF Typed, HostInv
<1>2. i < Created(h)
  BY <1>1 DEF WorkersOK, WorkerOK, Counted, Created
<1>3. QED
  BY <1>1, <1>2 DEF Created, Launched, Typed, HostInv, HostOK, SplitOK

\* A launch whose split stays, and a thread of it that does nothing.
LEMMA WorkerRests ==
  ASSUME NEW k \in Hosts, NEW j \in Threads, SameSplit(k), WorkerOK(k, j), Counted(k, j)',
         worker'[k][j] = worker[k][j],
         Busy(k, j) => args'[worker[k][j].args] = args[worker[k][j].args]
  PROVE  WorkerOK(k, j)'
<1>1. Groups(k)' = Groups(k) /\ Slice(k, j)' = Slice(k, j)
  BY SliceKept
<1>2. HasArgs(k, j)'
  BY <1>1 DEF WorkerOK, HasArgs, Busy
<1>3. InLoop(k, j)'
  BY <1>1 DEF WorkerOK, InLoop
<1>4. QED
  BY <1>2, <1>3 DEF WorkerOK

\* A launch that has no threads before the step, nor after it.
LEMMA NoThreads ==
  ASSUME Typed, WorkersOK, NEW h \in Hosts, host[h].at \notin Launched,
         \A k \in Hosts \ {h} : host'[k] = host[k], UNCHANGED <<worker, args>>,
         \/ host'[h].at \notin Launched
         \/ host'[h].at = "create" /\ host'[h].next = 0
  PROVE  WorkersOK'
<1> SUFFICES ASSUME NEW k \in Hosts, NEW j \in Threads PROVE WorkerOK(k, j)'
  BY DEF WorkersOK, Threads
<1>1. CASE k = h
  <2>1. j \in Nat
    BY HostFields DEF Typed, HostInv
  <2>2. worker[k][j].at = "none" /\ worker'[k][j].at = "none"
    BY <1>1, <2>1 DEF WorkersOK, WorkerOK, Counted, Created, Launched
  <2>3. Created(k)' = 0
    BY <1>1 DEF Created, Launched
  <2>4. QED
    BY <1>1, <2>1, <2>2, <2>3 DEF WorkerOK, Counted, HasArgs, InLoop, Busy, Launched
<1>2. CASE k # h
  <2>1. host'[k] = host[k] /\ WorkerOK(k, j)
    BY <1>2 DEF WorkersOK
  <2>2. Counted(k, j)' /\ SameSplit(k)
    BY <2>1 DEF WorkerOK, Counted, Created, SameSplit
  <2>3. QED
    BY <2>1, <2>2, WorkerRests
<1>3. QED
  BY <1>1, <1>2

LEMMA EnqueueThreads ==
  ASSUME Typed, WorkersOK, NEW h \in Hosts, NEW global \in Globals, NEW local \in Locals \cup {NoSizeGiven},
         Enqueue(h, global, local)
  PROVE  WorkersOK'
<1>1. /\ host[h].at = "idle" /\ UNCHANGED <<worker, args>>
      /\ \A k \in Hosts \ {h} : host'[k] = host[k]
      /\ host'[h].at \in {"refused", "choose", "check"}
  BY DEF Enqueue, At, Typed, HostInv, HostsTyped, HostRecord
<1>2. QED
  BY <1>1, NoThreads DEF Launched

LEMMA ChooseThreads == ASSUME Typed, WorkersOK, NEW h \in Hosts, Choose(h) PROVE WorkersOK'
<1>1. /\ host[h].at = "choose" /\ UNCHANGED <<worker, args>>
      /\ \A k \in Hosts \ {h} : host'[k] = host[k]
      /\ host'[h].at \in {"choose", "check"}
  BY DEF Choose, At, Typed, HostInv, HostsTyped, HostRecord
<1>2. QED
  BY <1>1, NoThreads DEF Launched

LEMMA CheckThreads == ASSUME Typed, WorkersOK, NEW h \in Hosts, Check(h) PROVE WorkersOK'
<1>1. /\ host[h].at = "check" /\ UNCHANGED <<worker, args>>
      /\ \A k \in Hosts \ {h} : host'[k] = host[k]
      /\ host'[h].at \in {"refused", "check", "run"}
  BY DEF Check, Goto, Dies, At, Typed, HostInv, HostsTyped, HostRecord
<1>2. QED
  BY <1>1, NoThreads DEF Launched

LEMMA SplitThreads == ASSUME Typed, WorkersOK, NEW h \in Hosts, Split(h) PROVE WorkersOK'
<1>1. /\ host[h].at = "run" /\ UNCHANGED <<worker, args>>
      /\ \A k \in Hosts \ {h} : host'[k] = host[k]
      /\ host'[h].at = "run" \/ (host'[h].at = "create" /\ host'[h].next = 0)
  BY DEF Split, Dies, At, Typed, HostInv, HostsTyped, HostRecord
<1>2. QED
  BY <1>1, NoThreads DEF Launched

\* NextOf goes to the next thread of the loop, or to what comes after the loop.
LEMMA NextOfGoes ==
  ASSUME Typed, NEW h \in Hosts, NEW s, NextOf(h, s)
  PROVE  /\ \A k \in Hosts \ {h} : host'[k] = host[k]
         /\ SameSplit(h)
         /\ IF host[h].next + 1 = host[h].threads
            THEN host'[h].at = s /\ host'[h].next = 0
            ELSE host'[h].at = host[h].at /\ host'[h].next = host[h].next + 1
BY DEF NextOf, Typed, HostInv, HostsTyped, HostRecord, SameSplit

LEMMA CreateThreads == ASSUME Typed, WorkersOK, NEW h \in Hosts, Create(h) PROVE WorkersOK'
<1> SUFFICES ASSUME NEW k \in Hosts, NEW j \in Threads PROVE WorkerOK(k, j)'
  BY DEF WorkersOK, Threads
<1>1. PICK n \in Threads :
        /\ n = host[h].next /\ n < host[h].threads
        /\ worker'[h][n].at = "created"
        /\ args'[worker'[h][n].args].last = Slice(h, n).last
        /\ args'[worker'[h][n].args].groups = Groups(h)
        /\ args'[worker'[h][n].args].group[1] = Slice(h, n).first
        /\ \A l \in Hosts, m \in Threads : <<l, m>> # <<h, n>> =>
             /\ worker'[l][m] = worker[l][m]
             /\ Busy(l, m) => args'[worker[l][m].args] = args[worker[l][m].args]
  BY CreateStep
<1>2. /\ host[h].at = "create"
      /\ \A l \in Hosts \ {h} : host'[l] = host[l]
      /\ SameSplit(h)
      /\ IF n + 1 = host[h].threads THEN host'[h].at = "join" /\ host'[h].next = 0
         ELSE host'[h].at = "create" /\ host'[h].next = n + 1
  BY <1>1, NextOfGoes DEF Create, At
<1>3. /\ n \in Nat /\ j \in Nat /\ host[h].threads \in Nat /\ host'[h].threads = host[h].threads
  BY <1>2, HostFields DEF Typed, HostInv, SameSplit
<1>4. Created(h) = n /\ Created(h)' = n + 1
  BY <1>1, <1>2, <1>3 DEF Created, Launched
<1>5. CASE k = h /\ j = n
  <2>1. Groups(h)' = Groups(h) /\ Slice(h, n)' = Slice(h, n)
    BY <1>2, SliceKept
  <2>2. Counted(h, n)'
    BY <1>1, <1>2, <1>3, <1>4 DEF Counted
  <2>3. HasArgs(h, n)' /\ InLoop(h, n)'
    BY <1>1, <2>1 DEF HasArgs, InLoop
  <2>4. QED
    BY <1>5, <2>2, <2>3 DEF WorkerOK
<1>6. CASE k = h /\ j # n
  <2>1. /\ worker'[h][j] = worker[h][j] /\ WorkerOK(h, j)
        /\ Busy(h, j) => args'[worker[h][j].args] = args[worker[h][j].args]
    BY <1>1, <1>6 DEF WorkersOK
  <2>2. Counted(h, j)'
    BY <1>2, <1>3, <1>4, <1>6, <2>1 DEF WorkerOK, Counted
  <2>3. QED
    BY <1>2, <1>6, <2>1, <2>2, WorkerRests
<1>7. CASE k # h
  <2>1. /\ worker'[k][j] = worker[k][j] /\ WorkerOK(k, j) /\ host'[k] = host[k]
        /\ Busy(k, j) => args'[worker[k][j].args] = args[worker[k][j].args]
    BY <1>1, <1>2, <1>7 DEF WorkersOK
  <2>2. Counted(k, j)' /\ SameSplit(k)
    BY <2>1 DEF WorkerOK, Counted, Created, SameSplit
  <2>3. QED
    BY <2>1, <2>2, WorkerRests
<1>8. QED
  BY <1>5, <1>6, <1>7

LEMMA JoinThreads == ASSUME Typed, WorkersOK, NEW h \in Hosts, Join(h) PROVE WorkersOK'
<1> SUFFICES ASSUME NEW k \in Hosts, NEW j \in Threads PROVE WorkerOK(k, j)'
  BY DEF WorkersOK, Threads
<1>1. /\ host[h].at = "join" /\ worker[h][host[h].next].at = "exited"
      /\ \A l \in Hosts \ {h} : host'[l] = host[l]
      /\ SameSplit(h) /\ UNCHANGED <<worker, args>>
      /\ IF host[h].next + 1 = host[h].threads THEN host'[h].at = "done" /\ host'[h].next = 0
         ELSE host'[h].at = "join" /\ host'[h].next = host[h].next + 1
  BY NextOfGoes DEF Join, At
<1>2. /\ host[h].next \in Nat /\ j \in Nat /\ host[h].threads \in Nat /\ host'[h].threads = host[h].threads
      /\ host[h].next < host[h].threads
  BY <1>1, HostFields DEF Typed, HostInv, HostOK, SplitOK, SameSplit
<1>3. CASE k = h
  <2>1. WorkerOK(h, j)
    BY DEF WorkersOK
  <2>2. Created(h) = host[h].threads /\ Created(h)' = host[h].threads
    BY <1>1, <1>2 DEF Created, Launched
  <2>3. j < host[h].next \/ j = host[h].next => worker[h][j].at = "exited"
    BY <1>1, <2>1 DEF WorkerOK, Counted
  <2>4. Counted(h, j)'
    <3>1. worker'[h][j].at = "none" <=> j >= Created(h)'
      BY <1>1, <2>1, <2>2 DEF WorkerOK, Counted
    <3>2. CASE host[h].next + 1 = host[h].threads
      BY <1>1, <1>2, <2>2, <2>3, <3>1, <3>2 DEF Counted
    <3>3. CASE host[h].next + 1 # host[h].threads
      BY <1>1, <1>2, <2>2, <2>3, <3>1, <3>3 DEF Counted
    <3>4. QED
      BY <3>2, <3>3
  <2>5. QED
    BY <1>1, <1>3, <2>1, <2>4, WorkerRests
<1>4. CASE k # h
  <2>1. host'[k] = host[k] /\ WorkerOK(k, j)
    BY <1>1, <1>4 DEF WorkersOK
  <2>2. Counted(k, j)' /\ SameSplit(k)
    BY <1>1, <2>1 DEF WorkerOK, Counted, Created, SameSplit
  <2>3. QED
    BY <1>1, <2>1, <2>2, WorkerRests
<1>5. QED
  BY <1>3, <1>4

LEMMA WorkerSteps ==
  ASSUME Typed, WorkersOK, NEW h \in Hosts, NEW i \in Threads, host' = host, OthersKept(h, i),
         WorkerOK(h, i)'
  PROVE  WorkersOK'
<1> SUFFICES ASSUME NEW k \in Hosts, NEW j \in Threads PROVE WorkerOK(k, j)'
  BY DEF WorkersOK, Threads
<1>1. CASE <<k, j>> = <<h, i>>
  BY <1>1
<1>2. CASE <<k, j>> # <<h, i>>
  <2>1. /\ worker'[k][j] = worker[k][j] /\ WorkerOK(k, j)
        /\ Busy(k, j) => args'[worker[k][j].args] = args[worker[k][j].args]
    BY <1>2 DEF OthersKept, WorkersOK
  <2>2. Counted(k, j)' /\ SameSplit(k)
    BY <2>1 DEF WorkerOK, Counted, Created, SameSplit
  <2>3. QED
    BY <2>1, <2>2, WorkerRests
<1>3. QED
  BY <1>1, <1>2

LEMMA BeginThreads ==
  ASSUME Typed, WorkersOK, NEW h \in Hosts, NEW i \in Threads, Begin(h, i)
  PROVE  WorkersOK'
<1>1. /\ OthersKept(h, i) /\ UNCHANGED <<host, args>>
      /\ worker[h][i].at = "created" /\ worker'[h][i].at = "running"
      /\ worker'[h][i].args = worker[h][i].args
      /\ worker'[h][i].first = args[worker[h][i].args].group[1]
      /\ worker'[h][i].gid = <<args[worker[h][i].args].group[1], 0, 0>>
  BY BeginStep
<1>2. WorkerOK(h, i) /\ host[h].at \in Launched /\ i < host[h].threads
  BY <1>1, SliceThere DEF WorkersOK
<1>3. Groups(h)' = Groups(h) /\ Slice(h, i)' = Slice(h, i)
  BY <1>1, SliceKept DEF SameSplit
<1>4. Counted(h, i)'
  BY <1>1, <1>2 DEF WorkerOK, Counted, Created
<1>5. HasArgs(h, i)'
  BY <1>1, <1>2, <1>3 DEF WorkerOK, HasArgs, Busy
<1>6. InLoop(h, i)'
  <2>1. PICK x : x = args[worker[h][i].args].group[1]
    OBVIOUS
  <2>2. x = Slice(h, i).first
    BY <1>1, <1>2, <2>1 DEF WorkerOK, HasArgs
  <2>3. /\ x \in Nat /\ x <= Slice(h, i).last
        /\ 0 < Groups(h)[2] /\ 0 < Groups(h)[3]
    BY <1>2, <2>2, SliceBounds, GroupsTyped DEF Typed, Dims
  <2>4. worker'[h][i].gid = <<x, 0, 0>> /\ worker'[h][i].first = x
    BY <1>1, <2>1
  <2>5. QED
    BY <1>3, <2>2, <2>3, <2>4 DEF InLoop
<1>7. QED
  BY <1>1, <1>4, <1>5, <1>6, WorkerSteps DEF WorkerOK

\* The order of the loops over z, y and x.
Before(g, e) ==
  \/ g[3] < e[3]
  \/ g[3] = e[3] /\ g[2] < e[2]
  \/ g[3] = e[3] /\ g[2] = e[2] /\ g[1] < e[1]

\* A turn of the loops goes to the next group of the slice, or past its end.
LEMMA NextGroupAdvances ==
  ASSUME NEW first \in Nat, NEW last \in Nat, NEW groups \in Size, NEW gid \in Size,
         first <= gid[1], gid[1] <= last, gid[2] < groups[2], gid[3] < groups[3],
         NEW n, n = NextGroup(gid, first, last, groups)
  PROVE  /\ n \in Size /\ first <= n[1] /\ n[1] <= last /\ n[2] < groups[2]
         /\ n[3] < groups[3] \/ n = <<first, 0, groups[3]>>
         /\ \A g \in Size : first <= g[1] /\ g[1] <= last /\ g[2] < groups[2] =>
              (Before(g, n) <=> Before(g, gid) \/ g = gid)
<1>1. PICK x \in Nat, y \in Nat, z \in Nat : gid = <<x, y, z>>
  BY DEF Size
<1>2. groups[2] \in Nat /\ groups[3] \in Nat /\ first <= x /\ x <= last /\ y < groups[2] /\ z < groups[3]
  BY <1>1 DEF Size
<1>3. n = IF x < last THEN <<x + 1, y, z>>
          ELSE IF y + 1 < groups[2] THEN <<first, y + 1, z>> ELSE <<first, 0, z + 1>>
  <2>1. [gid EXCEPT ![1] = @ + 1] = <<x + 1, y, z>>
    BY <1>1
  <2>2. QED
    BY <1>1, <2>1 DEF NextGroup
<1>4. /\ n \in Size /\ first <= n[1] /\ n[1] <= last /\ n[2] < groups[2]
      /\ n[3] < groups[3] \/ n = <<first, 0, groups[3]>>
  BY <1>2, <1>3 DEF Size
<1>5. ASSUME NEW g \in Size, first <= g[1], g[1] <= last, g[2] < groups[2]
      PROVE  Before(g, n) <=> Before(g, gid) \/ g = gid
  <2>1. PICK a \in Nat, b \in Nat, c \in Nat : g = <<a, b, c>>
    BY DEF Size
  <2>2. first <= a /\ a <= last /\ b < groups[2]
    BY <1>5, <2>1
  <2>3. Before(g, gid) \/ g = gid <=> c < z \/ (c = z /\ b < y) \/ (c = z /\ b = y /\ a <= x)
    BY <1>1, <2>1 DEF Before
  <2>4. CASE x < last
    BY <1>2, <1>3, <2>1, <2>2, <2>3, <2>4 DEF Before
  <2>5. CASE ~(x < last) /\ y + 1 < groups[2]
    BY <1>2, <1>3, <2>1, <2>2, <2>3, <2>5 DEF Before
  <2>6. CASE ~(x < last) /\ ~(y + 1 < groups[2])
    BY <1>2, <1>3, <2>1, <2>2, <2>3, <2>6 DEF Before
  <2>7. QED
    BY <2>4, <2>5, <2>6
<1>6. QED
  BY <1>4, <1>5

\* The group a running thread is at, while it has not run all of its slice.
LEMMA RunningIn ==
  ASSUME Typed, WorkersOK, NEW h \in Hosts, NEW i \in Threads, worker[h][i].at = "running"
  PROVE  LET a == args[worker[h][i].args]
             gid == worker[h][i].gid
         IN  /\ host[h].at \in Launched /\ i < host[h].threads /\ WorkerOK(h, i)
             /\ a.groups = Groups(h) /\ Groups(h) \in Size
             /\ a.last = Slice(h, i).last /\ worker[h][i].first = Slice(h, i).first
             /\ Slice(h, i).first \in Nat /\ Slice(h, i).last \in Nat
             /\ Slice(h, i).last < GroupsX(h)
             /\ gid \in Size /\ gid[2] < Groups(h)[2]
             /\ Slice(h, i).first <= gid[1] /\ gid[1] <= Slice(h, i).last
             /\ gid[3] < Groups(h)[3] \/ gid = <<Slice(h, i).first, 0, Groups(h)[3]>>
<1>1. host[h].at \in Launched /\ i < host[h].threads /\ WorkerOK(h, i)
  BY SliceThere DEF WorkersOK
<1>2. Groups(h) \in Size
  BY <1>1, GroupsTyped DEF Typed
<1>3. /\ Slice(h, i).first \in Nat /\ Slice(h, i).last \in Nat
      /\ Slice(h, i).last < GroupsX(h)
  BY <1>1, SliceBounds DEF Typed
<1>4. worker[h][i].gid \in Size
  BY DEF Typed, ThreadsTyped, WorkerRecord
<1>5. QED
  BY <1>1, <1>2, <1>3, <1>4 DEF WorkerOK, HasArgs, InLoop, Busy

LEMMA RunGroupThreads ==
  ASSUME Typed, WorkersOK, NEW h \in Hosts, NEW i \in Threads, RunGroup(h, i)
  PROVE  WorkersOK'
<1>1. /\ OthersKept(h, i) /\ host' = host
      /\ worker[h][i].at = "running" /\ worker'[h][i].at = "running"
      /\ worker'[h][i].args = worker[h][i].args /\ worker'[h][i].first = worker[h][i].first
      /\ worker[h][i].gid[3] < args[worker[h][i].args].groups[3]
      /\ worker'[h][i].gid = NextGroup(worker[h][i].gid, worker[h][i].first,
                                       args[worker[h][i].args].last, args[worker[h][i].args].groups)
      /\ args'[worker[h][i].args].last = args[worker[h][i].args].last
      /\ args'[worker[h][i].args].groups = args[worker[h][i].args].groups
  BY RunGroupStep
<1>2. PICK f \in Nat, l \in Nat, n \in Size, gid \in Size :
        /\ f = Slice(h, i).first /\ l = Slice(h, i).last /\ n = Groups(h) /\ gid = worker[h][i].gid
        /\ worker[h][i].first = f /\ args[worker[h][i].args].last = l
        /\ args[worker[h][i].args].groups = n
        /\ f <= gid[1] /\ gid[1] <= l /\ gid[2] < n[2] /\ gid[3] < n[3]
  BY <1>1, RunningIn
<1>3. Groups(h)' = Groups(h) /\ Slice(h, i)' = Slice(h, i)
  BY <1>1, SliceKept DEF SameSplit
<1>4. worker'[h][i].gid = NextGroup(gid, f, l, n)
  BY <1>1, <1>2
<1>5. PICK m \in Size :
        /\ m = NextGroup(gid, f, l, n)
        /\ f <= m[1] /\ m[1] <= l /\ m[2] < n[2]
        /\ m[3] < n[3] \/ m = <<f, 0, n[3]>>
  <2>1. PICK m : m = NextGroup(gid, f, l, n)
    OBVIOUS
  <2>2. f <= gid[1] /\ gid[1] <= l /\ gid[2] < n[2] /\ gid[3] < n[3]
    BY <1>2
  <2>3. /\ m \in Size /\ f <= m[1] /\ m[1] <= l /\ m[2] < n[2]
        /\ m[3] < n[3] \/ m = <<f, 0, n[3]>>
    BY <2>1, <2>2, NextGroupAdvances
  <2>4. QED
    BY <2>1, <2>3
<1>6. WorkerOK(h, i)
  BY DEF WorkersOK
<1>7. Counted(h, i)'
  BY <1>1, <1>6 DEF WorkerOK, Counted, Created
<1>8. HasArgs(h, i)'
  BY <1>1, <1>2, <1>3 DEF HasArgs
<1>9. InLoop(h, i)'
  BY <1>1, <1>2, <1>3, <1>4, <1>5 DEF InLoop
<1>10. QED
  BY <1>1, <1>7, <1>8, <1>9, WorkerSteps DEF WorkerOK

LEMMA ExitThreads ==
  ASSUME Typed, WorkersOK, NEW h \in Hosts, NEW i \in Threads, Exit(h, i)
  PROVE  WorkersOK'
<1>1. /\ OthersKept(h, i) /\ UNCHANGED <<host, args>>
      /\ worker[h][i].at = "running" /\ worker'[h][i].at = "exited"
  BY ExitStep
<1>2. WorkerOK(h, i)
  BY DEF WorkersOK
<1>3. WorkerOK(h, i)'
  BY <1>1, <1>2 DEF WorkerOK, Counted, Created, HasArgs, InLoop, Busy
<1>4. QED
  BY <1>1, <1>3, WorkerSteps

LEMMA WorkersNext == Typed /\ WorkersOK /\ [Next]_vars => WorkersOK'
<1> SUFFICES ASSUME Typed, WorkersOK, [Next]_vars PROVE WorkersOK'
  OBVIOUS
<1>1. ASSUME UNCHANGED <<host, worker, args>> PROVE WorkersOK'
  BY <1>1 DEF WorkersOK, WorkerOK, Counted, Created, HasArgs, InLoop, Busy, Slice, GroupsX, Groups, Threads
<1>2. ASSUME NEW h \in Hosts, HostStep(h) PROVE WorkersOK'
  <2>1. CASE CreateFails(h)
    BY <1>1, <2>1 DEF CreateFails, Dies
  <2>2. QED
    BY <1>2, <2>1, ChooseThreads, CheckThreads, SplitThreads, CreateThreads, JoinThreads DEF HostStep
<1>3. ASSUME NEW h \in Hosts, NEW i \in Threads, WorkerStep(h, i) PROVE WorkersOK'
  BY <1>3, BeginThreads, RunGroupThreads, ExitThreads DEF WorkerStep
<1>4. CASE UNCHANGED vars
  BY <1>1, <1>4 DEF vars
<1>5. QED
  BY <1>2, <1>3, <1>4, EnqueueThreads DEF Next

LEMMA InitWorkers == Init => WorkersOK
<1> SUFFICES ASSUME Init, NEW h \in Hosts, NEW i \in Threads PROVE WorkerOK(h, i)
  BY DEF WorkersOK
<1>1. worker[h][i].at = "none" /\ host[h].at = "idle" /\ i >= 0
  BY DEF Init, NoWorker, Threads
<1>2. QED
  BY <1>1 DEF WorkerOK, Counted, Created, Launched, HasArgs, InLoop, Busy

-----------------------------------------------------------------------------
(* The groups that have been run.                                              *)

\* The groups a thread has been through.
Passed(h, i, g) ==
  \/ worker[h][i].at = "exited"
  \/ worker[h][i].at = "running" /\ Before(g, worker[h][i].gid)
\* The groups of a slice were run, once each, as far as its thread has come.
RanOK(h) ==
  IF host[h].at \in Launched
  THEN /\ DOMAIN ran[h] = Grid(h)
       /\ \A g \in Grid(h), i \in Threads : i < host[h].threads /\ InSlice(h, i, g) =>
            ran[h][g] = IF Passed(h, i, g) THEN 1 ELSE 0
  ELSE ran[h] = <<>>
RanInv == DOMAIN ran = Hosts /\ \A h \in Hosts : RanOK(h)
Inv == Typed /\ WorkersOK /\ RanInv

LEMMA RanOutside ==
  ASSUME NEW k \in Hosts, RanOK(k), ran'[k] = ran[k],
         host[k].at \notin Launched, host'[k].at \notin Launched
  PROVE  RanOK(k)'
BY DEF RanOK, Launched

LEMMA RanKept ==
  ASSUME NEW k \in Hosts, RanOK(k), ran'[k] = ran[k], SameSplit(k),
         host[k].at \in Launched <=> host'[k].at \in Launched,
         \A i \in Threads, g \in Grid(k) : i < host[k].threads /\ InSlice(k, i, g) =>
           (Passed(k, i, g)' <=> Passed(k, i, g))
  PROVE  RanOK(k)'
<1>1. Groups(k)' = Groups(k) /\ \A i \in Threads : Slice(k, i)' = Slice(k, i)
  <2>1. Groups(k)' = Groups(k)
    BY DEF SameSplit, Groups
  <2>2. QED
    BY <2>1, SliceKept
<1>2. Grid(k)' = Grid(k)
  BY <1>1 DEF Grid, GroupsX
<1>3. CASE host[k].at \in Launched
  <2>1. DOMAIN ran'[k] = Grid(k)' /\ host'[k].threads = host[k].threads
    BY <1>2, <1>3 DEF RanOK, SameSplit
  <2>2. ASSUME NEW g \in Grid(k), NEW i \in Threads, i < host[k].threads, InSlice(k, i, g)'
        PROVE  ran'[k][g] = IF Passed(k, i, g)' THEN 1 ELSE 0
    <3>1. InSlice(k, i, g)
      BY <1>1, <2>2 DEF InSlice
    <3>2. QED
      BY <1>3, <2>2, <3>1 DEF RanOK
  <2>3. host'[k].at \in Launched
    BY <1>3
  <2>4. QED
    BY <1>2, <2>1, <2>2, <2>3 DEF RanOK, Threads, Launched
<1>4. CASE host[k].at \notin Launched
  BY <1>4 DEF RanOK, Launched
<1>5. QED
  BY <1>3, <1>4

\* Steps of a launch that touch neither its groups nor its threads.
LEMMA RanRests ==
  ASSUME Inv, NEW h \in Hosts, \A k \in Hosts \ {h} : host'[k] = host[k], UNCHANGED <<worker, ran>>,
         \/ host[h].at \notin Launched /\ host'[h].at \notin Launched
         \/ SameSplit(h) /\ host[h].at \in Launched /\ host'[h].at \in Launched
  PROVE  RanInv'
<1> SUFFICES ASSUME NEW k \in Hosts PROVE RanOK(k)'
  BY DEF RanInv, Inv
<1>1. RanOK(k) /\ ran'[k] = ran[k]
  BY DEF Inv, RanInv
<1>2. \A i \in Threads, g \in Grid(k) : Passed(k, i, g)' <=> Passed(k, i, g)
  BY DEF Passed
<1>3. CASE k = h /\ host[h].at \notin Launched
  BY <1>1, <1>3, RanOutside
<1>4. CASE k = h /\ host[h].at \in Launched
  BY <1>1, <1>2, <1>4, RanKept
<1>5. CASE k # h
  <2>1. SameSplit(k) /\ host'[k] = host[k]
    BY <1>5 DEF SameSplit
  <2>2. QED
    BY <1>1, <1>2, <2>1, RanKept
<1>6. QED
  BY <1>3, <1>4, <1>5

LEMMA EnqueueRan ==
  ASSUME Inv, NEW h \in Hosts, NEW global \in Globals, NEW local \in Locals \cup {NoSizeGiven},
         Enqueue(h, global, local)
  PROVE  RanInv'
<1>1. /\ host[h].at = "idle" /\ UNCHANGED <<worker, ran>>
      /\ \A k \in Hosts \ {h} : host'[k] = host[k]
      /\ host'[h].at \in {"refused", "choose", "check"}
  BY DEF Enqueue, At, Inv, Typed, HostInv, HostsTyped, HostRecord
<1>2. QED
  BY <1>1, RanRests DEF Launched

LEMMA ChooseRan == ASSUME Inv, NEW h \in Hosts, Choose(h) PROVE RanInv'
<1>1. /\ host[h].at = "choose" /\ UNCHANGED <<worker, ran>>
      /\ \A k \in Hosts \ {h} : host'[k] = host[k]
      /\ host'[h].at \in {"choose", "check"}
  BY DEF Choose, At, Inv, Typed, HostInv, HostsTyped, HostRecord
<1>2. QED
  BY <1>1, RanRests DEF Launched

LEMMA CheckRan == ASSUME Inv, NEW h \in Hosts, Check(h) PROVE RanInv'
<1>1. /\ host[h].at = "check" /\ UNCHANGED <<worker, ran>>
      /\ \A k \in Hosts \ {h} : host'[k] = host[k]
      /\ host'[h].at \in {"refused", "check", "run"}
  BY DEF Check, Goto, Dies, At, Inv, Typed, HostInv, HostsTyped, HostRecord
<1>2. QED
  BY <1>1, RanRests DEF Launched

LEMMA SplitStep ==
  ASSUME Inv, NEW h \in Hosts, Split(h)
  PROVE  /\ host[h].at = "run" /\ UNCHANGED <<worker, args>>
         /\ \A k \in Hosts \ {h} : host'[k] = host[k]
         /\ \/ UNCHANGED <<host, ran>>
            \/ /\ host'[h].at = "create"
               /\ host'[h].global = host[h].global /\ host'[h].local = host[h].local
               /\ ran' = [ran EXCEPT ![h] = [g \in Grid(h) |-> 0]]
BY DEF Split, Dies, At, Inv, Typed, HostInv, HostsTyped, HostRecord

LEMMA SplitRan == ASSUME Inv, NEW h \in Hosts, Split(h) PROVE RanInv'
<1>1. CASE UNCHANGED <<host, ran>>
  <2>1. host[h].at \notin Launched /\ worker' = worker
    BY SplitStep DEF Launched
  <2>2. QED
    BY <1>1, <2>1, RanRests
<1>2. CASE ~UNCHANGED <<host, ran>>
  <2>1. /\ host[h].at = "run" /\ worker' = worker
        /\ \A k \in Hosts \ {h} : host'[k] = host[k]
        /\ host'[h].at = "create"
        /\ Groups(h)' = Groups(h) /\ Grid(h)' = Grid(h)
        /\ ran' = [ran EXCEPT ![h] = [g \in Grid(h) |-> 0]]
    BY <1>2, SplitStep DEF Grid, GroupsX, Groups
  <2>2. DOMAIN ran = Hosts /\ \A k \in Hosts : RanOK(k)
    BY DEF Inv, RanInv
  <2>3. /\ DOMAIN ran' = Hosts /\ \A k \in Hosts \ {h} : ran'[k] = ran[k]
        /\ DOMAIN ran'[h] = Grid(h)' /\ \A g \in Grid(h)' : ran'[h][g] = 0
    BY <2>1, <2>2
  <2>4. \A i \in Threads : worker'[h][i].at = "none"
    <3> TAKE i \in Threads
    <3>1. i \in Nat /\ Created(h) = 0
      BY <2>1, HostFields DEF Inv, Typed, HostInv, Created, Launched
    <3>2. QED
      BY <2>1, <3>1 DEF Inv, WorkersOK, WorkerOK, Counted
  <2>5. RanOK(h)'
    BY <2>1, <2>3, <2>4 DEF RanOK, Launched, Passed
  <2>6. ASSUME NEW k \in Hosts \ {h} PROVE RanOK(k)'
    <3>1. SameSplit(k) /\ host'[k] = host[k] /\ RanOK(k) /\ ran'[k] = ran[k]
      BY <2>1, <2>2, <2>3, <2>6 DEF SameSplit
    <3>2. \A i \in Threads, g \in Grid(k) : Passed(k, i, g)' <=> Passed(k, i, g)
      BY <2>1 DEF Passed
    <3>3. QED
      BY <3>1, <3>2, RanKept
  <2>7. QED
    BY <2>3, <2>5, <2>6 DEF RanInv
<1>3. QED
  BY <1>1, <1>2

LEMMA CreateRan == ASSUME Inv, NEW h \in Hosts, Create(h) PROVE RanInv'
<1>1. PICK n \in Threads :
        /\ n = host[h].next /\ worker'[h][n].at = "created"
        /\ \A k \in Hosts, j \in Threads : <<k, j>> # <<h, n>> => worker'[k][j] = worker[k][j]
  BY CreateStep DEF Inv
<1>2. /\ host[h].at = "create" /\ ran' = ran
      /\ \A k \in Hosts \ {h} : host'[k] = host[k]
      /\ SameSplit(h) /\ host'[h].at \in {"create", "join"}
  BY NextOfGoes DEF Inv, Create, At
<1>3. worker[h][n].at = "none"
  <2>1. n \in Nat /\ Created(h) = n
    BY <1>1, <1>2, HostFields DEF Inv, Typed, HostInv, Created
  <2>2. QED
    BY <2>1 DEF Inv, WorkersOK, WorkerOK, Counted
<1> SUFFICES ASSUME NEW k \in Hosts PROVE RanOK(k)'
  BY <1>2 DEF RanInv, Inv
<1>4. \A j \in Threads, g \in Grid(k) : Passed(k, j, g)' <=> Passed(k, j, g)
  BY <1>1, <1>3 DEF Passed
<1>5. /\ RanOK(k) /\ ran'[k] = ran[k] /\ SameSplit(k)
      /\ host[k].at \in Launched <=> host'[k].at \in Launched
  <2>1. RanOK(k) /\ ran'[k] = ran[k]
    BY <1>2 DEF Inv, RanInv
  <2>2. CASE k = h
    BY <1>2, <2>1, <2>2 DEF Launched
  <2>3. CASE k # h
    BY <1>2, <2>1, <2>3 DEF SameSplit
  <2>4. QED
    BY <2>2, <2>3
<1>6. QED
  BY <1>4, <1>5, RanKept

LEMMA JoinRan == ASSUME Inv, NEW h \in Hosts, Join(h) PROVE RanInv'
<1>1. /\ host[h].at = "join" /\ UNCHANGED <<worker, ran>>
      /\ \A k \in Hosts \ {h} : host'[k] = host[k]
      /\ SameSplit(h) /\ host'[h].at \in {"join", "done"}
  BY NextOfGoes DEF Inv, Join, At
<1>2. QED
  BY <1>1, RanRests DEF Launched

\* A step of a thread that runs no group and passes none of its slice.
LEMMA RanStays ==
  ASSUME Inv, NEW h \in Hosts, NEW i \in Threads, UNCHANGED <<host, ran>>, OthersKept(h, i),
         \A g \in Grid(h) : InSlice(h, i, g) => (Passed(h, i, g)' <=> Passed(h, i, g))
  PROVE  RanInv'
<1> SUFFICES ASSUME NEW k \in Hosts PROVE RanOK(k)'
  BY DEF RanInv, Inv
<1>1. RanOK(k) /\ ran'[k] = ran[k] /\ SameSplit(k) /\ host'[k] = host[k]
  BY DEF Inv, RanInv, SameSplit
<1>2. ASSUME NEW j \in Threads, NEW g \in Grid(k), InSlice(k, j, g)
      PROVE  Passed(k, j, g)' <=> Passed(k, j, g)
  <2>1. CASE <<k, j>> = <<h, i>>
    BY <1>2, <2>1
  <2>2. CASE <<k, j>> # <<h, i>>
    BY <2>2 DEF OthersKept, Passed
  <2>3. QED
    BY <2>1, <2>2
<1>3. QED
  BY <1>1, <1>2, RanKept

LEMMA BeginRan == ASSUME Inv, NEW h \in Hosts, NEW i \in Threads, Begin(h, i) PROVE RanInv'
<1>1. /\ OthersKept(h, i) /\ UNCHANGED <<host, args>>
      /\ worker[h][i].at = "created" /\ worker'[h][i].at = "running"
      /\ worker'[h][i].gid = <<args[worker[h][i].args].group[1], 0, 0>>
  BY BeginStep DEF Inv
<1>2. ran' = ran
  BY DEF Begin
<1>3. host[h].at \in Launched /\ i < host[h].threads /\ WorkerOK(h, i)
  BY <1>1, SliceThere DEF Inv, WorkersOK
<1>4. ASSUME NEW g \in Grid(h), InSlice(h, i, g)
      PROVE  Passed(h, i, g)' <=> Passed(h, i, g)
  <2>1. PICK f \in Nat : f = Slice(h, i).first /\ f = args[worker[h][i].args].group[1]
    BY <1>1, <1>3, SliceBounds DEF Inv, Typed, WorkerOK, HasArgs
  <2>2. g \in Size
    BY <1>3, SlicesCover DEF Inv, Typed
  <2>3. g[1] \in Nat /\ g[2] \in Nat /\ g[3] \in Nat
    BY <2>2 DEF Size
  <2>4. f <= g[1]
    BY <1>3, <1>4, <2>1, <2>3, SliceBounds DEF InSlice, Inv, Typed
  <2>5. ~Before(g, <<f, 0, 0>>)
    BY <2>3, <2>4 DEF Before
  <2>6. worker'[h][i].gid = <<f, 0, 0>>
    BY <1>1, <2>1
  <2>7. QED
    BY <1>1, <2>5, <2>6 DEF Passed
<1>5. QED
  BY <1>1, <1>2, <1>4, RanStays

LEMMA ExitRan == ASSUME Inv, NEW h \in Hosts, NEW i \in Threads, Exit(h, i) PROVE RanInv'
<1>1. /\ OthersKept(h, i) /\ UNCHANGED <<host, args>>
      /\ worker[h][i].at = "running" /\ worker'[h][i].at = "exited"
      /\ worker[h][i].gid[3] >= args[worker[h][i].args].groups[3]
  BY ExitStep DEF Inv
<1>2. ran' = ran
  BY DEF Exit
<1>3. /\ host[h].at \in Launched /\ i < host[h].threads
      /\ args[worker[h][i].args].groups = Groups(h) /\ Groups(h) \in Size
      /\ worker[h][i].gid \in Size
  BY <1>1, RunningIn DEF Inv
<1>4. ASSUME NEW g \in Grid(h)
      PROVE  Passed(h, i, g)' <=> Passed(h, i, g)
  <2>1. g \in Size /\ g[3] < Groups(h)[3]
    BY <1>3, SlicesCover DEF Inv, Typed
  <2>2. g[3] \in Nat /\ Groups(h)[3] \in Nat /\ worker[h][i].gid[3] \in Nat
    BY <1>3, <2>1 DEF Size
  <2>3. Before(g, worker[h][i].gid)
    BY <1>1, <1>3, <2>1, <2>2 DEF Before
  <2>4. QED
    BY <1>1, <2>3 DEF Passed
<1>5. QED
  BY <1>1, <1>2, <1>4, RanStays

\* Running a group counts it; it was in no other slice, and not passed.
LEMMA RunGroupCounts ==
  ASSUME Inv, NEW h \in Hosts, NEW i \in Threads, RunGroup(h, i)
  PROVE  /\ worker[h][i].gid \in Grid(h) /\ InSlice(h, i, worker[h][i].gid)
         /\ ran[h][worker[h][i].gid] = 0 /\ host[h].at \in Launched /\ i < host[h].threads
         /\ DOMAIN ran[h] = Grid(h)
         /\ \A g \in Grid(h) : ran[h][g] \in {0, 1}
         /\ DOMAIN ran' = Hosts /\ \A k \in Hosts \ {h} : ran'[k] = ran[k]
         /\ DOMAIN ran'[h] = Grid(h)
         /\ \A g \in Grid(h) : ran'[h][g] = IF g = worker[h][i].gid THEN 1 ELSE ran[h][g]
<1>1. /\ worker[h][i].at = "running"
      /\ worker[h][i].gid[3] < args[worker[h][i].args].groups[3]
  BY RunGroupStep DEF Inv
<1>2. /\ host[h].at \in Launched /\ i < host[h].threads
      /\ args[worker[h][i].args].groups = Groups(h) /\ Groups(h) \in Size
      /\ Slice(h, i).first \in Nat /\ Slice(h, i).last \in Nat /\ Slice(h, i).last < GroupsX(h)
      /\ worker[h][i].gid \in Size /\ worker[h][i].gid[2] < Groups(h)[2]
      /\ Slice(h, i).first <= worker[h][i].gid[1] /\ worker[h][i].gid[1] <= Slice(h, i).last
  BY <1>1, RunningIn DEF Inv
<1>3. PICK gid \in Size : gid = worker[h][i].gid
  BY <1>2
<1>4. gid \in Grid(h) /\ InSlice(h, i, gid)
  <2>1. PICK x \in Nat, y \in Nat, z \in Nat : gid = <<x, y, z>>
    BY DEF Size
  <2>2. PICK a \in Nat, b \in Nat, c \in Nat : a = GroupsX(h) /\ b = Groups(h)[2] /\ c = Groups(h)[3]
    BY <1>2, GroupsXTyped DEF Inv, Typed, Size
  <2>3. x < a /\ y < b /\ z < c /\ Slice(h, i).first <= x /\ x <= Slice(h, i).last
    BY <1>1, <1>2, <1>3, <2>1, <2>2
  <2>4. Grid(h) = (0..(a - 1)) \X (0..(b - 1)) \X (0..(c - 1))
    BY <1>2, <2>2, GridIs DEF Inv, Typed
  <2>5. gid \in Grid(h)
    BY <2>1, <2>3, <2>4
  <2>6. gid[1] = x
    BY <2>1
  <2>7. InSlice(h, i, gid)
    BY <1>2, <2>3, <2>6 DEF InSlice
  <2>8. QED
    BY <2>5, <2>7
<1>5. DOMAIN ran = Hosts /\ DOMAIN ran[h] = Grid(h)
  BY <1>2 DEF Inv, RanInv, RanOK
<1>6. \A g \in Grid(h) : ran[h][g] \in {0, 1}
  <2> TAKE g \in Grid(h)
  <2>1. PICK j \in Threads : j < host[h].threads /\ InSlice(h, j, g)
    BY <1>2, SlicesCover DEF Inv, Typed
  <2>2. QED
    BY <1>2, <2>1 DEF Inv, RanInv, RanOK
<1>7. ran[h][gid] = 0
  <2>1. ~Before(gid, gid)
    BY DEF Before, Size
  <2>2. ~Passed(h, i, gid)
    BY <1>1, <1>3, <2>1 DEF Passed
  <2>3. QED
    BY <1>2, <1>4, <2>2 DEF Inv, RanInv, RanOK
<1>8. PICK f : /\ f = [g \in DOMAIN ran[h] \cup {gid} |->
                        (IF g \in DOMAIN ran[h] THEN ran[h][g] ELSE 0) + IF g = gid THEN 1 ELSE 0]
               /\ ran' = [ran EXCEPT ![h] = f]
  BY <1>3 DEF RunGroup
<1>9. DOMAIN f = Grid(h) /\ \A g \in Grid(h) : f[g] = IF g = gid THEN 1 ELSE ran[h][g]
  <2>1. DOMAIN ran[h] \cup {gid} = Grid(h)
    BY <1>4, <1>5
  <2>2. \A g \in Grid(h) : f[g] = ran[h][g] + IF g = gid THEN 1 ELSE 0
    BY <1>5, <1>8, <2>1
  <2>3. QED
    BY <1>6, <1>7, <1>8, <2>1, <2>2
<1>10. /\ DOMAIN ran' = Hosts /\ \A k \in Hosts \ {h} : ran'[k] = ran[k]
       /\ ran'[h] = f
  BY <1>5, <1>8
<1>11. QED
  BY <1>2, <1>3, <1>4, <1>5, <1>6, <1>7, <1>9, <1>10

LEMMA RunGroupRan == ASSUME Inv, NEW h \in Hosts, NEW i \in Threads, RunGroup(h, i) PROVE RanInv'
<1>1. /\ OthersKept(h, i) /\ host' = host
      /\ worker[h][i].at = "running" /\ worker'[h][i].at = "running"
      /\ worker[h][i].gid[3] < args[worker[h][i].args].groups[3]
      /\ worker'[h][i].gid = NextGroup(worker[h][i].gid, worker[h][i].first,
                                       args[worker[h][i].args].last, args[worker[h][i].args].groups)
  BY RunGroupStep DEF Inv
<1>2. PICK gid \in Size, f \in Nat, l \in Nat, n \in Size :
        /\ gid = worker[h][i].gid /\ f = Slice(h, i).first /\ l = Slice(h, i).last /\ n = Groups(h)
        /\ worker[h][i].first = f /\ args[worker[h][i].args].last = l
        /\ args[worker[h][i].args].groups = n
        /\ f <= gid[1] /\ gid[1] <= l /\ gid[2] < n[2] /\ gid[3] < n[3]
  BY <1>1, RunningIn DEF Inv
<1>3. /\ gid \in Grid(h) /\ InSlice(h, i, gid)
      /\ ran[h][gid] = 0 /\ host[h].at \in Launched /\ i < host[h].threads
      /\ DOMAIN ran[h] = Grid(h)
      /\ DOMAIN ran' = Hosts /\ \A k \in Hosts \ {h} : ran'[k] = ran[k]
      /\ DOMAIN ran'[h] = Grid(h)
      /\ \A g \in Grid(h) : ran'[h][g] = IF g = gid THEN 1 ELSE ran[h][g]
  BY <1>2, RunGroupCounts
<1>4. ASSUME NEW k \in Hosts \ {h} PROVE RanOK(k)'
  <2>1. RanOK(k) /\ ran'[k] = ran[k] /\ SameSplit(k) /\ host'[k] = host[k]
    BY <1>1, <1>3 DEF Inv, RanInv, SameSplit
  <2>2. \A j \in Threads, g \in Grid(k) : Passed(k, j, g)' <=> Passed(k, j, g)
    <3>1. \A j \in Threads : worker'[k][j] = worker[k][j]
      BY <1>1, <1>4 DEF OthersKept
    <3>2. QED
      BY <3>1 DEF Passed
  <2>3. QED
    BY <2>1, <2>2, RanKept
<1>5. Groups(h)' = Groups(h) /\ Grid(h)' = Grid(h) /\ \A j \in Threads : Slice(h, j)' = Slice(h, j)
  <2>1. SameSplit(h)
    BY <1>1 DEF SameSplit
  <2>2. Groups(h)' = Groups(h) /\ \A j \in Threads : Slice(h, j)' = Slice(h, j)
    BY <2>1, SliceKept
  <2>3. QED
    BY <2>2 DEF Grid, GroupsX
<1>6. ASSUME NEW g \in Grid(h), NEW j \in Threads, j < host[h].threads, InSlice(h, j, g)
      PROVE  ran'[h][g] = IF Passed(h, j, g)' THEN 1 ELSE 0
  <2>1. ran[h][g] = IF Passed(h, j, g) THEN 1 ELSE 0
    BY <1>3, <1>6 DEF Inv, RanInv, RanOK
  <2>2. g \in Size /\ g[2] < n[2]
    BY <1>2, <1>3, SlicesCover DEF Inv, Typed
  <2>3. CASE j = i
    <3>1. f <= g[1] /\ g[1] <= l
      BY <1>2, <1>6, <2>2, <2>3 DEF InSlice, Size
    <3>2. Before(g, NextGroup(gid, f, l, n)) <=> Before(g, gid) \/ g = gid
      <4>1. PICK m : m = NextGroup(gid, f, l, n)
        OBVIOUS
      <4>2. f <= gid[1] /\ gid[1] <= l /\ gid[2] < n[2] /\ gid[3] < n[3]
        BY <1>2
      <4>3. Before(g, m) <=> Before(g, gid) \/ g = gid
        BY <2>2, <3>1, <4>1, <4>2, NextGroupAdvances
      <4>4. QED
        BY <4>1, <4>3
    <3>3. Passed(h, i, g) <=> Before(g, gid)
      BY <1>1, <1>2 DEF Passed
    <3>4. Passed(h, i, g)' <=> Before(g, NextGroup(gid, f, l, n))
      BY <1>1, <1>2 DEF Passed
    <3>5. QED
      BY <1>3, <2>1, <2>3, <3>2, <3>3, <3>4
  <2>4. CASE j # i
    <3>1. worker'[h][j] = worker[h][j]
      BY <1>1, <2>4 DEF OthersKept
    <3>2. Passed(h, j, g)' <=> Passed(h, j, g)
      BY <3>1 DEF Passed
    <3>3. g # gid
      BY <1>3, <1>6, <2>4, SlicesDisjoint DEF Inv, Typed
    <3>4. QED
      BY <1>3, <2>1, <3>2, <3>3
  <2>5. QED
    BY <2>3, <2>4
<1>7. RanOK(h)'
  <2>1. \A g \in Grid(h), j \in Threads : InSlice(h, j, g)' <=> InSlice(h, j, g)
    BY <1>5 DEF InSlice
  <2>2. QED
    BY <1>1, <1>3, <1>5, <1>6, <2>1 DEF RanOK, Threads
<1>8. QED
  BY <1>3, <1>4, <1>7 DEF RanInv

LEMMA InvNext == Inv /\ [Next]_vars => Inv'
<1> SUFFICES ASSUME Inv, [Next]_vars PROVE RanInv'
  BY TypedNext, WorkersNext DEF Inv
<1>1. ASSUME UNCHANGED <<host, worker, ran>> PROVE RanInv'
  BY <1>1 DEF Inv, RanInv, RanOK, Passed, InSlice, Slice, Grid, GroupsX, Groups, Threads
<1>2. ASSUME NEW h \in Hosts, HostStep(h) PROVE RanInv'
  <2>1. CASE CreateFails(h)
    BY <1>1, <2>1 DEF CreateFails, Dies
  <2>2. QED
    BY <1>2, <2>1, ChooseRan, CheckRan, SplitRan, CreateRan, JoinRan DEF HostStep
<1>3. ASSUME NEW h \in Hosts, NEW i \in Threads, WorkerStep(h, i) PROVE RanInv'
  BY <1>3, BeginRan, RunGroupRan, ExitRan DEF WorkerStep
<1>4. CASE UNCHANGED vars
  BY <1>1, <1>4 DEF vars
<1>5. QED
  BY <1>2, <1>3, <1>4, EnqueueRan DEF Next

LEMMA InitInv == Init => Inv
<1> SUFFICES ASSUME Init PROVE RanInv
  BY InitTyped, InitWorkers DEF Inv
<1>1. QED
  BY DEF Init, RanInv, RanOK, Launched

\* When the threads of a launch have exited each of its groups was run once.
LEMMA AllExited ==
  ASSUME Inv, NEW h \in Hosts, host[h].at \in Launched,
         \A i \in Threads : i < host[h].threads => worker[h][i].at = "exited"
  PROVE  DOMAIN ran[h] = Grid(h) /\ \A g \in Grid(h) : ran[h][g] = 1
<1>1. ASSUME NEW g \in Grid(h) PROVE ran[h][g] = 1
  <2>1. PICK i \in Threads : i < host[h].threads /\ InSlice(h, i, g)
    BY SlicesCover DEF Inv, Typed
  <2>2. Passed(h, i, g)
    BY <2>1 DEF Passed
  <2>3. QED
    BY <2>1, <2>2 DEF Inv, RanInv, RanOK
<1>2. QED
  BY <1>1 DEF Inv, RanInv, RanOK

LEMMA AllRun ==
  ASSUME Inv, NEW h \in Hosts, host[h].at = "done"
  PROVE  DOMAIN ran[h] = Grid(h) /\ \A g \in Grid(h) : ran[h][g] = 1
<1>1. host[h].at \in Launched /\ Created(h) = host[h].threads
  BY DEF Launched, Created
<1>2. ASSUME NEW i \in Threads, i < host[h].threads PROVE worker[h][i].at = "exited"
  BY <1>1, <1>2 DEF Inv, WorkersOK, WorkerOK, Counted
<1>3. QED
  BY <1>1, <1>2, AllExited

\* Item x is in block g, one of q blocks of l items, and in no other.
InBlock(x, l, q, g) ==
  /\ g < q /\ \E r \in 0..(l - 1) : x = g * l + r
  /\ \A e \in Nat, r \in 0..(l - 1) : x = e * l + r => e = g

LEMMA OneBlock ==
  ASSUME NEW x \in Nat, NEW l \in Nat, l >= 1, NEW q \in Nat, x < q * l
  PROVE  \E g \in Nat : InBlock(x, l, q, g)
<1>1. PICK g \in Nat : g * l <= x /\ x <= g * l + l - 1
  BY Remainder
<1>2. PICK p \in Nat : p = g * l
  OBVIOUS
<1>3. g < q
  <2>1. SUFFICES ASSUME q <= g PROVE FALSE
    OBVIOUS
  <2>2. q * l <= g * l
    <3>1. CASE q = g
      BY <3>1
    <3>2. CASE q # g
      <4>1. q + 1 <= g
        BY <2>1, <3>2
      <4>2. q * l + l <= g * l /\ q * l \in Nat
        BY <4>1, Products
      <4>3. QED
        BY <4>2
    <3>3. QED
      BY <3>1, <3>2
  <2>3. QED
    BY <1>1, <1>2, <2>2
<1>4. x - p \in 0..(l - 1) /\ x = g * l + (x - p)
  BY <1>1, <1>2
<1>5. ASSUME NEW e \in Nat, NEW r \in 0..(l - 1), x = e * l + r PROVE e = g
  <2>1. PICK s \in Nat : s = e * l
    OBVIOUS
  <2>2. x = s + r
    BY <1>5, <2>1
  <2>3. ~(e + 1 <= g)
    <3>1. e + 1 <= g => s + l <= p
      BY <1>2, <2>1, Products
    <3>2. QED
      BY <1>1, <1>2, <2>2, <3>1
  <2>4. ~(g + 1 <= e)
    <3>1. g + 1 <= e => p + l <= s
      BY <1>2, <2>1, Products
    <3>2. QED
      BY <1>1, <1>2, <2>2, <3>1
  <2>5. QED
    BY <2>3, <2>4
<1>6. QED
  BY <1>3, <1>4, <1>5 DEF InBlock

LEMMA InItems ==
  ASSUME NEW g \in Size, NEW l \in Size, NEW item \in Size
  PROVE  item \in Items(g, l) <=>
           /\ \E r \in 0..(l[1] - 1) : item[1] = g[1] * l[1] + r
           /\ \E r \in 0..(l[2] - 1) : item[2] = g[2] * l[2] + r
           /\ \E r \in 0..(l[3] - 1) : item[3] = g[3] * l[3] + r
<1>1. PICK x \in Nat, y \in Nat, z \in Nat : item = <<x, y, z>>
  BY DEF Size
<1>2. PICK p \in Int, q \in Int, s \in Int : p = g[1] * l[1] /\ q = g[2] * l[2] /\ s = g[3] * l[3]
  <2>1. g[1] \in Nat /\ g[2] \in Nat /\ g[3] \in Nat /\ l[1] \in Nat /\ l[2] \in Nat /\ l[3] \in Nat
    BY DEF Size
  <2>2. g[1] * l[1] \in Int /\ g[2] * l[2] \in Int /\ g[3] * l[3] \in Int
    BY <2>1
  <2>3. QED
    BY <2>2
<1>3. Items(g, l) = {<<p + a, q + b, s + c>> : a \in 0..(l[1] - 1), b \in 0..(l[2] - 1), c \in 0..(l[3] - 1)}
  BY <1>2 DEF Items
<1>4. item \in Items(g, l) <=>
        \E a \in 0..(l[1] - 1), b \in 0..(l[2] - 1), c \in 0..(l[3] - 1) :
          <<x, y, z>> = <<p + a, q + b, s + c>>
  BY <1>1, <1>3
<1>5. QED
  BY <1>1, <1>2, <1>4

\* When a launch returns every work-item of the range has been run, and once,
\* unless the conversion to int has cut the number of groups in x.
THEOREM EachItemIsRunOnce == Spec => []EveryItemOnce
<1>1. Inv => EveryItemOnce
  <2> SUFFICES ASSUME Inv, NEW h \in Hosts, host[h].at = "done", ~Cut(h), NEW item \in GridOf(host[h].global)
               PROVE  \E g \in DOMAIN ran[h] :
                        /\ item \in Items(g, host[h].local) /\ ran[h][g] = 1
                        /\ \A e \in DOMAIN ran[h] : item \in Items(e, host[h].local) => e = g
    BY DEF EveryItemOnce, At
  <2>1. DOMAIN ran[h] = Grid(h) /\ \A g \in Grid(h) : ran[h][g] = 1
    BY AllRun
  <2>2. host[h].at \in Launched /\ HostInv
    BY DEF Launched, Inv, Typed
  <2>3. PICK n \in Size, l \in Size, s \in Size :
          /\ n = host[h].global /\ l = host[h].local /\ s = Groups(h)
          /\ \A d \in Dims : /\ n[d] \in Nat /\ l[d] \in Nat /\ l[d] >= 1 /\ s[d] \in Nat
                             /\ n[d] = s[d] * l[d]
    BY <2>2, HostFields, GroupsTyped DEF HostInv, HostOK, SizesOK, Divided
  <2>4. /\ item \in Size
        /\ \A d \in Dims : item[d] \in Nat /\ item[d] < n[d]
    BY <2>3 DEF GridOf, Size, Dims
  <2>5. \A d \in Dims : \E g \in Nat : InBlock(item[d], l[d], s[d], g)
    <3> TAKE d \in Dims
    <3>1. PICK a \in Nat, b \in Nat, c \in Nat : a = item[d] /\ b = l[d] /\ c = s[d]
      BY <2>3, <2>4
    <3>2. b >= 1 /\ a < c * b
      BY <2>3, <2>4, <3>1
    <3>3. \E g \in Nat : InBlock(a, b, c, g)
      BY <3>2, OneBlock
    <3>4. QED
      BY <3>1, <3>3
  <2>6. PICK a \in Nat, b \in Nat, c \in Nat :
          /\ InBlock(item[1], l[1], s[1], a)
          /\ InBlock(item[2], l[2], s[2], b)
          /\ InBlock(item[3], l[3], s[3], c)
    <3>1. 1 \in Dims /\ 2 \in Dims /\ 3 \in Dims
      BY DEF Dims
    <3>2. QED
      BY <2>5, <3>1
  <2>7. PICK g \in Size : g = <<a, b, c>>
    BY DEF Size
  <2>8. g \in Grid(h)
    <3>1. s[1] \in Nat /\ s[2] \in Nat /\ s[3] \in Nat
      BY DEF Size
    <3>2. QED
      BY <2>2, <2>3, <2>6, <2>7, <3>1, GridIs DEF Cut, InBlock
  <2>9. item \in Items(g, l)
    BY <2>4, <2>6, <2>7, InItems DEF InBlock
  <2>10. ASSUME NEW e \in Grid(h), item \in Items(e, l) PROVE e = g
    <3>1. e \in Size
      BY <2>2, SlicesCover
    <3>2. /\ \E r \in 0..(l[1] - 1) : item[1] = e[1] * l[1] + r
          /\ \E r \in 0..(l[2] - 1) : item[2] = e[2] * l[2] + r
          /\ \E r \in 0..(l[3] - 1) : item[3] = e[3] * l[3] + r
      BY <2>4, <2>10, <3>1, InItems
    <3>3. e[1] \in Nat /\ e[2] \in Nat /\ e[3] \in Nat
      BY <3>1 DEF Size
    <3>4. e[1] = a /\ e[2] = b /\ e[3] = c
      BY <2>6, <3>2, <3>3 DEF InBlock
    <3>5. QED
      BY <2>7, <3>1, <3>4 DEF Size
  <2>11. QED
    BY <2>1, <2>3, <2>8, <2>9, <2>10
<1>2. QED
  BY <1>1, InitInv, InvNext, PTL DEF Spec

-----------------------------------------------------------------------------
(* The launches implement the promise of a device, WorkGroups.                 *)

\* The numbers of groups of a launch are divisors of its range.
LEMMA ShapeKnown ==
  ASSUME HostInv, NEW h \in Hosts, host[h].at = "run"
  PROVE  Groups(h) \in UNION {Divisors(g[1]) \X Divisors(g[2]) \X Divisors(g[3]) : g \in Globals}
<1>1. PICK n \in Globals : n = host[h].global
  BY DEF HostInv, HostOK, SizesOK
<1>2. /\ Groups(h) \in Size
      /\ \A d \in Dims : /\ Groups(h)[d] \in Nat /\ Groups(h)[d] >= 1
                         /\ Groups(h)[d] <= n[d] /\ n[d] % Groups(h)[d] = 0 /\ n[d] \in Nat
  BY <1>1, GroupsTyped, HostFields DEF HostInv
<1>3. \A d \in Dims : Groups(h)[d] \in Divisors(n[d])
  BY <1>2 DEF Divisors
<1>4. Groups(h) \in Divisors(n[1]) \X Divisors(n[2]) \X Divisors(n[3])
  <2>1. Groups(h) = <<Groups(h)[1], Groups(h)[2], Groups(h)[3]>>
    BY <1>2 DEF Size
  <2>2. QED
    BY <1>3, <2>1 DEF Dims
<1>5. QED
  BY <1>4

\* What stands for "running" and "ran" of the promise.
Inside(h) == host[h].at \in {"create", "join"} /\ ~Cut(h)
Running == [h \in Hosts |-> Inside(h)]
KeptOf(h) == IF Cut(h) THEN <<>> ELSE ran[h]
Kept == [h \in Hosts |-> KeptOf(h)]

\* A host that goes on with its sizes is cut, or not, as before.
LEMMA CutStays ==
  ASSUME NEW h \in Hosts, host'[h].global = host[h].global, host'[h].local = host[h].local,
         host'[h].at \in Launched <=> host[h].at \in Launched
  PROVE  Cut(h)' <=> Cut(h)
BY DEF Cut, Launched, GroupsX, Groups

LEMMA OtherStays ==
  ASSUME NEW h \in Hosts, host'[h] = host[h], ran'[h] = ran[h]
  PROVE  (Inside(h)' <=> Inside(h)) /\ KeptOf(h)' = KeptOf(h) /\ (Cut(h)' <=> Cut(h))
<1>1. Cut(h)' <=> Cut(h)
  BY CutStays
<1>2. QED
  BY <1>1 DEF Inside, KeptOf

\* A step that neither enters nor leaves a launch, nor runs a group.
LEMMA PromiseStutters ==
  ASSUME \A h \in Hosts : (Inside(h)' <=> Inside(h)) /\ KeptOf(h)' = KeptOf(h)
  PROVE  UNCHANGED <<Running, Kept>>
<1>1. \A h \in Hosts : Inside(h)' = Inside(h)
  BY DEF Inside
<1>2. Running' = Running
  BY <1>1 DEF Running
<1>3. Kept' = Kept
  BY DEF Kept
<1>4. QED
  BY <1>2, <1>3

LEMMA RunningGoes ==
  ASSUME NEW h \in Hosts, NEW v \in BOOLEAN, Inside(h)' <=> v,
         \A k \in Hosts \ {h} : Inside(k)' <=> Inside(k)
  PROVE  Running' = [Running EXCEPT ![h] = v]
<1>1. \A k \in Hosts : Inside(k)' = IF k = h THEN v ELSE Inside(k)
  <2> TAKE k \in Hosts
  <2>1. CASE k = h
    BY <2>1 DEF Inside
  <2>2. CASE k # h
    BY <2>2 DEF Inside
  <2>3. QED
    BY <2>1, <2>2
<1>2. Running' = [k \in Hosts |-> IF k = h THEN v ELSE Inside(k)]
  BY <1>1 DEF Running
<1>3. [Running EXCEPT ![h] = v] = [k \in Hosts |-> IF k = h THEN v ELSE Inside(k)]
  BY DEF Running
<1>4. QED
  BY <1>2, <1>3

LEMMA KeptGoes ==
  ASSUME NEW h \in Hosts, NEW v, KeptOf(h)' = v, \A k \in Hosts \ {h} : KeptOf(k)' = KeptOf(k)
  PROVE  Kept' = [Kept EXCEPT ![h] = v]
<1>1. Kept' = [k \in Hosts |-> IF k = h THEN v ELSE KeptOf(k)]
  BY DEF Kept
<1>2. [Kept EXCEPT ![h] = v] = [k \in Hosts |-> IF k = h THEN v ELSE KeptOf(k)]
  BY DEF Kept
<1>3. QED
  BY <1>1, <1>2

LEMMA SplitBegins ==
  ASSUME Inv, NEW h \in Hosts, Split(h)
  PROVE  Promise!Begin(h) \/ UNCHANGED <<Running, Kept>>
<1>1. CASE UNCHANGED <<host, ran>>
  BY <1>1, OtherStays, PromiseStutters
<1>2. CASE ~UNCHANGED <<host, ran>>
  <2>1. /\ host[h].at = "run"
        /\ \A k \in Hosts \ {h} : host'[k] = host[k]
        /\ host'[h].at = "create"
        /\ host'[h].global = host[h].global /\ host'[h].local = host[h].local
        /\ ran' = [ran EXCEPT ![h] = [g \in Grid(h) |-> 0]] /\ DOMAIN ran = Hosts
    BY <1>2, SplitStep DEF Inv, RanInv
  <2>2. /\ ~Inside(h) /\ ~Cut(h) /\ (Cut(h)' <=> GroupsX(h) # Groups(h)[1])
        /\ (Inside(h)' <=> ~Cut(h)')
    BY <2>1 DEF Inside, Cut, GroupsX, Groups
  <2>3. \A k \in Hosts \ {h} : (Inside(k)' <=> Inside(k)) /\ KeptOf(k)' = KeptOf(k)
    BY <2>1, OtherStays
  <2>4. ran[h] = <<>> /\ KeptOf(h) = <<>>
    BY <2>1, <2>2 DEF Inv, RanInv, RanOK, Launched, KeptOf
  <2>5. CASE Cut(h)'
    BY <2>2, <2>3, <2>4, <2>5, PromiseStutters DEF KeptOf
  <2>6. CASE ~Cut(h)'
    <3>1. PICK n \in UNION {Divisors(g[1]) \X Divisors(g[2]) \X Divisors(g[3]) : g \in Globals} :
            n = Groups(h)
      BY <2>1, ShapeKnown DEF Inv, Typed
    <3>2. Grid(h) = Promise!GridOf(n)
      BY <2>1, <2>2, <2>6, <3>1, GridIs DEF Inv, Typed, Promise!GridOf
    <3>3. KeptOf(h)' = [g \in Promise!GridOf(n) |-> 0]
      BY <2>1, <2>6, <3>2 DEF KeptOf
    <3>4. Kept' = [Kept EXCEPT ![h] = [g \in Promise!GridOf(n) |-> 0]]
      BY <2>3, <3>3, KeptGoes
    <3>5. Running' = [Running EXCEPT ![h] = TRUE]
      BY <2>2, <2>3, <2>6, RunningGoes
    <3>6. ~Running[h] /\ Kept[h] = <<>>
      BY <2>2, <2>4 DEF Running, Kept
    <3>7. QED
      BY <3>4, <3>5, <3>6 DEF Promise!Begin, Running, Inside, Kept, KeptOf
  <2>7. QED
    BY <2>5, <2>6
<1>3. QED
  BY <1>1, <1>2

LEMMA RunGroupExecutes ==
  ASSUME Inv, NEW h \in Hosts, NEW i \in Threads, RunGroup(h, i)
  PROVE  (\E g \in DOMAIN Kept[h] : Promise!Execute(h, g)) \/ UNCHANGED <<Running, Kept>>
<1>1. PICK gid : gid = worker[h][i].gid
  OBVIOUS
<1>2. /\ gid \in Grid(h) /\ ran[h][gid] = 0 /\ host[h].at \in Launched /\ i < host[h].threads
      /\ DOMAIN ran[h] = Grid(h)
      /\ \A g \in Grid(h) : ran[h][g] \in {0, 1}
      /\ DOMAIN ran = Hosts
  BY <1>1, RunGroupCounts DEF Inv, RanInv
<1>3. worker[h][i].at = "running" /\ host' = host
  BY RunGroupStep DEF Inv
<1>4. host[h].at \in {"create", "join"}
  <2>1. host[h].at # "done"
    <3> SUFFICES ASSUME host[h].at = "done" PROVE FALSE
      OBVIOUS
    <3>1. Created(h) = host[h].threads
      BY DEF Created, Launched
    <3>2. worker[h][i].at = "exited"
      BY <1>2, <3>1 DEF Inv, WorkersOK, WorkerOK, Counted
    <3>3. QED
      BY <1>3, <3>2
  <2>2. QED
    BY <1>2, <2>1 DEF Launched
<1>5. ran' = [ran EXCEPT ![h] = [g \in DOMAIN ran[h] \cup {gid} |->
                (IF g \in DOMAIN ran[h] THEN ran[h][g] ELSE 0) + IF g = gid THEN 1 ELSE 0]]
  BY <1>1 DEF RunGroup
<1>6. [g \in DOMAIN ran[h] \cup {gid} |->
         (IF g \in DOMAIN ran[h] THEN ran[h][g] ELSE 0) + IF g = gid THEN 1 ELSE 0]
        = [ran[h] EXCEPT ![gid] = 1]
  <2>1. DOMAIN ran[h] \cup {gid} = DOMAIN ran[h]
    BY <1>2
  <2>2. \A g \in DOMAIN ran[h] : ran[h][g] + (IF g = gid THEN 1 ELSE 0) = IF g = gid THEN 1 ELSE ran[h][g]
    BY <1>2
  <2>3. QED
    BY <2>1, <2>2
<1>7. ran' = [ran EXCEPT ![h] = [ran[h] EXCEPT ![gid] = 1]]
  BY <1>5, <1>6
<1>8. \A k \in Hosts : (Inside(k)' <=> Inside(k)) /\ (Cut(k)' <=> Cut(k))
  BY <1>3, CutStays DEF Inside
<1>9. \A k \in Hosts \ {h} : KeptOf(k)' = KeptOf(k)
  BY <1>3, <1>7, OtherStays
<1>10. CASE Cut(h)
  BY <1>8, <1>9, <1>10, PromiseStutters DEF KeptOf
<1>11. CASE ~Cut(h)
  <2>1. KeptOf(h) = ran[h] /\ KeptOf(h)' = [ran[h] EXCEPT ![gid] = 1]
    BY <1>2, <1>7, <1>8, <1>11 DEF KeptOf
  <2>2. Kept[h] = ran[h] /\ Kept' = [Kept EXCEPT ![h] = [ran[h] EXCEPT ![gid] = 1]]
    <3>1. Kept' = [Kept EXCEPT ![h] = [ran[h] EXCEPT ![gid] = 1]]
      BY <1>9, <2>1, KeptGoes
    <3>2. QED
      BY <2>1, <3>1 DEF Kept
  <2>3. Kept' = [Kept EXCEPT ![h][gid] = 1] /\ Kept[h][gid] = 0 /\ gid \in DOMAIN Kept[h]
    BY <1>2, <2>2
  <2>4. Running' = Running /\ Running[h]
    <3>1. Running' = Running
      BY <1>8 DEF Running, Inside
    <3>2. QED
      BY <1>4, <1>11, <3>1 DEF Running, Inside
  <2>5. QED
    BY <2>3, <2>4 DEF Promise!Execute, Running, Inside, Kept, KeptOf
<1>12. QED
  BY <1>10, <1>11

LEMMA JoinReturns ==
  ASSUME Inv, NEW h \in Hosts, Join(h)
  PROVE  Promise!Return(h) \/ UNCHANGED <<Running, Kept>>
<1>1. /\ host[h].at = "join" /\ worker[h][host[h].next].at = "exited"
      /\ \A k \in Hosts \ {h} : host'[k] = host[k]
      /\ host'[h].global = host[h].global /\ host'[h].local = host[h].local
      /\ UNCHANGED ran
      /\ IF host[h].next + 1 = host[h].threads THEN host'[h].at = "done"
         ELSE host'[h].at = "join"
  BY NextOfGoes DEF Inv, Join, At, SameSplit
<1>2. \A k \in Hosts \ {h} : (Inside(k)' <=> Inside(k)) /\ KeptOf(k)' = KeptOf(k)
  BY <1>1, OtherStays
<1>3. (Cut(h)' <=> Cut(h)) /\ KeptOf(h)' = KeptOf(h)
  <2>1. Cut(h)' <=> Cut(h)
    BY <1>1, CutStays DEF Launched
  <2>2. QED
    BY <1>1, <2>1 DEF KeptOf
<1>4. CASE host[h].next + 1 # host[h].threads \/ Cut(h)
  <2>1. Inside(h)' <=> Inside(h)
    BY <1>1, <1>3, <1>4 DEF Inside
  <2>2. QED
    BY <1>2, <1>3, <2>1, PromiseStutters
<1>5. CASE host[h].next + 1 = host[h].threads /\ ~Cut(h)
  <2>1. ASSUME NEW i \in Threads, i < host[h].threads PROVE worker[h][i].at = "exited"
    <3>1. i \in Nat /\ host[h].next \in Nat
      BY HostFields DEF Inv, Typed, HostInv
    <3>2. i < host[h].next \/ i = host[h].next
      BY <1>5, <2>1, <3>1
    <3>3. QED
      BY <1>1, <3>2 DEF Inv, WorkersOK, WorkerOK, Counted
  <2>2. \A g \in DOMAIN ran[h] : ran[h][g] = 1
    BY <1>1, <2>1, AllExited DEF Launched
  <2>3. Inside(h) /\ ~Inside(h)'
    BY <1>1, <1>5 DEF Inside
  <2>4. Running' = [Running EXCEPT ![h] = FALSE] /\ Running[h]
    <3>1. Running' = [Running EXCEPT ![h] = FALSE]
      BY <1>2, <2>3, RunningGoes
    <3>2. Running[h]
      BY <2>3 DEF Running
    <3>3. QED
      BY <3>1, <3>2
  <2>5. Kept' = Kept /\ \A g \in DOMAIN Kept[h] : Kept[h][g] = 1
    <3>1. Kept' = Kept
      BY <1>2, <1>3 DEF Kept
    <3>2. Kept[h] = ran[h]
      BY <1>5 DEF Kept, KeptOf
    <3>3. QED
      BY <2>2, <3>1, <3>2
  <2>6. QED
    BY <2>4, <2>5 DEF Promise!Return, Running, Inside, Kept, KeptOf
<1>6. QED
  BY <1>4, <1>5

LEMMA PromiseNext == Inv /\ [Next]_vars => [Promise!Next]_<<Running, Kept>>
<1> SUFFICES ASSUME Inv, [Next]_vars, ~UNCHANGED <<Running, Kept>>
             PROVE  Promise!Next
  OBVIOUS
<1>1. \A h \in Hosts : Promise!Begin(h) => Promise!Next
  BY DEF Promise!Next
<1>2. \A h \in Hosts : Promise!Return(h) => Promise!Next
  BY DEF Promise!Next
<1>3. \A h \in Hosts : (\E g \in DOMAIN Kept[h] : Promise!Execute(h, g)) => Promise!Next
  BY DEF Promise!Next, Kept, KeptOf
<1>4. ASSUME NEW h \in Hosts, \A k \in Hosts \ {h} : host'[k] = host[k], ran' = ran,
             \/ host[h].at \notin Launched /\ host'[h].at \notin Launched
             \/ /\ host[h].at \in {"create", "join"} /\ host'[h].at \in {"create", "join"}
                /\ host'[h].global = host[h].global /\ host'[h].local = host[h].local
      PROVE  FALSE
  <2>1. (Inside(h)' <=> Inside(h)) /\ (Cut(h)' <=> Cut(h))
    <3>1. CASE host[h].at \notin Launched /\ host'[h].at \notin Launched
      BY <3>1 DEF Inside, Cut, Launched
    <3>2. CASE /\ host[h].at \in {"create", "join"} /\ host'[h].at \in {"create", "join"}
               /\ host'[h].global = host[h].global /\ host'[h].local = host[h].local
      <4>1. Cut(h)' <=> Cut(h)
        BY <3>2, CutStays DEF Launched
      <4>2. QED
        BY <3>2, <4>1 DEF Inside
    <3>3. QED
      BY <1>4, <3>1, <3>2
  <2>2. KeptOf(h)' = KeptOf(h)
    BY <1>4, <2>1 DEF KeptOf
  <2>3. \A k \in Hosts \ {h} : (Inside(k)' <=> Inside(k)) /\ KeptOf(k)' = KeptOf(k)
    BY <1>4, OtherStays
  <2>4. \A k \in Hosts : (Inside(k)' <=> Inside(k)) /\ KeptOf(k)' = KeptOf(k)
    BY <2>1, <2>2, <2>3
  <2>5. QED
    BY <2>4, PromiseStutters
<1>5. ASSUME UNCHANGED <<host, ran>> PROVE FALSE
  BY <1>5, OtherStays, PromiseStutters
<1>6. ASSUME NEW h \in Hosts, NEW global \in Globals, NEW local \in Locals \cup {NoSizeGiven},
             Enqueue(h, global, local)
      PROVE  FALSE
  <2>1. /\ host[h].at = "idle" /\ ran' = ran
        /\ \A k \in Hosts \ {h} : host'[k] = host[k]
        /\ host'[h].at \in {"refused", "choose", "check"}
    BY <1>6 DEF Enqueue, At, Inv, Typed, HostInv, HostsTyped, HostRecord
  <2>2. QED
    BY <1>4, <2>1 DEF Launched
<1>7. ASSUME NEW h \in Hosts, Choose(h) \/ Check(h) PROVE FALSE
  <2>1. /\ host[h].at \in {"choose", "check"} /\ ran' = ran
        /\ \A k \in Hosts \ {h} : host'[k] = host[k]
        /\ host'[h].at \in {"refused", "choose", "check", "run"}
    BY <1>7 DEF Choose, Check, Goto, Dies, At, Inv, Typed, HostInv, HostsTyped, HostRecord
  <2>2. QED
    BY <1>4, <2>1 DEF Launched
<1>8. ASSUME NEW h \in Hosts, Create(h) PROVE FALSE
  <2>1. /\ host[h].at = "create" /\ ran' = ran
        /\ \A k \in Hosts \ {h} : host'[k] = host[k]
        /\ host'[h].at \in {"create", "join"}
        /\ host'[h].global = host[h].global /\ host'[h].local = host[h].local
    BY <1>8, NextOfGoes DEF Inv, Create, At, SameSplit
  <2>2. QED
    BY <1>4, <2>1 DEF Launched
<1>9. ASSUME NEW h \in Hosts, HostStep(h) PROVE Promise!Next
  <2>1. CASE CreateFails(h)
    BY <1>5, <2>1 DEF CreateFails, Dies
  <2>2. CASE Split(h)
    BY <1>1, <2>2, SplitBegins
  <2>3. CASE Join(h)
    BY <1>2, <2>3, JoinReturns
  <2>4. QED
    BY <1>7, <1>8, <1>9, <2>1, <2>2, <2>3 DEF HostStep
<1>10. ASSUME NEW h \in Hosts, NEW i \in Threads, WorkerStep(h, i) PROVE Promise!Next
  <2>1. CASE RunGroup(h, i)
    BY <1>3, <2>1, RunGroupExecutes
  <2>2. CASE Begin(h, i) \/ Exit(h, i)
    BY <1>5, <2>2 DEF Begin, Exit
  <2>3. QED
    BY <1>10, <2>1, <2>2 DEF WorkerStep
<1>11. CASE UNCHANGED vars
  BY <1>5, <1>11 DEF vars
<1>12. QED
  BY <1>6, <1>9, <1>10, <1>11 DEF Next

\* The launches of all hosts, with their threads, shared arguments and failures,
\* implement the promise of a device: a launch that begins runs each group of
\* its grid once and returns only when all have been run. The launches whose
\* number of groups in x the conversion to int cuts are not promised anything.
THEOREM LaunchesKeepPromise == Spec => ImplementsPromise
<1>1. Init => Promise!Init
  <2> SUFFICES ASSUME Init PROVE Promise!Init
    OBVIOUS
  <2>1. \A h \in Hosts : host[h].at = "idle"
    BY DEF Init
  <2>2. \A h \in Hosts : (Inside(h) = FALSE) /\ KeptOf(h) = <<>>
    <3>1. TAKE h \in Hosts
    <3>2. ~Cut(h) /\ host[h].at \notin {"create", "join"} /\ ran[h] = <<>>
      BY <2>1 DEF Cut, Init
    <3>3. QED
      BY <3>2 DEF Inside, KeptOf
  <2>3. Running = [h \in Hosts |-> FALSE] /\ Kept = [h \in Hosts |-> <<>>]
    BY <2>2 DEF Running, Kept
  <2>4. QED
    BY <2>3 DEF Promise!Init, Running, Inside, Kept, KeptOf
<1>2. Inv /\ [Next]_vars =>
        [Promise!Next]_<<[h \in Hosts |-> host[h].at \in {"create", "join"} /\ ~Cut(h)],
                         [h \in Hosts |-> IF Cut(h) THEN <<>> ELSE ran[h]]>>
  BY PromiseNext DEF Running, Inside, Kept, KeptOf
<1>3. QED
  BY <1>1, <1>2, InitInv, InvNext, PTL DEF Spec, ImplementsPromise, Promise!Spec

=============================================================================
