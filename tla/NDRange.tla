------------------------------- MODULE NDRange -------------------------------
(***************************************************************************)
(* The launch of a kernel over an ND-range on the pthread device.          *)
(* clEnqueueNDRangeKernel takes or chooses a local size and checks it;     *)
(* pocl_pthread_run splits the groups in x over threads it creates and     *)
(* joins; each thread runs its slice in workgroup_thread.                  *)
(*                                                                         *)
(* Several host threads may launch at once.  They share max_threads and    *)
(* the pool of thread_arguments.                                           *)
(***************************************************************************)
EXTENDS Integers, Sequences

CONSTANTS
  Hosts,          \* threads that launch a kernel, once each
  Globals,        \* bound: the global_work_size of a launch, as <<x, y, z>>
  Locals,         \* bound: the local_work_size the client passes
  NoSizeGiven,    \* stands for a local_work_size of NULL
  MaxGroupSize,   \* max_work_group_size: 1024
  MaxItemSize,    \* max_work_item_sizes: at least CL_INT_MAX
  Multiple,       \* preferred_wg_size_multiple: 8
  ThreadCounts,   \* what get_max_thread_count may return
  MaxThreadCount, \* bound: the largest of them
  IntBits,        \* width of int: 32
  SizeModulus     \* size_t wraps here: 2^32 on the Zynq

ASSUME RangeAssumption ==
  /\ {MaxGroupSize, MaxItemSize, Multiple, MaxThreadCount, IntBits, SizeModulus} \subseteq Nat \ {0}
  /\ Globals \subseteq Nat \X Nat \X Nat
  /\ Locals \subseteq Nat \X Nat \X Nat /\ NoSizeGiven \notin Locals
  /\ ThreadCounts \subseteq {n \in Int : n <= MaxThreadCount}

\* Powers of two are positive: the provers know nothing of exponents.
ASSUME PowerAssumption == {2^IntBits, 2^(IntBits - 1)} \subseteq Nat \ {0}

\* Bound: what the loops over y and z count in an unsigned int, fits one.
ASSUME LayersAssumption == \A g \in Globals : g[2] < 2^IntBits /\ g[3] < 2^IntBits

VARIABLES
  host,        \* host[h]: at, its next step; global and local, the sizes; auto;
               \* threads and each, num_threads and wgs_per_thread; next, the i
               \* of its loop
  maxThreads,  \* max_threads, 0 until the first launch
  worker,      \* worker[h][i]: at; args, its thread_arguments; first and gid, the
               \* variables of its loops
  args,        \* the thread_arguments: group_id, last_gid_x and num_groups
  pool,        \* thread_argument_pool
  ran,         \* history: ran[h][g] is how often group g of h's launch was run
  dead         \* the process was ended by a signal or an assert

vars == <<host, maxThreads, worker, args, pool, ran, dead>>

Dims == 1..3
Threads == 0..(MaxThreadCount - 1)
\* The number of work-items in a group, in size_t.
Product(l) == (l[1] * l[2] * l[3]) % SizeModulus
\* Conversion to int.
ToInt(n) == ((n + 2^(IntBits - 1)) % 2^IntBits) - 2^(IntBits - 1)
Least(S) == CHOOSE d \in S : \A e \in S : d <= e
Most(S) == CHOOSE d \in S : \A e \in S : e <= d

Groups(h) == [d \in Dims |-> host[h].global[d] \div host[h].local[d]]
\* num_groups_x: the number of groups in x goes through an int.
GroupsX(h) == ToInt(Groups(h)[1])
GridOf(n) == (0..(n[1] - 1)) \X (0..(n[2] - 1)) \X (0..(n[3] - 1))
\* The groups that are shared out over the threads.
Grid(h) == GridOf([Groups(h) EXCEPT ![1] = GroupsX(h)])

At(h, s) == ~dead /\ host[h].at = s
Goto(h, s) == host' = [host EXCEPT ![h].at = s]
Dies == dead' = TRUE /\ UNCHANGED host
-----------------------------------------------------------------------------
\* clEnqueueNDRangeKernel.
Enqueue(h, global, local) ==
  /\ At(h, "idle")
  /\ host' = [host EXCEPT ![h].global = global, ![h].auto = (local = NoSizeGiven),
                          ![h].local = IF local = NoSizeGiven THEN global ELSE local,
                          ![h].at = IF \E d \in Dims : global[d] = 0 THEN "refused"
                                     ELSE IF local = NoSizeGiven THEN "choose" ELSE "check"]
  /\ UNCHANGED <<maxThreads, worker, args, pool, ran, dead>>

\* Mutant: rounds up when it halves.
ShrunkRoundsUp(l) ==
  LET halvable == {d \in Dims : l[d] > 1 /\ ((l[d] + 1) \div 2) % Multiple = 0}
  IN  IF halvable # {} THEN [l EXCEPT ![Least(halvable)] = (@ + 1) \div 2]
      ELSE [l EXCEPT ![Most({d \in Dims : l[d] > 1} \cup {1})] = 1]
\* Mutant: the last rule, which gives up a dimension that is a multiple, is left out.
ShrunkStuck(l) ==
  LET halvable == {d \in Dims : l[d] > 1 /\ l[d] % 2 = 0 /\ (l[d] \div 2) % Multiple = 0}
      uneven == {d \in {2, 3} : l[d] > 1 /\ l[d] % Multiple # 0}
  IN  IF halvable # {} THEN [l EXCEPT ![Least(halvable)] = @ \div 2]
      ELSE [d \in Dims |-> IF uneven # {} /\ d = Most(uneven) THEN 1 ELSE l[d]]
\* One turn of the loop that chooses a local size: halve the first dimension
\* that stays a multiple, or else give up the last dimension that is none (x
\* excepted), or else the last one that is left.
Shrunk(l) ==
  LET left == {d \in Dims : l[d] > 1}
      halvable == {d \in left : l[d] % 2 = 0 /\ (l[d] \div 2) % Multiple = 0}
      uneven == {d \in left \ {1} : l[d] % Multiple # 0}
  IN  CASE halvable # {} -> [l EXCEPT ![Least(halvable)] = @ \div 2]
        [] halvable = {} /\ uneven # {} -> [l EXCEPT ![Most(uneven)] = 1]
        [] halvable = {} /\ uneven = {} /\ left # {} -> [l EXCEPT ![Most(left)] = 1]
        [] OTHER -> l

Choose(h) ==
  /\ At(h, "choose")
  /\ LET local == Shrunk(host[h].local)
     IN  host' = [host EXCEPT ![h].local = local,
                              ![h].at = IF Product(local) > MaxGroupSize THEN "choose"
                                                                         ELSE "check"]
  /\ UNCHANGED <<maxThreads, worker, args, pool, ran, dead>>

TooLarge(local) == Product(local) > MaxGroupSize \/ \E d \in Dims : local[d] > MaxItemSize

\* The checks; a size of 0 from the client divides by zero.
Check(h) ==
  LET global == host[h].global
      local == host[h].local
  IN  /\ At(h, "check")
      /\ CASE TooLarge(local) -> Goto(h, "refused") /\ UNCHANGED dead
           [] ~TooLarge(local) /\ \E d \in Dims : local[d] = 0 -> Dies
           [] OTHER -> /\ Goto(h, IF \A d \in Dims : global[d] % local[d] = 0
                                  THEN "run" ELSE "refused")
                       /\ UNCHANGED dead
      /\ UNCHANGED <<maxThreads, worker, args, pool, ran>>
-----------------------------------------------------------------------------
\* pocl_pthread_run.  A thread count that is not positive divides by zero, or
\* is the length of an array.
Split(h) ==
  /\ At(h, "run")
  /\ \E n \in IF maxThreads = 0 THEN ThreadCounts ELSE {maxThreads} :
       LET x == GroupsX(h)
           threads == IF n < x THEN n ELSE x
       IN  /\ maxThreads' = n
           /\ IF threads <= 0
              THEN Dies /\ UNCHANGED ran
              ELSE /\ host' = [host EXCEPT ![h].at = "create", ![h].next = 0,
                                           ![h].threads = threads, ![h].each = x \div threads]
                   /\ ran' = [ran EXCEPT ![h] = [g \in Grid(h) |-> 0]]
                   /\ UNCHANGED dead
  /\ UNCHANGED <<worker, args, pool>>

\* Mutant: the last group is taken for the end, which is not run.
SliceShort(h, i) ==
  LET first == i * host[h].each
  IN  [first |-> first, last |-> first + host[h].each - 2]
\* The groups in x of thread i: the last thread takes the remainder.
Slice(h, i) ==
  LET first == i * host[h].each
      leftover == GroupsX(h) - host[h].threads * host[h].each
  IN  [first |-> first,
       last |-> first + host[h].each - 1 + IF i + 1 = host[h].threads THEN leftover ELSE 0]

NextOf(h, after) == host' = [host EXCEPT ![h].next = IF @ + 1 = host[h].threads THEN 0 ELSE @ + 1,
                                         ![h].at = IF host[h].next + 1 = host[h].threads
                                                   THEN after ELSE @]

\* Mutant: the arguments stay in the pool.
PoolKept == pool
\* new_thread_arguments takes the head of the pool, if there is one.
PoolLeft == IF pool # <<>> THEN Tail(pool) ELSE pool

\* A thread is created with its arguments, ...
Create(h) ==
  /\ At(h, "create")
  /\ LET slice == Slice(h, host[h].next)
         a == IF pool # <<>> THEN Head(pool) ELSE Len(args) + 1
         content == [group |-> <<slice.first, 0, 0>>, last |-> slice.last, groups |-> Groups(h)]
     IN  /\ args' = IF pool # <<>> THEN [args EXCEPT ![a] = content] ELSE Append(args, content)
         /\ worker' = [worker EXCEPT ![h][host[h].next] =
                         [at |-> "created", args |-> a, first |-> 0, gid |-> <<0, 0, 0>>]]
  /\ pool' = PoolLeft
  /\ NextOf(h, "join")
  /\ UNCHANGED <<maxThreads, ran, dead>>

\* ... or the assert ends the process.
CreateFails(h) ==
  /\ At(h, "create")
  /\ Dies
  /\ UNCHANGED <<maxThreads, worker, args, pool, ran>>

\* Mutant: the threads are not waited for.
JoinNot(h) ==
  /\ At(h, "join")
  /\ NextOf(h, "done")
  /\ UNCHANGED <<maxThreads, worker, args, pool, ran, dead>>
Join(h) ==
  /\ At(h, "join") /\ worker[h][host[h].next].at = "exited"
  /\ NextOf(h, "done")
  /\ UNCHANGED <<maxThreads, worker, args, pool, ran, dead>>
-----------------------------------------------------------------------------
\* workgroup_thread.
WorkerAt(h, i, s) == ~dead /\ worker[h][i].at = s

\* It reads the first group of its slice, once.
Begin(h, i) ==
  /\ WorkerAt(h, i, "created")
  /\ LET x == args[worker[h][i].args].group[1]
     IN  worker' = [worker EXCEPT ![h][i].at = "running", ![h][i].first = x,
                                  ![h][i].gid = <<x, 0, 0>>]
  /\ UNCHANGED <<host, maxThreads, args, pool, ran, dead>>

\* Mutant: x starts from the group id in the arguments again, which the loop
\* has overwritten.
NextGroupRereads(g, first, last, groups) ==
  IF g[1] < last THEN [g EXCEPT ![1] = @ + 1]
  ELSE IF g[2] + 1 < groups[2] THEN [g EXCEPT ![2] = @ + 1]
  ELSE <<g[1], 0, g[3] + 1>>
\* The loops over z, y and x; the worker is through when z is.
NextGroup(g, first, last, groups) ==
  IF g[1] < last THEN [g EXCEPT ![1] = @ + 1]
  ELSE IF g[2] + 1 < groups[2] THEN <<first, g[2] + 1, g[3]>>
  ELSE <<first, 0, g[3] + 1>>

RunGroup(h, i) ==
  LET w == worker[h][i]
      a == args[w.args]
  IN  /\ WorkerAt(h, i, "running") /\ w.gid[3] < a.groups[3]
      /\ args' = [args EXCEPT ![w.args].group = w.gid]
      /\ ran' = [ran EXCEPT ![h] = [g \in DOMAIN @ \cup {w.gid} |->
                   (IF g \in DOMAIN @ THEN @[g] ELSE 0) + IF g = w.gid THEN 1 ELSE 0]]
      /\ worker' = [worker EXCEPT ![h][i].gid = NextGroup(@, w.first, a.last, a.groups)]
      /\ UNCHANGED <<host, maxThreads, pool, dead>>

Exit(h, i) ==
  LET w == worker[h][i]
  IN  /\ WorkerAt(h, i, "running") /\ w.gid[3] >= args[w.args].groups[3]
      /\ worker' = [worker EXCEPT ![h][i].at = "exited"]
      /\ pool' = <<w.args>> \o pool
      /\ UNCHANGED <<host, maxThreads, args, ran, dead>>
-----------------------------------------------------------------------------
NoSize == <<0, 0, 0>>
NoWorker == [at |-> "none", args |-> 0, first |-> 0, gid |-> NoSize]

Init ==
  /\ host = [h \in Hosts |-> [at |-> "idle", global |-> NoSize, local |-> NoSize, auto |-> FALSE,
                              threads |-> 0, each |-> 0, next |-> 0]]
  /\ maxThreads = 0
  /\ worker = [h \in Hosts |-> [i \in Threads |-> NoWorker]]
  /\ args = <<>> /\ pool = <<>>
  /\ ran = [h \in Hosts |-> <<>>]
  /\ dead = FALSE

HostStep(h) == Choose(h) \/ Check(h) \/ Split(h) \/ Create(h) \/ CreateFails(h) \/ Join(h)
WorkerStep(h, i) == Begin(h, i) \/ RunGroup(h, i) \/ Exit(h, i)

Next ==
  \E h \in Hosts :
    \/ \E global \in Globals, local \in Locals \cup {NoSizeGiven} : Enqueue(h, global, local)
    \/ HostStep(h)
    \/ \E i \in Threads : WorkerStep(h, i)

Spec == Init /\ [][Next]_vars

\* Threads inside the runtime keep running; a worker waits for nobody, and a
\* host only for its workers.
FairSpec ==
  /\ Spec
  /\ \A h \in Hosts :
       /\ WF_vars(HostStep(h))
       /\ \A i \in Threads : WF_vars(WorkerStep(h, i))
-----------------------------------------------------------------------------
\* Properties.
Steps == {"idle", "choose", "check", "refused", "run", "create", "join", "done"}
Size == Nat \X Nat \X Nat

TypeOK ==
  /\ host \in [Hosts -> [at : Steps, global : Size, local : Size, auto : BOOLEAN,
                         threads : 0..MaxThreadCount, each : Nat, next : Threads]]
  /\ maxThreads \in ThreadCounts \cup {0}
  /\ worker \in [Hosts -> [Threads -> [at : {"none", "created", "running", "exited"},
                                       args : 0..Len(args), first : Nat, gid : Size]]]
  /\ args \in Seq([group : Size, last : Nat, groups : Size])
  /\ pool \in Seq(DOMAIN args)
  /\ dead \in BOOLEAN

\* A local size the runtime chooses itself is one its own checks let through.
AutoSizeAccepted ==
  \A h \in Hosts : host[h].auto /\ At(h, "refused") =>
    \E d \in Dims : host[h].global[d] = 0 \/ host[h].local[d] > MaxItemSize

\* The int has cut the number of groups in x to a smaller one that is positive
\* too: the code shares out only those, and the launch returns.
Cut(h) == host[h].at \in {"create", "join", "done"} /\ GroupsX(h) # Groups(h)[1]

\* When a launch returns, and its groups in x were not cut, every work-item of
\* the range has been run, and once: the local size divides the range, the
\* slices of the threads cover the groups, and no thread is still at work.
Items(g, local) == {<<g[1] * local[1] + x, g[2] * local[2] + y, g[3] * local[3] + z>> :
                      x \in 0..(local[1] - 1), y \in 0..(local[2] - 1), z \in 0..(local[3] - 1)}
EveryItemOnce ==
  \A h \in Hosts : At(h, "done") /\ ~Cut(h) =>
    \A item \in GridOf(host[h].global) :
      \E g \in DOMAIN ran[h] :
        /\ item \in Items(g, host[h].local) /\ ran[h][g] = 1
        /\ \A e \in DOMAIN ran[h] : item \in Items(e, host[h].local) => e = g

\* thread_arguments are handed out again while other launches run: no two
\* threads that are at work have the same, and none of theirs is in the pool.
ArgsPrivate ==
  \A h, k \in Hosts, i, j \in Threads :
    worker[h][i].at \in {"created", "running"} =>
      /\ \A n \in DOMAIN pool : pool[n] # worker[h][i].args
      /\ worker[k][j].at \in {"created", "running"} /\ <<h, i>> # <<k, j>>
           => worker[h][i].args # worker[k][j].args

\* A launch ends: the loop that chooses a size finds one, and all threads exit.
LaunchEnds ==
  \A h \in Hosts : host[h].at # "idle" ~> dead \/ host[h].at \in {"refused", "done"}

\* The launches whose groups in x are not cut implement the promise of a device.
Divisors(n) == {e \in 1..n : n % e = 0}
Promise == INSTANCE WorkGroups WITH
  Shapes <- UNION {Divisors(g[1]) \X Divisors(g[2]) \X Divisors(g[3]) : g \in Globals},
  running <- [h \in Hosts |-> host[h].at \in {"create", "join"} /\ ~Cut(h)],
  ran <- [h \in Hosts |-> IF Cut(h) THEN <<>> ELSE ran[h]]
ImplementsPromise == Promise!Spec
=============================================================================
