------------------------------- MODULE Objects -------------------------------
(***************************************************************************)
(* The lifetime of memory objects, programs, kernels and their context.    *)
(* Each has a reference count, changed under its lock.  A call retains     *)
(* what it enqueues, and clFinish releases that when it executes the       *)
(* command; a sub-buffer retains its parent, a kernel its program, buffers *)
(* and programs their context.                                             *)
(*                                                                         *)
(* A call on buffers is one step: it shares the count and, with the others *)
(* that lock the object, the list of its mappings.  Executing a map or an  *)
(* unmap takes no lock, and the list of a program's kernels is read and    *)
(* written without one, or half outside it: there every access is a step.  *)
(***************************************************************************)
EXTENDS Integers, Sequences, FiniteSets, SequencesExt

CONSTANTS
  Threads,     \* host threads
  Buffers,     \* the memory objects a behaviour may create
  Kernels,     \* the kernels it may create, all of one program
  Context, Program, Null,
  Addresses,   \* host addresses a buffer may be mapped to
  NumDevices,  \* context->num_devices
  MaxObjects,  \* bound: objects created, the context included, and mappings made
  MaxRefs,     \* bound: references of the client to an object
  MaxPending,  \* bound: commands in the queue
  MaxMaps      \* bound: mappings made

Objects == {Context, Program} \cup Buffers \cup Kernels

ASSUME ObjectsAssumption ==
  /\ {NumDevices, MaxObjects, MaxRefs, MaxPending, MaxMaps} \subseteq Nat \ {0}
  /\ Null \notin Objects /\ Context # Program
  /\ {Context, Program} \cap (Buffers \cup Kernels) = {} /\ Buffers \cap Kernels = {}

VARIABLES
  refs,      \* count: pocl_refcount of each object; freed: the objects freed
  made,      \* the objects created
  held,      \* references of the client to each object
  parent,    \* parent of each buffer
  mapping,   \* the mappings made: of, a buffer; at, host_ptr, Null where a call failed
  mappings,  \* mappings of each buffer: a sequence of indices of mapping
  mapCount,  \* map_count
  unmapped,  \* how often the client has unmapped each address of each buffer
  edit,      \* edit[t]: where t is in executing a map or an unmap
  torn,      \* history: buffers whose list two threads changed at once
  miscounted,\* history: buffers whose map_count two threads changed at once
  queue,     \* the commands enqueued and not executed
  head,      \* kernels of the program, the head of its list
  next,      \* next of each kernel
  call,      \* call[t]: the step t is at in a call on a kernel
  raced,     \* history: two threads were in such calls at once
  corrupt    \* freed memory or NULL was used, or an element not in a list deleted

vars == <<refs, made, held, parent, mapping, mappings, mapCount, unmapped, edit, torn, miscounted,
          queue, head, next, call, raced, corrupt>>
kernelVars == <<head, next, call, raced>>
editVars == <<edit, torn, miscounted>>
mapVars == <<mapping, mappings, mapCount, unmapped, editVars>>

Live(o) == o \in made /\ o \notin refs.freed
Idle(t) == ~corrupt /\ call[t].at = "idle" /\ edit[t].at = "none"

\* POCL_RETAIN_OBJECT of every object of a sequence.
Retained(r, objects) ==
  [r EXCEPT !.count = [o \in Objects |-> @[o] + Cardinality({i \in DOMAIN objects : objects[i] = o})]]
\* POCL_RELEASE_OBJECT where nothing follows from a count of 0.
Dropped(r, o) == [r EXCEPT !.count[o] = @ - 1]

\* Mutant: the count is compared before it is decremented.
MemReleasedNever(r, b) ==
  IF r.count[b] > 0 THEN Dropped(r, b) ELSE [r EXCEPT !.freed = @ \cup {b}]
\* Mutant: the parent is freed together with the sub-buffer.
MemReleasedBoth(r, b) ==
  IF r.count[b] > 1 THEN Dropped(r, b)
  ELSE Dropped([Dropped(r, b) EXCEPT !.freed = @ \cup {b, parent[b]}], Context)
\* clReleaseMemObject.
MemReleased(r, b) ==
  IF r.count[b] > 1 THEN Dropped(r, b)
  ELSE LET freed == [Dropped(r, b) EXCEPT !.freed = @ \cup {b}]
       IN  Dropped(IF parent[b] = Null THEN freed ELSE Dropped(freed, parent[b]), Context)
\* clReleaseProgram.
ProgramReleased(r) ==
  IF r.count[Program] > 1 THEN Dropped(r, Program)
  ELSE Dropped([Dropped(r, Program) EXCEPT !.freed = @ \cup {Program}], Context)
\* A command has one buffer or two.
BuffersReleased(r, buffers) ==
  LET first == MemReleased(r, buffers[1])
  IN  IF Len(buffers) = 1 THEN first ELSE MemReleased(first, buffers[2])
-----------------------------------------------------------------------------
\* The client's calls on memory objects.
Room == Cardinality(made) + Len(mapping) < MaxObjects
CanMake(o) == o \notin made /\ Room
CreateBuffer(t, b) ==
  /\ Idle(t) /\ held[Context] > 0 /\ CanMake(b)
  /\ refs' = Retained([refs EXCEPT !.count[b] = NumDevices], <<Context>>)
  /\ made' = made \cup {b}
  /\ held' = [held EXCEPT ![b] = 1]
  /\ UNCHANGED <<parent, mapVars, queue, kernelVars, corrupt>>

CreateSubBuffer(t, b, p) ==
  /\ Idle(t) /\ held[p] > 0 /\ parent[p] = Null /\ CanMake(b)
  /\ refs' = Retained([refs EXCEPT !.count[b] = 1], <<p, Context>>)
  /\ made' = made \cup {b}
  /\ held' = [held EXCEPT ![b] = 1]
  /\ parent' = [parent EXCEPT ![b] = p]
  /\ UNCHANGED <<mapVars, queue, kernelVars, corrupt>>

\* clRetainMemObject, clRetainKernel, clRetainProgram and clRetainContext.
Retain(t, o) ==
  /\ Idle(t) /\ held[o] \in 1..(MaxRefs - 1)
  /\ refs' = Retained(refs, <<o>>)
  /\ held' = [held EXCEPT ![o] = @ + 1]
  /\ UNCHANGED <<made, parent, mapVars, queue, kernelVars, corrupt>>

ReleaseMemObject(t, b) ==
  /\ Idle(t) /\ held[b] > 0
  /\ refs' = MemReleased(refs, b)
  /\ held' = [held EXCEPT ![b] = @ - 1]
  /\ mappings' = IF b \in refs'.freed THEN [mappings EXCEPT ![b] = <<>>] ELSE mappings
  /\ UNCHANGED <<made, parent, mapping, mapCount, unmapped, editVars, queue, kernelVars, corrupt>>

ReleaseContext(t) ==
  /\ Idle(t) /\ held[Context] > 0
  /\ refs' = LET r == Dropped(refs, Context)
             IN  IF r.count[Context] = 0 THEN [r EXCEPT !.freed = @ \cup {Context}] ELSE r
  /\ held' = [held EXCEPT ![Context] = @ - 1]
  /\ UNCHANGED <<made, parent, mapVars, queue, kernelVars, corrupt>>

CreateProgram(t) ==
  /\ Idle(t) /\ held[Context] > 0 /\ CanMake(Program)
  /\ refs' = Retained([refs EXCEPT !.count[Program] = 1], <<Context>>)
  /\ made' = made \cup {Program}
  /\ held' = [held EXCEPT ![Program] = 1]
  /\ UNCHANGED <<parent, mapVars, queue, kernelVars, corrupt>>

\* The client does not release a program before clCreateKernel on it returns.
Creating == {call[t].kernel : t \in {u \in Threads : call[u].at = "create"}}
ReleaseProgram(t) ==
  /\ Idle(t) /\ held[Program] > (IF Creating = {} THEN 0 ELSE 1)
  /\ refs' = ProgramReleased(refs)
  /\ held' = [held EXCEPT ![Program] = @ - 1]
  /\ UNCHANGED <<made, parent, mapVars, queue, kernelVars, corrupt>>
-----------------------------------------------------------------------------
\* Enqueueing.  The client may use what it holds.
CanEnqueue(t, buffers) ==
  Idle(t) /\ Len(queue) < MaxPending /\ \A i \in DOMAIN buffers : held[buffers[i]] > 0

\* Mutant: a copy retains one of its two buffers.
UsesFirst(buffers, kernel) == IF kernel = Null THEN SubSeq(buffers, 1, 1) ELSE Append(buffers, kernel)
\* What a read, a write, a copy, a native kernel or a launch retains.
Uses(buffers, kernel) == IF kernel = Null THEN buffers ELSE Append(buffers, kernel)
EnqueueUse(t, buffers, kernel) ==
  /\ CanEnqueue(t, buffers) /\ kernel \in {Null} \cup {k \in Kernels : held[k] > 0}
  /\ refs' = Retained(refs, Uses(buffers, kernel))
  /\ queue' = Append(queue, [kind |-> "use", buffers |-> buffers, kernel |-> kernel, map |-> 0])
  /\ UNCHANGED <<made, held, parent, mapVars, kernelVars, corrupt>>

\* Mutant: the buffer is not retained.
MapRetainsNot(b) == refs
\* The buffer is retained for ever: neither the command nor the unmap releases it.
MapRetains(b) == Retained(refs, <<b>>)
\* The buffers, and b if another thread is at that step of executing a map or an
\* unmap of it.
Another(t, b, at) == \E s \in Threads \ {t} : edit[s].at = at /\ edit[s].of = b
Marked(t, b, at, buffers) == IF Another(t, b, at) THEN buffers \cup {b} ELSE buffers
\* What is on a list that two threads changed at once is not kept.
Relists(b, s, damaged) == mappings' = [mappings EXCEPT ![b] = IF b \in damaged THEN <<>> ELSE s]
MapBuffer(t, b, a) ==
  /\ CanEnqueue(t, <<b>>) /\ Len(mapping) < MaxMaps /\ Room
  /\ refs' = MapRetains(b)
  /\ mapping' = Append(mapping, [of |-> b, at |-> a])
  /\ torn' = Marked(t, b, "delete", torn)
  /\ Relists(b, Append(mappings[b], Len(mapping) + 1), torn')
  /\ queue' = Append(queue, [kind |-> "map", buffers |-> <<b>>, kernel |-> Null,
                             map |-> Len(mapping) + 1])
  /\ UNCHANGED <<made, held, parent, mapCount, unmapped, edit, miscounted, kernelVars, corrupt>>

\* A call that fails after it has retained: a map the device refuses, a native
\* kernel whose next memory object is NULL.
EnqueueFails(t, b) ==
  /\ CanEnqueue(t, <<b>>) /\ Len(mapping) < MaxMaps /\ Room
  /\ refs' = MapRetains(b)
  /\ mapping' = Append(mapping, [of |-> b, at |-> Null])
  /\ UNCHANGED <<made, held, parent, mappings, mapCount, unmapped, editVars, queue, kernelVars, corrupt>>

MapsAt(b, a) == {m \in DOMAIN mapping : mapping[m] = [of |-> b, at |-> a]}

\* Mutant: any mapping of the buffer is taken.
FoundFirst(b, a) == IF mappings[b] = <<>> THEN 0 ELSE mappings[b][1]
\* The first mapping with the address.
Found(b, a) ==
  LET listed == {i \in DOMAIN mappings[b] : mappings[b][i] \in MapsAt(b, a)}
  IN  IF listed = {} THEN 0
      ELSE mappings[b][CHOOSE i \in listed : \A j \in listed : i <= j]
\* In a list that two threads changed at once, any mapping with the address or none.
Finds(b, a) == IF b \in torn THEN MapsAt(b, a) ELSE {Found(b, a)} \ {0}
Place(s, m) == CHOOSE i \in DOMAIN s : s[i] = m
\* The client unmaps what it has mapped, whether or not it still holds the buffer.
UnmapMemObject(t, b, a) ==
  /\ Idle(t) /\ Len(queue) < MaxPending
  /\ Cardinality(MapsAt(b, a)) > unmapped[b][a]
  /\ unmapped' = [unmapped EXCEPT ![b][a] = @ + 1]
  /\ \E m \in Finds(b, a) :
       queue' = Append(queue, [kind |-> "unmap", buffers |-> <<b>>, kernel |-> Null, map |-> m])
  /\ UNCHANGED <<refs, made, held, parent, mapping, mappings, mapCount, editVars, kernelVars, corrupt>>
-----------------------------------------------------------------------------
\* Calls on kernels.  Null, as the place of a link, is program->kernels.
NoCall == [at |-> "idle", kernel |-> Null, link |-> Null]
Enter(t, at, k, link) ==
  /\ call' = [call EXCEPT ![t] = [at |-> at, kernel |-> k, link |-> link]]
  /\ raced' = (raced \/ \E s \in Threads \ {t} : call[s].at # "idle")
Leave(t) == call' = [call EXCEPT ![t] = NoCall] /\ UNCHANGED raced
At(t, s) == ~corrupt /\ call[t].at = s
Corrupts == corrupt' = TRUE /\ UNCHANGED <<refs, made, held, parent, mapVars, queue, kernelVars>>

\* clCreateKernel makes the kernel the head of the list under the program's
\* lock, ...
CreateKernel(t, k) ==
  /\ Idle(t) /\ held[Program] > 0 /\ CanMake(k)
  /\ made' = made \cup {k}
  /\ refs' = [refs EXCEPT !.count[k] = NumDevices]
  /\ head' = k
  /\ next' = [next EXCEPT ![k] = Null]
  /\ Enter(t, "create", k, head)
  /\ UNCHANGED <<held, parent, mapVars, queue, corrupt>>

\* Mutant: next is not set.
LinkNone(t) ==
  /\ At(t, "create")
  /\ refs' = Retained(refs, <<Program>>)
  /\ held' = [held EXCEPT ![call[t].kernel] = 1]
  /\ Leave(t)
  /\ UNCHANGED <<made, parent, mapVars, queue, head, next, corrupt>>
\* ... and links the others behind it after the unlock.
LinkOthers(t) ==
  /\ At(t, "create")
  /\ next' = [next EXCEPT ![call[t].kernel] = call[t].link]
  /\ refs' = Retained(refs, <<Program>>)
  /\ held' = [held EXCEPT ![call[t].kernel] = 1]
  /\ Leave(t)
  /\ UNCHANGED <<made, parent, mapVars, queue, head, corrupt>>

\* clReleaseKernel.
ReleaseKernel(t, k) ==
  /\ Idle(t) /\ held[k] > 0
  /\ refs' = Dropped(refs, k)
  /\ held' = [held EXCEPT ![k] = @ - 1]
  /\ IF refs'.count[k] = 0 THEN Enter(t, "walk", k, Null) ELSE UNCHANGED <<call, raced>>
  /\ UNCHANGED <<made, parent, mapVars, queue, head, next, corrupt>>

Link(pk) == IF pk = Null THEN head ELSE next[pk]
Walk(t) ==
  LET pk == call[t].link
  IN  /\ At(t, "walk")
      /\ \/ pk \in refs.freed /\ Corrupts
         \/ /\ pk \notin refs.freed
            /\ CASE Link(pk) = call[t].kernel -> Enter(t, "unlink", call[t].kernel, pk)
                 [] Link(pk) = Null -> Leave(t)   \* CL_INVALID_VALUE
                 [] OTHER -> Enter(t, "walk", call[t].kernel, Link(pk))
            /\ UNCHANGED <<refs, made, held, parent, mapVars, queue, head, next, corrupt>>

FreeKernel(r, k) == [ProgramReleased(r) EXCEPT !.freed = @ \cup {k}]
Unlink(t) ==
  LET pk == call[t].link
      past == next[Link(pk)]
  IN  /\ At(t, "unlink")
      /\ IF {pk, Link(pk)} \cap refs.freed # {} \/ Link(pk) = Null
         THEN Corrupts
         ELSE /\ head' = IF pk = Null THEN past ELSE head
              /\ next' = IF pk = Null THEN next ELSE [next EXCEPT ![pk] = past]
              /\ refs' = FreeKernel(refs, call[t].kernel)
              /\ Leave(t)
              /\ UNCHANGED <<made, held, parent, mapVars, queue, corrupt>>
-----------------------------------------------------------------------------
\* exec_commands, in clFinish or a call that ends in it.  A launch releases its
\* buffers and then its kernel.
ExecuteUse(t) ==
  LET c == queue[1]
      r == BuffersReleased(refs, c.buffers)
  IN  /\ Idle(t) /\ queue # <<>> /\ queue[1].kind = "use"
      /\ refs' = IF c.kernel = Null THEN r ELSE Dropped(r, c.kernel)
      /\ IF c.kernel # Null /\ refs'.count[c.kernel] = 0
         THEN Enter(t, "walk", c.kernel, Null) ELSE UNCHANGED <<call, raced>>
      /\ queue' = Tail(queue)
      /\ mappings' = [b \in Buffers |-> IF b \in refs'.freed THEN <<>> ELSE mappings[b]]
      /\ UNCHANGED <<made, held, parent, mapping, mapCount, unmapped, editVars, head, next, corrupt>>

\* map_count is read and then stored, and an unmap takes its mapping off the list
\* before that; none of it under a lock.  A count that two threads changed at once
\* is not kept.
NoEdit == [at |-> "none", of |-> Null, value |-> 0]
Edits(t, at, b, value) == edit' = [edit EXCEPT ![t] = [at |-> at, of |-> b, value |-> value]]
Takes(t, kind) ==
  /\ Idle(t) /\ queue # <<>> /\ queue[1].kind = kind
  /\ queue' = Tail(queue)
  /\ UNCHANGED <<refs, made, held, parent, mapping, mapCount, unmapped, kernelVars, corrupt>>
ReadCount(t, b, n) ==
  /\ miscounted' = Marked(t, b, "count", miscounted)
  /\ Edits(t, "count", b, IF b \in miscounted' THEN 0 ELSE mapCount[b] + n)

ExecuteMap(t) ==
  /\ Takes(t, "map")
  /\ ReadCount(t, queue[1].buffers[1], 1)
  /\ UNCHANGED <<mappings, torn>>

ExecuteUnmap(t) ==
  LET b == queue[1].buffers[1]
  IN  /\ Takes(t, "unmap")
      /\ Edits(t, "delete", b, queue[1].map)
      /\ torn' = Marked(t, b, "delete", torn)
      /\ Relists(b, mappings[b], torn')
      /\ UNCHANGED miscounted

Delete(t) ==
  LET b == edit[t].of
      m == edit[t].value
  IN  /\ ~corrupt /\ edit[t].at = "delete"
      /\ \/ (b \in refs.freed \cup torn \/ m \notin ToSet(mappings[b])) /\ Corrupts
         \/ /\ b \notin refs.freed /\ (b \in torn \/ m \in ToSet(mappings[b]))
            /\ Relists(b, RemoveAt(mappings[b], Place(mappings[b], m)), torn)
            /\ ReadCount(t, b, -1)
            /\ UNCHANGED <<refs, made, held, parent, mapping, mapCount, unmapped, torn, queue,
                           kernelVars, corrupt>>

StoreCount(t) ==
  LET b == edit[t].of
  IN  /\ ~corrupt /\ edit[t].at = "count"
      /\ IF b \in refs.freed THEN Corrupts
         ELSE /\ mapCount' = [mapCount EXCEPT ![b] = IF b \in miscounted THEN 0 ELSE edit[t].value]
              /\ edit' = [edit EXCEPT ![t] = NoEdit]
              /\ UNCHANGED <<refs, made, held, parent, mapping, mappings, unmapped, torn, miscounted,
                             queue, kernelVars, corrupt>>
-----------------------------------------------------------------------------
Init ==
  /\ refs = [count |-> [o \in Objects |-> IF o = Context THEN 1 ELSE 0], freed |-> {}]
  /\ made = {Context}
  /\ held = [o \in Objects |-> IF o = Context THEN 1 ELSE 0]
  /\ parent = [b \in Buffers |-> Null]
  /\ mapping = <<>>
  /\ mappings = [b \in Buffers |-> <<>>]
  /\ mapCount = [b \in Buffers |-> 0]
  /\ unmapped = [b \in Buffers |-> [a \in Addresses |-> 0]]
  /\ edit = [t \in Threads |-> NoEdit] /\ torn = {} /\ miscounted = {}
  /\ queue = <<>>
  /\ head = Null /\ next = [k \in Kernels |-> Null]
  /\ call = [t \in Threads |-> NoCall]
  /\ raced = FALSE /\ corrupt = FALSE

Next ==
  \E t \in Threads :
    \/ \E o \in Objects : Retain(t, o)
    \/ \E b \in Buffers : CreateBuffer(t, b) \/ ReleaseMemObject(t, b) \/ EnqueueFails(t, b)
    \/ \E b, p \in Buffers : CreateSubBuffer(t, b, p)
    \/ CreateProgram(t) \/ ReleaseProgram(t) \/ ReleaseContext(t)
    \/ \E b \in Buffers : EnqueueUse(t, <<b>>, Null)
    \/ \E b, p \in Buffers : EnqueueUse(t, <<b, p>>, Null)
    \/ \E b \in Buffers, k \in Kernels : EnqueueUse(t, <<b>>, k)
    \/ \E b \in Buffers, a \in Addresses : MapBuffer(t, b, a) \/ UnmapMemObject(t, b, a)
    \/ \E k \in Kernels : CreateKernel(t, k) \/ ReleaseKernel(t, k)
    \/ LinkOthers(t) \/ Walk(t) \/ Unlink(t)
    \/ ExecuteUse(t) \/ ExecuteMap(t) \/ ExecuteUnmap(t) \/ Delete(t) \/ StoreCount(t)

Spec == Init /\ [][Next]_vars
-----------------------------------------------------------------------------
\* Properties.
TypeOK ==
  /\ refs \in [count : [Objects -> Int], freed : SUBSET Objects]
  /\ refs.freed \subseteq made /\ made \subseteq Objects
  /\ held \in [Objects -> 0..MaxRefs]
  /\ parent \in [Buffers -> Buffers \cup {Null}]
  /\ mapping \in Seq([of : Buffers, at : Addresses \cup {Null}])
  /\ mappings \in [Buffers -> Seq(DOMAIN mapping)]
  /\ mapCount \in [Buffers -> Int] /\ unmapped \in [Buffers -> [Addresses -> 0..MaxMaps]]
  /\ edit \in [Threads -> [at : {"none", "delete", "count"}, of : Buffers \cup {Null}, value : Int]]
  /\ torn \subseteq Buffers /\ miscounted \subseteq Buffers
  /\ queue \in Seq([kind : {"use", "map", "unmap"},
                    buffers : {<<b>> : b \in Buffers} \cup (Buffers \X Buffers),
                    kernel : Kernels \cup {Null}, map : {0} \cup DOMAIN mapping])
  /\ head \in Kernels \cup {Null} /\ next \in [Kernels -> Kernels \cup {Null}]
  /\ call \in [Threads -> [at : {"idle", "create", "walk", "unlink"},
                           kernel : Kernels \cup {Null}, link : Kernels \cup {Null}]]
  /\ raced \in BOOLEAN /\ corrupt \in BOOLEAN

\* How often the queued commands name an object that they are to release.
Pending(o) ==
  LET uses == {i \in DOMAIN queue : queue[i].kind = "use"}
  IN  Cardinality({i \in uses : queue[i].buffers[1] = o})
        + Cardinality({i \in uses : Len(queue[i].buffers) = 2 /\ queue[i].buffers[2] = o})
        + Cardinality({i \in uses : queue[i].kernel = o})
Subs(b) == {s \in Buffers : parent[s] = b}
MapsOf(b) == {m \in DOMAIN mapping : mapping[m].of = b}
Extra(o) == IF o \in Kernels \/ parent[o] = Null THEN NumDevices - 1 ELSE 0
\* Every count is what the client, the commands and the other objects hold,
\* and one more for each map of the buffer and each further device, which
\* nothing gives back.  Threads that race on the list of kernels lose kernels
\* but keep the counts.
CountsExact ==
  /\ \A b \in Buffers : Live(b) =>
       refs.count[b] = held[b] + Pending(b) + Cardinality({s \in Subs(b) : Live(s)})
                         + Cardinality(MapsOf(b)) + Extra(b)
  /\ \A k \in Kernels : Live(k) =>
       refs.count[k] = held[k] + Pending(k) + Extra(k) + IF k \in Creating THEN 1 ELSE 0
  /\ Live(Program) =>
       refs.count[Program] = held[Program] + Cardinality({k \in Kernels : Live(k)} \ Creating)
  /\ Live(Context) =>
       refs.count[Context] = held[Context] + Cardinality({o \in {Program} \cup Buffers : Live(o)})

\* Nothing is used that was freed: a queued command finds its buffers and its
\* kernel, an unmap (which retains nothing) its buffer too and to its last step,
\* a sub-buffer the memory of its parent, a kernel its program, and all of them the context.
NothingDangles ==
  /\ \A i \in DOMAIN queue :
       /\ \A j \in DOMAIN queue[i].buffers : Live(queue[i].buffers[j])
       /\ queue[i].kernel # Null => Live(queue[i].kernel)
  /\ \A t \in Threads : edit[t].at # "none" => Live(edit[t].of)
  /\ \A b \in Buffers : Live(b) => Live(Context) /\ (parent[b] = Null \/ Live(parent[b]))
  /\ \A k \in Kernels \ Creating : Live(k) => Live(Program)
  /\ Live(Program) => Live(Context)

\* As the comment in clReleaseMemObject says, a buffer is deleted when the
\* client and the commands are through with it and its sub-buffers are deleted;
\* but one that was mapped, or is on two devices, never is, and one whose
\* sub-buffer gives up the last reference neither.
Due(b) == held[b] = 0 /\ Pending(b) = 0 /\ \A s \in Subs(b) : ~Live(s)
DeletedWhenDue ==
  \A b \in Buffers \cap made :
    /\ b \in refs.freed => Due(b)
    /\ Due(b) /\ MapsOf(b) = {} /\ Subs(b) = {} /\ Extra(b) = 0 => b \in refs.freed

\* Two unmaps that are queued or at their delete do not remove the same mapping,
\* and each finds its own still listed; and when no map or unmap is queued or
\* executing, map_count is the number of mappings.  But not where the client has
\* had the buffer mapped at one address twice: an unmap still queued is then found
\* again; nor where two threads changed the list, or the count, at once.
MappedOnce(b) == \A a \in Addresses : Cardinality(MapsAt(b, a)) < 2
UnmapsTheirOwn ==
  \A b \in Buffers \ torn : MappedOnce(b) =>
    LET unmaps == {i \in DOMAIN queue : queue[i].kind = "unmap" /\ queue[i].buffers[1] = b}
        deleting == {t \in Threads : edit[t].at = "delete" /\ edit[t].of = b}
    IN  /\ \A i \in unmaps : queue[i].map \in ToSet(mappings[b])
        /\ \A t \in deleting : edit[t].value \in ToSet(mappings[b])
        /\ \A i, j \in unmaps : i # j => queue[i].map # queue[j].map
        /\ \A i \in unmaps, t \in deleting : queue[i].map # edit[t].value
        /\ /\ \A i \in DOMAIN queue : queue[i].kind # "use" => queue[i].buffers[1] # b
           /\ \A t \in Threads : edit[t].of # b
           /\ b \notin miscounted
           => mapCount[b] = Len(mappings[b])

\* Once no thread is in a call on a kernel, the list holds the kernels that
\* live and no other; unless two threads ever were at once.
Listed ==
  {k \in Kernels : \A S \in SUBSET Kernels :
     head \in S \cup {Null} /\ (\A x \in S : next[x] \in S \cup {Null}) => k \in S}
KernelsListed ==
  ~raced /\ (\A t \in Threads : call[t].at = "idle") => Listed = {k \in Kernels : Live(k)}
=============================================================================
