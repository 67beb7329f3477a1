# PePCoRA: a verification project

PePCoRA runs OpenCL programs on a Zynq: a host program calls pocl 0.11, patched
with a device `zynq_basic` that drives image filters in the FPGA through one
Linux character device per AXI port. This directory holds TLA+ modules
translated from that code, TLC runs that check them, and TLAPS proofs about
them.

Paths below are relative to `src/`; `CL/` stands for
`pocl-0.11-zynq/lib/CL/`.

## 1. The system

### Components, their state and their operations

| Component | State | Operations | Module |
|---|---|---|---|
| Command queues and events (`CL/clFinish.c`, `CL/pocl_util.c`, `CL/pocl_mem_management.c`, `CL/cl{Enqueue*,Release*,Retain*,WaitForEvents,Flush}.c`) | the list of commands of each queue, a lock and a reference count per object, event status, the pool of free event cells | enqueue, flush, finish, wait, execute, retain, release, callback | `CommandQueue` |
| Zynq device and drivers (`CL/devices/zynq_basic`, `linux_driver`) | per port: the argument list of the driver, its DMA buffers, the registers, the running filter, its line buffer | open, release, argument ioctls, write, read, start, poll | `ZynqBasic` |
| Buffer allocator (`CL/devices/bufalloc.c`, `CL/devices/pthread/pthread.c`) | regions, each a list of chunks with 64 descriptors | allocate (append, reuse, grow), free, coalesce | `BufAlloc` |
| Kernel launch and work-group distribution (`CL/clEnqueueNDRangeKernel.c`, `CL/devices/pthread/pthread.c`) | the sizes of a launch; the slice of groups of each worker; the pool of `thread_arguments` | choose and check the local size, split, create, run, join | `NDRange` |
| Memory objects, programs, kernels, contexts (`CL/cl{Create,Retain,Release}*.c`, `CL/clEnqueue{Map,Unmap}*.c`) | reference and map counts, mappings, the link from sub-buffer to parent, the list of a program's kernels | create, retain, release, use, map, unmap | `Objects` |
| Checks of a copy (`CL/clEnqueueCopyBuffer.c`, `CL/pocl_util.c`) | none: a function of sizes, offsets and addresses | bounds, overlap | `Transfers` |
| Compiler cache (`CL/clBuildProgram.c`, `CL/pocl_llvm_api.cc`, `CL/devices/common.c`, `CL/devices/basic/basic.c`) | the files of a cache directory, shared by processes; the loaded functions of a process and their lock | build, compile, generate, link, load, release | `KernelCache` |
| Platforms and device discovery, compiler passes, kernel library, other devices, HLS translator, designs, build | see `PROJECT.json` | | not modelled (section 7) |

### How they interact

A host thread calls the OpenCL API. Enqueueing builds a command, gives it an
event from the pool, takes a reference on the queue and on the buffers and the
kernel it uses, and links the command in the queue. Nothing runs in the
background. A command executes only inside `clFinish`, on whichever thread
called it, and `clFlush`, `clWaitForEvents`, a blocking enqueue, and
`clReleaseCommandQueue` all end in `clFinish`. `clFinish` follows the wait
lists from queue to queue, moves commands that are ready to a list of its own,
unlocks, and then `exec_commands` calls the device for each, in order, and
releases what the command retained. After a command has run, its callbacks are
called, and an event the client never asked for is released there and then.
That release releases the queue, which flushes it: `clFinish` runs again inside
`exec_commands`.

Building a program and enqueueing a kernel write files to a cache directory
that is named after the source and shared by every process. Just before a
kernel is executed `check_compiler_cache` links and loads it, or finds it among
the functions the process has loaded.

For a kernel on `zynq_basic`, executing a command is `pocl_zynq_basic_run`:
three argument ioctls per port, then for each row a write, a flag and a start
per port, a poll loop over all ports, and a read per port. The filters run at
the same time as the host. On the pthread device, executing a kernel splits
its groups over worker threads, which allocate and free local buffers with the
allocator.

### Which behaviours are hard

- **Re-entry and order.** `clFinish` is re-entered while an outer call still
  has commands to execute, and accepts a prerequisite that is only SUBMITTED.
- **Lists edited without their lock.** `clFinish` locks the queue it was called
  on, and unlinks commands from other queues; the kernels of a program are
  linked half outside its lock, and unlinked without it; `exec_commands` takes a
  mapping off its buffer's list, and counts mappings, without the buffer's lock.
- **Reuse.** Event cells and `thread_arguments` come back from a pool while
  commands and workers may still name them; an object is freed when its count
  says so.
- **Waiting.** The loop of `clFinish` ends only when its queue is empty; the
  loop that chooses a local size only when it is small enough.
- **Polling several devices.** The host reads a status that reading clears,
  and adds up the answers of all ports.
- **State kept between launches.** The driver's arguments are appended and
  found by position; loaded functions are found by the name of a directory.
- **Steps of an allocation.** An allocation takes the region's lock once per
  step, and buffers are freed between the steps.
- **Evaluation order.** The merge of free chunks reads a link that the inner
  call may clear.
- **Files without locks.** Threads and processes create, write, read and
  remove the same files, and may stop between any two steps.
- **A lock initialised in use.** A thread that finds no function loaded
  initialises the lock of the loaded functions, which another may hold and a
  third may sleep on.
- **Widths.** The number of groups goes through an `int`, the size of a region
  through a `size_t` that may wrap.

Every such place is in `PROJECT.json` under `hazards`, with its line and the
properties that would show it going wrong, or why no property covers it.

### What makes each component correct

- Queues and events: commands execute once, in an order that respects queues
  and wait lists; a call that waits returns, and not before what it waits for
  has ended; reference counts are exact; nothing freed is used.
- Zynq device: the rows read back are the filter of the rows written and leave no
  gap; a launch ends; hardware never touches freed memory.
- Allocator: buffers are aligned and share no byte; nothing leaks; free
  neighbours merge; a fresh region has room.
- Kernel launch: a size the runtime chooses passes its own checks; each
  work-item is run once, before the launch returns; launches do not disturb
  each other.
- Objects: counts are exact, nothing dangles, and what is due is deleted.
- Compiler cache: a build succeeds whatever earlier ones left behind; no file
  is taken for whole that is not; what runs is what was built.

## 2. Modules

```
OrderedExecution   BufferHeap    WorkGroups       abstract: what is promised
      ^ refines       ^ refines      ^ refines
CommandQueue       BufAlloc      NDRange        ZynqBasic   Objects   KernelCache   Transfers
      ^ EXTENDS, one MC module each, except Transfers: instances for TLC
      ^ EXTENDS: CommandQueue_proofs <- OneThread_proofs, OrderedExecution_proofs,
                 BufAlloc_proofs, NDRange_proofs, ZynqBasic_proofs, KernelCache_proofs,
                 Objects_proofs (with Transfers): TLAPS proofs
```

`PROJECT.json` gives, for every definition that models code, its file and
lines. The modules share no variables: each takes from its neighbours only
what they promise. `CommandQueue` executes a command in one step where
`ZynqBasic` and `NDRange` say what that step does; `Objects` takes the queue as
a list in order, since it asks only what commands retain and release; a build
in `KernelCache` and a launch in `NDRange` meet in the loaded function.

### CommandQueue

A thread is modelled by its call stack, as a sequence of steps it has still to
take, the next one first. A client call pushes steps; a runtime action takes
the top step and replaces it. So `clReleaseEvent` inside `exec_commands`
pushes the flush, the release of the queue and the recycling of the cell on
top of the rest of the outer ready list, exactly where the C stack has them.

| State | Code |
|---|---|
| `root[q]` | `command_queue->root`, the list of nodes |
| `lock[q]` | `pocl_lock` of the queue while `clFinish` holds it; critical sections that call nothing are one action, enabled when the lock is free |
| `qrefs`, `quser` | `pocl_refcount`; how much of it the client owns |
| `event[e]` | an event cell: `status`, `queue`, `pocl_refcount`, number of callbacks, and, for the properties, which command it belongs to |
| `pool` | `mm->event_list` |
| `command[c]` | a `_cl_command_node`: queue, event, `event_wait_list` (`waits`), and the commands it was asked to wait for (`deps`, history) |
| `started`, `finished` | history: the device operation has begun, has ended |

Points the translation keeps because the properties depend on them:

- An enqueue is three steps: create (reads the tail of the queue without its
  lock), append (under the lock) and stamp QUEUED (after the unlock).
- The wait list of a command is the client's list plus the event of the
  command at the tail of its queue.
- Recycled event cells keep their old status until the stamp.
- `Scan` looks at the node at the root of the queue at hand. Of the wait list
  it takes the *last* unacceptable event and moves to that event's queue.
  COMPLETE and SUBMITTED are acceptable.
- `Submit` does the unlinking, without the lock of the queue at hand.
- The assertions of `POCL_UPDATE_EVENT_*`, and a NULL root in `Submit`, set
  `aborted`, and the process stops.

The client is legal: it names only queues and events it has a reference to.
The constant `Client` lists which features of the API it uses, so that a run
can say for which clients a property holds. `"release_event"` and
`"early_release"` differ in whether a released event may still be waited for
by a queued command; OpenCL allows both.

### ZynqBasic

One action per system call of `pocl_zynq_basic_run`, with the driver's handler
inside it, and two actions per filter: `Load` takes the row the register
points to into the line buffer, `Store` computes, writes the result and raises
done. A row of pixels is the pair of its launch and its number; a filtered row
is the sequence of rows that were under the mask, so the properties can tell
whether the right data went through. `args`, `dma` and `regs` are separate
because the code keeps them separately: the driver finds a buffer by the
position of the argument in its list, the filter by the address in its
register. `dma_alloc_coherent` may fail; the host ignores that, and the next
`write` goes through a NULL buffer, which is the step `"oops"`. The kernel then
ends the process, which closes the devices. `left` is a history variable: the
ports whose filter the host has not waited for, because it left a poll before
they answered, or was ended. The properties about data and memory speak of the
other ports: what the code gets right although it leaves some behind.

### BufAlloc

A region is its chunks in address order with the number of unused descriptors.
Regions lie at multiples of `Stride`, where `posix_memalign` puts them.
Allocation is a job with steps `append`, `reuse` and `grow`, for each region in
turn, because the allocator holds only its own lock between them and `Free`
takes only the region's. `Freed` is `free_chunk` with both merges;
`nextReadFirst`, chosen once in `Init`, is the order in which the compiler
evaluates `coalesce_chunks (chunk->prev, chunk)` and `chunk->next`, which C
leaves open and a build fixes.

The code is compiled only with `CUSTOM_BUFFER_ALLOCATOR`, which CMake defines
by default and the `config.h` in the repository does not.

### NDRange

A host thread takes a launch from `clEnqueueNDRangeKernel` through
`pocl_pthread_run`; queueing in between is `CommandQueue`'s. `Shrunk` is one
turn of the loop that chooses a local size, with its three rules in their
order. `Split` reads the number of groups in x through an `int` of `IntBits`
bits (`ToInt`), and every slice is computed from that number (`GroupsX`), the last
one's remainder included. A number that becomes zero or negative leaves no thread at
all, and the code divides by zero; one that becomes a smaller positive one leaves
groups that nobody runs (`Cut`). The product of the local sizes wraps at
`SizeModulus`, as `size_t` does (`Product`).
`Create` takes a `thread_arguments` from the pool, fills it and creates the
worker; `Begin`, `RunGroup` and `Exit` are `workgroup_thread`, whose loops keep
the first group of the slice apart from the group id they overwrite. `ran` is
a history variable: how often each group of each launch was run.

### Objects

Calls that only count, under the lock of what they count, are one step each. Calls on
the list of a program's kernels take a step per access, since the list is linked half
outside the lock (`CreateKernel`, `LinkOthers`) and walked and unlinked without it
(`Walk`, `Unlink`). A counted object is freed in the step that takes its count to zero,
with what that releases: `MemReleased` releases the parent and the context with
the bare decrement, as the code does, and not with the call that would free
them. A map appends its mapping when it is enqueued, an unmap looks it up then, both under
the buffer's lock. What they do when they execute, without it, is a step per access
(`edit[t]` is what thread `t` has still to do): a map reads `map_count`
(`ExecuteMap`) and stores it plus one (`StoreCount`); an unmap comes to its mapping
(`ExecuteUnmap`), deletes it and reads the count (`Delete`), and stores that minus one
(`StoreCount`). The list itself is a sequence, without its `prev` and `next`: what two
threads leave when they change one list at once is not kept. Instead `torn` is the
set of buffers to which that has happened, and `miscounted` those whose count two
threads changed at once; they stay in it, and the properties that need the list or the
count except them. `held` is what the client owns; a legal client uses and releases
only that.

### KernelCache

An actor is a program object and one launch of its kernel, by one thread. Four files
matter: `program.bc`, `parallel.bc`, the object file and the shared object. Each is
there or not, whole or not, and has the version of the headers it was made from.
Creating a file, writing it and closing it are separate steps, so another thread or
process may find it in between; whoever has it open completes the file it created even
if the name was removed (`Written`). `O_CREAT | O_EXCL` is what makes one actor the
builder. `Codegen` opens the object file, which truncates it, before it reads
`parallel.bc`; `WriteObject` then writes and closes it, and `StartLink` needs it whole.
The asserts of `llvm_codegen` and the abort of `check_compiler_cache` end the process
(`Dies`); `Crash` ends it from outside. The lock of a process is a word, as a mutex is:
0 free, 1 held, 2 held and somebody may be asleep; `asleep` is who sleeps. Unlocking
wakes one sleeper if the word says that there may be one. `InitLock` is the unguarded
initialisation: it zeroes the word, so that it is free whoever holds it and later
unlocks do not know of those asleep; the history `stranded` is who slept on it then.
`mode` says whether the source is cached, has an `#include`, or the cache is off.

### Transfers

The arithmetic of `pocl_buffers_boundcheck` and `pocl_buffers_overlap` in
`size_t`, which wraps at `Modulus`, without state. Nothing here runs: what it
guarantees is proved.

### Abstract specifications

`OrderedExecution`: commands are issued to queues with prerequisites; the
operation of a command begins once, after everything before it in its queue
and all its prerequisites have ended. `CommandQueue` maps `issued` to the queue
and `deps` of each command, and `started` and `finished` to themselves.

`BufferHeap`: aligned buffers that share no byte, wherever they are put.
`BufAlloc` maps `buffers` to itself, so each allocation and each free of the
detailed specification must be one of the abstract heap, and every internal
step a stutter.

`WorkGroups`: a launch names a grid, each group of it is executed exactly once
in any order, and the launch returns when all have been. `NDRange` maps `ran`
to itself and `running` to the steps between the split and the last join, for
the launches that are not `Cut`: those the abstract launch knows nothing of.

## 3. Runs

Every run is exhaustive within its bounds. Deadlock is not checked in the runs
of `CommandQueue`, `BufAlloc`, `NDRange`, `Objects` and `KernelCache`, since
their clients use up the bounds and stop (and a process may die); it is checked
in `zb_*`, where a process can always close or reopen the devices.

| Run | Instance | States | Checks |
|---|---|---|---|
| `cq_mixed` | 1 thread, 2 queues, 3 commands, 1 callback per event, implicit events, cross-queue waits, releases, enqueueing callbacks | 2.0 M | `AssertsHold`, `HeldOnce`, `PooledEventUnused`, `FreedQueueUnreachable`, `NoSelfDeadlock` |
| `cq_refs` | 1 thread, 1 queue, 3 commands, 2 client references, every counting, blocking and waiting call | 148 k | `TypeOK`, `QueueRefsExact`, `CallsReturn` |
| `cq_threads` | 2 threads with queues {q1, q2} and {q3}, 4 commands | 417 k | `FinishDrains`, `Implements` |
| `cq_nested` | 1 thread, 2 queues, 4 commands, implicit events | | finds `OrderKept` violated |
| `cq_early_hang` | 1 thread, 2 queues, 3 commands, early release | | finds `CallsReturn` violated |
| `zb_two` | 2 ports, 4 rows, mask 1, allocations that fail | 1.2 M | `TypeOK`, `AwaitedRowsRight`, `NoFreedBuffer`, `RowsWithoutGap`, `FlagWithFirstRow`, `LaunchEnds` |
| `zb_ports` | 2 ports, 4 rows, mask 3 | | finds `RowsRight` violated |
| `ba_all` | 2 regions of 6 to 8 bytes, 4 descriptors each, sizes 1, 3, 6 and 7, `size_t` modulo 32, alignment 2, both evaluation orders | 315 k | `TypeOK`, `RegionsTiled`, `ChunksAreBuffers`, `FreeChunksMerged`, `NewRegionHasRoom`, `ImplementsHeap` |
| `nd_launch` | 2 hosts, 5 ranges, 4 local sizes or none, 0 or 2 threads, groups of up to 3 items, 3-bit int | 283 k | `TypeOK`, `AutoSizeAccepted`, `EveryItemOnce`, `ArgsPrivate`, `LaunchEnds`, `ImplementsPromise` |
| `ob_all` | 2 threads, 5 objects and mappings (the context, a program, 2 buffers, 2 kernels to choose from), 2 references, 2 commands, 2 maps, 2 addresses | 1.3 M | `TypeOK`, `CountsExact`, `NothingDangles`, `DeletedWhenDue`, `UnmapsTheirOwn`, `KernelsListed` |
| `kc_all` | 3 threads of one process and 1 of another, 3 modes, 2 or 3 builds, 1 header edit, 1 crash | 253 k | `TypeOK`, `AloneSucceeds`, `WarmCacheSafe`, `PartialIsBeingWritten`, `CallsEnd` |
| `kc_stale` | 1 thread, 2 builds, 1 header edit | | finds `RunsWhatWasBuilt` violated |

### What the passing runs show

`cq_mixed` and `cq_refs`: with one host thread, whatever the client releases,
the bookkeeping never breaks: no assert fails, a command is in exactly one
list, an event cell in the pool is named by nobody, a queue is freed only when
nothing can reach it, counts are exact and calls return. This holds although
the order of execution does not (`cq_nested`): the two failures are separate.

`cq_threads`: threads that use queues of their own and keep their events share
only the event pool, and every interleaving of them implements the ordered
execution. `FinishDrains` says that a call that waits does not return early.

`zb_two`: a launch ends whatever the relative speeds of the filters, and
whichever allocations fail; done bits that are cleared by a poll that does not
look at them, and starts that are lost, do not stop it. A port the host has
always waited for returns exactly the filter of the rows written, however far
behind the other port is; as many rows as the image has are read back, one
after the other; and no filter the host waited for is left with a freed buffer.

`ba_all`: every free between every two steps of an allocation leaves the
regions tiled, and the allocator implements the heap, in whichever order the
compiler evaluates the merge. Free neighbours merge in one of the two orders. A new
region has room unless it has exactly the buffer's size, which it gets in two cases:
a larger one could not be allocated, or its size wrapped.

`nd_launch`: the slices of the threads, the loops of each worker and the join
make each work-item run exactly once before the launch returns, also where the
remainder goes to the last thread. Where the count of groups does not fit an `int` the
process ends by a division by zero, if the `int` is not positive; if it is, the launch
returns with groups not run, which the properties except (`Cut`, section 4). Two
launches that share the pool never share arguments.

`ob_all`: through every order of creating, retaining, releasing, enqueueing,
executing, mapping and unmapping, counts are exact, nothing freed is used and
what is due is deleted, up to what the code never gives back and the
properties name: a reference per map, per further device, and the last one of
a parent that its sub-buffer held. Maps and unmaps of one buffer that execute on two
threads, in steps that take no lock, free nothing that is used; an unmap deletes its
own mapping, and `map_count` comes out right, as long as the threads do not change the
list, or the count, at once.

`kc_all`: an actor that has the directory to itself succeeds, whatever earlier
failed builds, asserts or other modes left; on a warm cache any number may
build and launch at once; only a writer that is stopped leaves a partial file;
and every call ends, although the lock may be re-initialised under its holder, except
that of a thread that was asleep on it then.

### Bounds, and why they are enough

- *Commands*: 3 let one command wait on two others, or a recycled cell meet a
  waiting command and its own successor (`cq_early_hang` needs exactly 3); 4 are
  needed for the wrong order of `cq_nested`, and `cq_threads` uses 4.
- *Queues*: a wait across queues needs 2; the third queue of `cq_threads` gives
  the second thread one that nobody else calls on.
- *References*: 2 client references distinguish the release that frees from
  one that does not.
- *Wait lists* of the client have at most one event; with the event of the
  previous command the list of the node has up to two, which is what `Scan`
  distinguishes.
- *Ports*: the poll loop distinguishes none, some and all; 2 give all three.
  *Rows* and *mask*: `ImageHeight` over `Ports` plus `MaskHeight` rows per
  block, so that every block has rows before, at and after the latency.
  *Launches*: 1, since the properties speak of the first (section 4).
- *Regions*: 2 give the search a next region and a last one. *Descriptors*: 4, so that
  they run out while there is space. *Sizes*: one that is smaller than the alignment,
  one that is not a multiple of it, one that fills a region, and 7, five times which
  wraps at 32.
- *Ranges*: 3 by 2 has a remainder over 2 threads and a second row; 1 by 2 by 3
  further layers and a dimension that is no multiple; 4 groups are negative in the
  3-bit int and 9 are one, the two ways in which a count is cut; 0 is refused. With a group
  limit of 3 and a preferred multiple of 2 every rule of `Shrunk` is taken.
  *Thread counts*: 2 split, and 0 is what a device or the environment may say.
- *Objects*: 5 objects and mappings, so that a sub-buffer, its parent and a kernel's
  program, or two kernels of one program, exist together with the context, or a buffer
  with two mappings beside another buffer. *Maps*: 2, of one
  address or of two.
- *Actors*: three threads of one process are a holder of the lock, a sleeper and one
  that initialises it again; the fourth, in another process, meets them on the files
  alone. *Builds*: 3 where the cache is warm after the first; 2 where each build removes
  the files. *Crashes*: 1, at any step.

### Fairness

`CommandQueue`: weak fairness of the runtime steps of each thread. A thread
inside the runtime is an ordinary thread running C code: the scheduler runs it
unless it waits for a lock, and then the action is not enabled. It covers
callbacks, which must return. Nothing obliges a client to call.
`ZynqBasic`: weak fairness of the host while it is inside a launch (a process
the kernel ends is also closed), and of each filter, which is hardware that
finishes what it started. Nobody has to launch or close.
`NDRange`: weak fairness of each host inside a launch and of each worker
thread, which waits for nobody. Nobody has to enqueue.
`KernelCache`: weak fairness of each actor inside a call. A thread that finds the lock
held goes to sleep and is not enabled until an unlock wakes it; a woken one tries again,
and may find the lock taken again. With a bounded number of builds nobody takes it for
ever, so no fairness of the mutex is assumed. Nobody has to build or release, and
nobody has to crash.

## 4. Findings

1. `cq_nested` (`CL/clFinish.c:293`). Executing a command whose event is
   implicit flushes its queue in the middle of the outer ready list. The nested
   `clFinish` takes commands whose prerequisites are SUBMITTED in the outer list
   and executes them first. One thread, two queues, four commands.
2. `cq_early_hang` (`CL/clFinish.c:54`). A released event's cell is reused for a
   later command of the same queue while an earlier one still names it in its
   wait list. Each now waits for the other and `clFinish` loops for ever.
3. `zb_ports` (`CL/devices/zynq_basic/zynq_basic.c:910`). The poll loop leaves
   when any port is ready and then reads a row from every port.
4. `kc_stale` (`CL/devices/basic/basic.c:799`). A source with an `#include` is
   recompiled on every build, because its headers may have changed; but a
   second build in the same process still runs the function that the first
   launch loaded, since loaded functions are found by directory and name.

### Disagreements no run claims

Met while modelling, and either visible in a line or two, or without a doc,
comment or test that promises otherwise. The properties except each by name.

- A second launch on open devices (`linux_driver/.../fpgacl_device_driver_hp0.c:143`)
  appends its arguments behind the first ones; registers and list then
  disagree about the buffers. `AwaitedRowsRight` speaks of the first launch.
- Two threads that share a queue: a second `clFinish` finds the queue empty and
  returns while the first executes its commands (`CL/clFinish.c:92`).
  `FinishDrains` is checked for threads with queues of their own.
- Two threads that use one queue: an enqueue links its node under the queue's lock and
  sets the status to QUEUED after the unlock (`CL/pocl_util.c:394`). A `clFinish` of
  the other thread may take the node in between, and the assert in
  `POCL_UPDATE_EVENT_SUBMITTED` (`CL/pocl_cl.h:699`) ends the process; in the model it
  does in six steps. `AssertsHold` is checked and proved for one thread.
- `CL/devices/bufalloc.c:360`: whether free chunks merge depends on the order
  in which the compiler evaluates two arguments (`FreeChunksMerged`).
- The row loop of `pocl_zynq_basic_run` (line 783) goes one row past what the
  design's host program `designs/Vivado-hls/if/if_tb.cpp:76` processes, and
  never reads back row 6, the first full window there. `RowsWithoutGap` says that no
  row is missing in between, and not which rows come back.
- The assert at `CL/devices/pthread/pthread.c:363`, whose comment says the
  allocation cannot fail, does fail after the fallback to a region of exactly
  the buffer's size. It also fails, without any failed allocation, where the size of
  the region wraps and falls back to the buffer's: on the Zynq, whose `size_t` has 32
  bits, 32 times 128 MB is 0. `NewRegionHasRoom` shows it fails in no third case.
- The number of groups in x is cut to an `int` (`CL/devices/pthread/pthread.c:548`), and
  the slices are computed from that (line 564): where it becomes a smaller positive number
  the launch returns with groups that were not run. That takes a `size_t` wider than
  `int`. `EveryItemOnce` and `ImplementsPromise` except such launches (`Cut`).
- The product of the local sizes is checked against the limit in `size_t`
  (`CL/clEnqueueNDRangeKernel.c:230`) and may wrap: where it has 32 bits 65536 by 65536
  passes as a small group.
- A sub-buffer gives up its parent with the bare decrement
  (`CL/clReleaseMemObject.c:61`): a parent released before its sub-buffer is
  never deleted, nor its memory freed. The context is given up in the same way
  (line 63 and `CL/clReleaseProgram.c:62`). `DeletedWhenDue` excepts both.
- The reference a map takes (`CL/clEnqueueMapBuffer.c:81`) is never given back,
  nor those for each further device (`CL/clCreateBuffer.c:152`,
  `CL/clCreateKernel.c:89`): such objects are never deleted.
- Two unmaps of a buffer mapped twice at one address may both find the first
  mapping (`CL/clEnqueueUnmapMemObject.c:57`). `UnmapsTheirOwn` excepts it.
- Two threads that execute maps or unmaps of one buffer, or one that does while another
  enqueues one: the `DL_DELETE` in `CL/clFinish.c:211` and the changes of `map_count`
  there and in `CL/clEnqueueMapBuffer.c:175` are outside the lock under which the append
  (`CL/clEnqueueMapBuffer.c:130`) and the walk (`CL/clEnqueueUnmapMemObject.c:56`) run.
  They may lose mappings, bring a deleted one back, close a cycle, follow a NULL link or
  lose a count (which only `clGetMemObjectInfo` reads). `UnmapsTheirOwn` excepts the
  buffers to which this has happened.
- Two threads that create or release kernels of one program at once
  (`CL/clCreateKernel.c:134`, `CL/clReleaseKernel.c:44`) lose kernels from the
  list or follow freed ones. `KernelsListed` excepts such calls.
- On a cold cache threads and processes may end each other with the asserts of
  `llvm_codegen`, and a writer killed from outside leaves a partial file that no
  later build replaces (`CL/clBuildProgram.c:306`). `WarmCacheSafe`,
  `AloneSucceeds` and `PartialIsBeingWritten` say what holds around that.
- A thread asleep on the lock of the loaded functions while another one initialises it
  again (`CL/devices/basic/basic.c:793`) may sleep for ever: the unlocks that follow see a
  lock that nobody waits for. It takes three threads of one process on a cold cache:
  the holder, the sleeper and the one that initialises. `CallsEnd` excepts such threads.
- A local size with a zero from the client divides by zero
  (`CL/clEnqueueNDRangeKernel.c:244`).
- The three-dimensional bound check accepts a region that ends one byte past
  the buffer (`CL/pocl_util.c:549`, `>` for `>=` on the last byte's offset).
- The overlap check of two sub-buffers reads `mem_host_ptr`, which only buffers
  made with `CL_MEM_USE_HOST_PTR` have set (`CL/clCreateSubBuffer.c:125`), and
  a copy between a buffer and its own sub-buffer is not checked at all.
  `AcceptedCopySafe` assumes them away.

## 5. Proofs

### BufAlloc

`Inv` is inductive and everything said of the allocator follows from it:
**`AllocatorTypes`** (`TypeOK`), **`RegionsStayTiled`** (`RegionsTiled`),
**`ChunksStayBuffers`** (`ChunksAreBuffers`), **`FreeChunksStayMerged`**
(`FreeChunksMerged`), **`NewRegionsHaveRoom`** (`NewRegionHasRoom`) and
**`AllocatorKeepsHeap`** (`Spec => ImplementsHeap`). Its parts:

- `RegionsOK`: each region is where `posix_memalign` puts it, and its chunks are
  `Laid`. That is `Tiled` and two facts it needs: *every* two chunks are apart,
  not only neighbours (a merge makes neighbours of chunks that were not), and the
  sentinel starts aligned or right after the chunk before it (or else the chunk
  cut off its front would leave more than padding).
- `BuffersOK`: buffers and chunks in use are the same, by start address, no
  two with one start. Since no two chunks start at one address (`OneStart`), the chunk
  that `free_buffer` finds is the buffer's.
- `JobOK`: a new region stays untouched until the allocation it was made for
  ends. Frees run between its steps, but none can be of that region, which holds
  no buffer. So the assert fails only for a region of exactly the buffer's size
  (`NoRoomInv`).
- `Merged`: of two neighbours one is in use. A free makes one free chunk, so only
  its own two neighbours matter (`FreedKeeps`), in a build that reads
  `chunk->next` in time.

The chunk lists carry the weight: `MergeLaid`, `MergeApart` and `MergeInUse` say
what joining two neighbours keeps, `MarkedLaid` and `MarkedInUse` what setting or
clearing a flag keeps, `CoalesceKeeps`, `FreedKeeps` and `AppendedKeeps` put them
together for `coalesce_chunks`, `free_chunk` and `append_new_chunk`. The
refinement maps an append and a reuse to `Allocate`, a free to `Free` and every
other step to a stutter (`HeapStep`): that buffers share no byte comes from
`UsedApart`, within a region or across two, that they lie in the heap's memory
from where regions are placed.

### NDRange

**`ThreadArgumentsPrivate`** (`ArgsPrivate`). `ArgsInv` adds to the property that
the pool holds each of its `thread_arguments` once and only ones that exist
(`PoolInv`), and that every busy worker names one that exists (`WorkersInv`).
`Create` takes the head of a pool without duplicates, or a new one; `Exit` puts
back one that, by the property itself, was not in the pool.

**`ChosenSizeIsAccepted`** (`AutoSizeAccepted`) and **`LaunchTypes`** (`TypeOK`).
`HostInv` says, per step of a host, what its sizes are. While the code looks for a
local size, every dimension divides the global one: each of the three rules of
`Shrunk` keeps that (`ShrunkDivides`), and the loop ends only within the limits,
so the checks that follow accept the size. After the split, the threads and their
groups multiply to no more than there are.

**`EachItemIsRunOnce`** (`EveryItemOnce`), for launches that are not `Cut`.
`SlicesDisjoint` and `SlicesCover`: the slices of the threads partition the groups that
the `int` counts (`GroupsX`), remainder included; where the count is not cut these are
all the groups in x, and where it is they are some of them (`GroupsXTyped`). `WorkersOK`
says what a worker has read and where in its slice it is; `RanInv` that a group
was run once if its worker has passed it (`Passed`, the order of the three nested
loops) and not at all otherwise. At the return all workers have exited, hence
passed everything (`AllRun`), and each work-item is in exactly one group
(`OneBlock`).

**`LaunchesKeepPromise`** (`Spec => ImplementsPromise`). A split begins the
abstract launch, `RunGroup` executes a group that by `RanInv` was not executed
before, the last join returns; everything else is a stutter, and so is every step of a
launch that is cut (`KeptOf`).

### ZynqBasic

**`ZynqTypes`** (`TypeOK`) needs `Phases`: the row loop stays in its range, and
reads back only from the row where a filter is full.

**`NoBufferFreedUnderFilter`** (`NoFreedBuffer`). `ArgsInv`: a driver's argument list is
as long as the arguments the host has got through (`Given`), and the registers
point into its list of DMA buffers if no allocation failed. `FilterInv`: a filter
the host has not left behind runs only between its start and the end of the poll.
So at `Close`, which frees, none runs.

**`RowsReadWithoutGap`** (`RowsWithoutGap`). `ReadBack` says how far each port has come
(`Reach`) and that every row up to there was read. `BlocksTile`: the last block that
starts at or above a row reaches it, whether or not the ports divide the image height
(the code's 5 divide its 1080): the division drops a remainder, and the overlap of the
blocks makes up for it. The theorem says that as many rows as the image has, one
after the other, were read back, and not that the first is the one the design's host
program starts with (section 4).

**`AwaitedRowsAreRight`** (`AwaitedRowsRight`) and **`FlagComesWithFirstRow`**
(`FlagWithFirstRow`). `FirstBuffers` says that in a first launch list, registers
and buffers agree. `RowOK` says what is in the input buffer, the flag register,
the line buffer and the output buffer of a port at each phase of a row: waiting,
written, flagged, started, loaded, finished, answered. Rows are then induction
over the launch: a filter's window is full when its first result is read
(`FullWindow`).

### CommandQueue and OrderedExecution

**`QueueTypes`** (`TypeOK`). `TypeOK` is inductive. It
says more than types: no queue, ready list, wait list or pool names a command
or a cell that does not exist, and every stack is a sequence of well-formed
steps, where steps that need a command (`submit`, `complete`, `release`) have
one. The sets of commands and events grow with `Enqueue`, so the argument has
two parts: `TypedWithoutEnqueue` for the actions that leave them alone, and
`TypesGrow` with `EventCreated` and `CommandCreated` for the one that does not.
One lemma per action then says what is left of its top step (`ScanTyped`,
`SubmitTyped`, ...), and `TypeStep` collects them.

**`NoThreadDeadlocksItself`** (`NoSelfDeadlock`). The property is
not inductive: it speaks of the top step only, and below it on the stack may be
anything. `LockInv` says that a lock is held only by a thread whose *top* step
is in the loop of `clFinish` on that very queue. Since that thread's top step
is not one that asks for a lock, the property follows. The invariant holds
because `UnlockQueue` comes before `exec_commands`, so nothing below the top
ever holds a lock: that is why the re-entry is safe.

The next eight theorems are in `OneThread_proofs` and assume one host thread
(`Threads = {t}`), with any number of queues, commands and references and any
client: releases of events that commands still wait on, nested enqueue calls,
callbacks; only the last three ask more of the client. One thread is where these
properties hold without further conditions: with two threads on one queue
`clFinish` returns while the other still executes (section 4), and an event cell
released early may come back with another thread's queue, to which a command that
still waits on it then leads its own thread. The proofs read the stack from its
oldest step up (`Level(t, l)`), so that what happens on top leaves the levels below
alone; `Pushed`, `Replaced` and `TopLeaves`, in `CommandQueue_proofs` because they
hold for any number of threads, say so once.

**`CommandsHaveOneHome`** (`HeldOnce`). `HomesOK` states the property list by list: no
list holds a command twice, no two lists share one, each unfinished command is in
one. It needs `StackOK`: a loop of `clFinish`, an append and an execution are only
ever on top, and the command a `submit` step adds to the ready list is the head of the
queue at hand. From there every action moves one command from one list to another
(`HomesEnter`, `HomesLink`, `HomesTake`, `HomesDrop`) or none (`HomesKept`).

**`FlushesFinishWhatIsDue`** (`FinishDrains`). `Reaches(t, f, c)`: the flush whose step
is `f` still has `c` before it, in its queue, its ready list or the rest it
executes. `DueOK`: what a flush owes has ended or is reached by *its own* level,
whatever is on top. A nested flush may take commands away only from the queue of
a flush that has not begun, and `NestOK` says there is none below the top, except
under the enqueue call that will block on it. At the return a flush reaches nothing.

**`StatusMacrosHold`** (`AssertsHold`). `CellsOK`: an unfinished command
and its event cell name each other; who owns the references depends on whether the
client asked for the event. `PoolOK`: the cells in the pool belong to
commands that have ended and been released, and a cell about to be recycled to one
that the flush above it will have finished (`Covered`). That is why a client
may release an event early without another command getting its cell.
`StatusOK` then reads the status off the place: `QUEUED` in a queue (once it is
stamped), `SUBMITTED` in a ready list, `RUNNING` while it executes.

**`QueueCountsExact`** (`QueueRefsExact`). `RefsOK` counts what will release the
queue: the client's references, its live events (a finite set's cardinality)
and the levels of the stack that stand before `unref` (`Unrefs`). `UnrefsCounted`
is the bijection between those levels and the positions the property counts. A
step moves one owner at a time: a recycled event becomes a release under way
(`Frees`), or is handed on by the level below it (`RefsPassOn`).

**`QueuesFreedLast`** (`FreedQueueUnreachable`). A count says how many own the queue,
not that whoever is inside it does. `AnchorsOK` says the latter: under every flush of
a queue lies something that keeps it, a reference that the client must still hold
while it is inside the call, or the release step right below. `FreedOK`: the
event of an unfinished command is freed only under a release of its queue, whose
flush comes first. With `RefsOK`, a count of zero leaves no anchor.

**`PooledEventsUnused`** (`PooledEventUnused`). For a client that keeps the events
its commands wait on. `WaitsOK`: an event that a queued command waits on is kept by the
client, or belongs to the queue it is in and, where it is about to be recycled, the
flush above that step still reaches the command. So it is recycled late enough.
The hypothesis (`early_release` is not in `Client`) is that of run `cq_mixed`:
with it, the cell of an event may be given to a later command while an earlier one
still waits on it, which is how run `cq_early_hang` ends.

**`OneThreadImplements`** (`Spec => Implements`) and **`OneThreadOrder`**
(`Spec => []OrderKept`). For a client that asks for the event of every command:
`implicit_event` is not in `Client`. Releasing an event that the client never saw
enters a flush in the middle of another one, and that inner flush runs
commands past the ones the outer one still holds: run `cq_nested` shows the order broken
with one thread, and these theorems say that nothing else breaks it, whatever wait lists
cross queues, calls block, callbacks enqueue and events are released early.
`OneFlush`: without such releases at most one level of the stack is a flush.
`FlowsOK`: what that flush has taken and not yet released (`Flow`) is in order: what
a command comes after has ended or is earlier in the list. A step goes on with the
same list, drops a command that has ended, or takes one more (`FlowGoes`); the one it
takes is the head of a queue that is in the order of the calls (`RootsOrdered`), with
no wait left, and `TakenInOrder` shows that everything before it has been
taken: what its wait list names has the status of a command that left its queue
(`DepsKnown`, `StatusOK`). `StartedOK` makes a command begin once. `ExecutionStep` then
maps each step: an enqueue call issues, `StartCommand` starts, `CompleteCommand`
ends, and the others stutter.

**`OrderedExecutionKeepsOrder`** (`Spec => []OrderKept`, `OrderedExecution`). The
abstract specification keeps the order it stands for, with `OrderedTyping`
below it. With `Implements` (proved for one thread, run `cq_threads` for threads
that share no queue), it says what the runtime promises.

### Objects

The proofs are in `Objects_proofs`. A call frees an object, with all that this
releases, in one step; so most lemmas speak of values before and after, not of
steps. `Sound(c, L, u, pa, mp, cr)` relates the counts `c`, the living objects `L`,
what the client and the queue use (`u`), the parents `pa`, the mappings `mp` and the
kernels being created `cr`: each count is exactly what there is to count, and whatever
is used or counted lives. The lemmas (`SoundRetain`, `SoundMap`, `SoundMemRelease`,
...) say which values one retain, map or release leads to, and `HitsAppend`,
`HitsTail` what an enqueue and an execution change in the queue: one place, so no
count over it needs induction.

The inductive invariant is `CoreOK`. `CountsOK`, which is `Sound` of the state, is
not inductive alone:

- `MadeOK`: a parent was made, and no buffer is its own. So a new object is one that
  nothing counts yet.
- `CallsOK`: a call on a kernel has it to itself, with count 0 once it is walked to. Else
  two threads inside `clReleaseKernel` could free one kernel, and its
  program's count, twice.
- `QueueOK`: a queued map or unmap names a mapping of the one buffer it retained. So
  executing it changes that buffer's list and releases that buffer, no other.
- `EditsOK`: a thread that executes a map or an unmap is at a buffer that was mapped.
  Such a buffer is never freed, since nothing gives back the reference of a map; so
  the buffer is there for the steps after its release.

From it: **`ObjectsTyped`** (`TypeOK`), **`CountsBalance`** (`CountsExact`),
**`NothingFreedIsUsed`** (`NothingDangles`), **`BuffersDeletedWhenDue`**
(`DeletedWhenDue`). The last needs that a count's last release is seen: a
living buffer without sub-buffers has a count of at least 1, so whatever takes the
count to 0 is a call that then frees it.

**`UnmapsFindTheirOwn`** (`UnmapsTheirOwn`), for the buffers whose list or count no two
threads changed at once. `ListsOK`: the list of a buffer holds some of its mappings,
each once. `NumbersOK`: they are as many as `map_count`, or what the thread that is
changing it is to store, and the maps still queued add up to (`Balanced`). `UnmapsOK`,
for a buffer that was mapped once at each address: every queued unmap, and the one
thread that may stand before its `Delete` (`Deletes`), names a listed mapping of its
own, at an address that was unmapped. So the mapping that `clEnqueueUnmapMemObject`
finds by address is not one an earlier unmap still under way has found. The conditions
only ever go away, so what is proved of a buffer is proved from its first mapping on.

**`ListHoldsTheLiving`** (`KernelsListed`). `Lists(h, n, K)`: from head `h` the links `n`
go through the kernels of `K`, each once, and end. `ListOK`, while no two threads were in
such calls at once: the list is that of the living kernels; inside `clCreateKernel` it is
that once the new kernel's link is set; inside `clReleaseKernel` the walk stands on
a living kernel in front of the one it looks for (`PlaceOf`). `ListsPush` and
`ListsCut` make the new list; `ListsReach` equates it with the set that the property
defines as least (by the least position that a smaller set would miss).

**`FreedMemoryUntouched`**. `Intact`: `corrupt`, which the model sets where the code
would read or write freed memory or unlink a mapping that is not linked, is only ever
set after two threads were in calls on kernels at once, after two threads changed one
buffer's list of mappings at once, or after a buffer was mapped twice at one address.
Section 4 names all three; the theorem says there is no fourth way. `KernelsListed` and
`UnmapsTheirOwn` except just these, and lost counts.

### KernelCache

**`TypeCorrect`** (`TypeOK`), three parts of which only hold together: `Typed`;
`ModuleKnown`, whoever stands where it writes a file from its module has one;
`FunctionKnown`, a launch that ran called a function that was loaded.

**`PartialFilesAreBeingWritten`** (`PartialIsBeingWritten`). The property only says
that the creator of a partial file is writing *something*; `PartialOwned` says where
it stands for each file, which is what a step of that actor, or of another that
removes or replaces the file, preserves. `WriterPlaces`, `OthersStay` and `Kept`
carry the actions that do not touch a partial file.

**`WarmCacheIsSafe`** (`WarmCacheSafe`). `WarmInv`: an actor that started from
complete files stands only at steps that write nothing, and so does every other
that is not done; so the files stay complete, and each of its steps finds
what it needs. Nothing is assumed of what came before the files were complete.

**`AloneRuns`** (`AloneSucceeds`). `AloneInv`: while nobody overlaps it, an actor has
not failed, and each file that its next step opens is there (`Cleared`); that the
file is whole comes from `PartialOwned`, since nobody else writes. A partial file
left by a crash (`torn`) is the exception the property names.

### Transfers

**`AcceptedCopySafe`**, in `Objects_proofs`. For buffers smaller than half the address
space, a copy that is accepted stays in bounds and reads no byte that it
writes: each sum that may wrap is shown not to, from the bounds checked before.

### Assumptions

All proofs are for every value of the constants. What is assumed of them is named
in the modules, and TLC evaluates it in every run:

- `ObjectsAssumption`: bounds are positive; buffers, kernels, the program, the context
  and `Null` are apart.
- `ClientAssumption`, `RangeAssumption`, `ZynqAssumption`, `CacheAssumption`,
  `RegionAssumption`: bounds are natural numbers, sizes and moduli positive, tables have
  their types. A region has at least 2 descriptors (64 in the code) and is asked for with
  at least twice the buffer's size (32 times in the code): with 1 for either a new region
  could be full from the start.
- `PowerAssumption`: the width of `int` and its modulus agree. `NoneAssumption`:
  "no file" is not a file.
- `PlacementAssumption`: no region is larger than the distance at which the model
  places regions. It stands for `posix_memalign`, which never hands out memory twice.
- `AddressAssumption`: the address of a region plus a size does not reach `Modulus`. The
  top of the address space is the kernel's, and a buffer is at most a quarter of the
  memory (`CL/clCreateBuffer.c:112`); if such a sum could wrap, the test for space at
  the end of a region (`bufalloc.c:97`) would accept a chunk that is too small.
- `LayersAssumption`: the groups in y and z are counted in an `unsigned int`, which they
  fit.

### Only model-checked, and why

- Liveness (`CallsReturn`, both `LaunchEnds`, `CallsEnd`): out of the prover's
  reach.
- The properties of `OneThread_proofs` for several threads with queues of their
  own: proved for one thread, checked for more.
- The violations: a counterexample is all they need.

## 6. Plan

Done: the modules above, with their runs and proofs. Worth doing next, in this
order:

1. The theorems of `OneThread_proofs` for several threads that share only the event
   pool.
2. The first calls that race to initialise the memory manager, the devices and
   the argument pool: three flags, each tested without a lock.
3. Composition of `Objects` with `CommandQueue`: what a command retains is
   released on whichever thread finishes it, possibly in a nested `clFinish`.

## 7. Not modelled, and why

- Out-of-order queues and barriers: creating the first is refused, executing
  the second aborts. Profiling times, logging and debug builds
  (`POCL_IMPLICIT_FINISH`).
- The walk of `pocl_create_command` over a list another thread is editing: one
  atomic read here. The memory of a wait list the client frees.
- First calls that race to initialise: every module begins after them.
- The drivers of ACP, HP1, HP2 and HP3: copies of HP0's but for names and log
  messages. `ZynqBasic` has one per port, translated from HP0's.
- Threads that run the Zynq device at the same time, a second process, power
  monitoring. Termination of the process inside a launch leaves the hardware
  writing to freed memory (see the hazard at `hp0.c:362`), and no doc promises
  otherwise.
- `create_sub_chunk` and the tight allocation strategy, which no code uses; the walk of
  `free_buffer` over the list of regions while another thread appends one, which sees
  the buffer's own region in either case.
- `pocl_llvm_codegen` takes no compiler lock, so it may use LLVM's global context beside a
  build in another thread; two holders of a lock that was initialised in use may both append
  to the list of loaded functions. Undefined behaviour in a library in the first case; the
  second is a set in `KernelCache`.
- The arguments of a kernel (`clSetKernelArg` copies values), required work-group
  sizes and global offsets, images and rectangles, programs made from binaries,
  several kernels in one cache directory.
- The compiler passes, the kernel library, the HLS translator, the hardware
  designs: their correctness is the meaning of programs or numerical accuracy,
  and they keep no protocol state. They are also nearly all of the repository's
  lines. The basic, TCE and Cell devices: sequential, or in need of a simulator
  that is not in the repository.
- Building, scripts, examples and tests: read for what they say the program
  does.
