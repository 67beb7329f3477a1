---------------------------- MODULE CommandQueue ----------------------------
(***************************************************************************)
(* Command queues and events of the pocl runtime (pocl-0.11-zynq/lib/CL).  *)
(*                                                                         *)
(* Host threads enqueue commands, finish queues, wait for events and drop  *)
(* references.  Nothing executes in the background: commands run inside    *)
(* clFinish, on the thread that called it.  A thread is modelled by the    *)
(* stack of steps it still has to take (its call stack), because executing *)
(* a command may release an event, which flushes that event's queue, which *)
(* is clFinish again.                                                      *)
(*                                                                         *)
(* The constant Client says what the client program does, all of it legal  *)
(* OpenCL; the runs use it to say under which client behaviour a property  *)
(* holds.                                                                  *)
(***************************************************************************)
EXTENDS Integers, Sequences, FiniteSets, SequencesExt

CONSTANTS
  Threads, Queues,
  MayUse,          \* [Threads -> SUBSET Queues]: the queues a thread calls on
  MaxCommands,     \* bound: commands created in a behaviour
  MaxReferences,   \* bound: client references to one event or queue
  MaxCallbacks,    \* bound: callbacks registered on one event
  Client,          \* what the client program does, see ClientFeatures
  NoThread

ClientFeatures ==
  {"blocking",       \* blocking enqueue calls
   "wait",           \* clWaitForEvents
   "implicit_event", \* event = NULL in some enqueue calls
   "cross_wait",     \* wait lists that name events of other queues
   "retain",         \* clRetainEvent, clRetainCommandQueue
   "release_event",  \* clReleaseEvent on events no unfinished command waits on
   "early_release",  \* clReleaseEvent on events commands still wait on
   "release_queue",  \* clReleaseCommandQueue
   "callback",       \* clSetEventCallback
   "enqueue_in_callback"}

ASSUME ClientAssumption ==
  /\ MayUse \in [Threads -> SUBSET Queues]
  /\ {MaxCommands, MaxReferences, MaxCallbacks} \subseteq Nat
  /\ NoThread \notin Threads
  /\ Client \subseteq ClientFeatures

VARIABLES
  root,      \* root[q]: the commands linked in queue q, oldest first
  lock,      \* lock[q]: the thread holding q's pocl_lock
  qrefs,     \* qrefs[q]: pocl_refcount of q; 0 once freed
  quser,     \* quser[q]: the references the client owns
  event,     \* event[e]: the event in the e-th cell ever calloc'ed
  pool,      \* mm->event_list: freed cells, most recently freed first
  command,   \* command[c]: the c-th command created
  started,   \* history: commands whose device operation has begun
  finished,  \* history: commands whose device operation has ended
  stack,     \* stack[t]: the steps thread t has still to take, next one first
  aborted    \* an assert failed or a NULL pointer was followed

vars == <<root, lock, qrefs, quser, event, pool, command, started, finished,
          stack, aborted>>

Commands == DOMAIN command
Events == DOMAIN event
Done == {"COMPLETE", "SUBMITTED"}   \* what clFinish accepts of a wait list
-----------------------------------------------------------------------------
\* Steps a thread may have on its stack.
LockStep(q, due) == [step |-> "lock", q |-> q, due |-> due]
ScanStep(q, hand, ready, due) ==
  [step |-> "scan", q |-> q, hand |-> hand, ready |-> ready, due |-> due]
SubmitStep(scan) == [scan EXCEPT !.step = "submit"]
RunStep(s, todo, due) == [step |-> s, todo |-> todo, due |-> due]
UnrefStep(q) == [step |-> "unref", q |-> q]
RecycleStep(e) == [step |-> "recycle", e |-> e]
EnqueueStep(s, q, c) == [step |-> s, q |-> q, c |-> c]
CallbackStep == [step |-> "callback"]

At(t, s) == stack[t] # <<>> /\ Head(stack[t]).step = s /\ ~aborted
Top(t) == Head(stack[t])
Replace(t, steps) == stack' = [stack EXCEPT ![t] = steps \o Tail(@)]
Push(t, steps) == stack' = [stack EXCEPT ![t] = steps \o @]

\* Mutant: the reference is dropped before the flush.
ReleaseBeforeFlush(q) == <<UnrefStep(q), LockStep(q, {})>>
\* clReleaseCommandQueue: flush, then drop a reference.
ReleaseQueueSteps(q) == <<LockStep(q, {}), UnrefStep(q)>>
\* Mutants: the cell is recycled before the flush; the queue is not released.
RecycleBeforeFlush(e) == <<RecycleStep(e)>> \o ReleaseQueueSteps(event[e].queue)
RecycleOnly(e) == <<LockStep(event[e].queue, {}), RecycleStep(e)>>
\* What clReleaseEvent does once the reference count is zero.
FreeEventSteps(e) == ReleaseQueueSteps(event[e].queue) \o <<RecycleStep(e)>>
-----------------------------------------------------------------------------
\* Client calls.  A thread calls when it is idle or inside a callback; it
\* only names queues and events it owns a reference to.
Idle(t) == stack[t] = <<>> /\ ~aborted
Calling(t) == Idle(t) \/ (At(t, "callback") /\ "enqueue_in_callback" \in Client)
OwnsQueue(t, q) == q \in MayUse[t] /\ quser[q] > 0
OwnsEvent(t, e) == event[e].user > 0 /\ event[e].queue \in MayUse[t]

WaitLists(t, q) ==
  LET waitable == {e \in Events : OwnsEvent(t, e) /\
                                  (event[e].queue = q \/ "cross_wait" \in Client)}
  IN  {<<>>} \cup {<<e>> : e \in waitable}

\* Mutant: the cell after the next one.
NewEventSkips == IF pool # <<>> THEN Head(pool) ELSE Len(event) + 2
\* pocl_mem_manager_new_event: the cell of the next event, and what its
\* status field holds before the first update (a reused cell is not cleared).
NewEvent == IF pool # <<>> THEN Head(pool) ELSE Len(event) + 1
NewStatus == IF pool # <<>> THEN event[Head(pool)].status ELSE "COMPLETE"

CreateEvent(q, c, explicit) ==
  LET ev == [status |-> NewStatus, queue |-> q, refs |-> 1, cmd |-> c,
             user |-> IF explicit THEN 1 ELSE 0, callbacks |-> 0]
  IN  IF pool # <<>>
      THEN /\ event' = [event EXCEPT ![Head(pool)] = ev]
           /\ pool' = Tail(pool)
      ELSE /\ event' = Append(event, ev)
           /\ UNCHANGED pool

\* pocl_create_command: the event of the last command in the queue, read
\* without the queue's lock, is added to the wait list.
CreateCommand(q, e, waits, explicit) ==
  command' = Append(command,
    [queue |-> q, event |-> e, explicit |-> explicit,
     deps |-> {event[waits[i]].cmd : i \in DOMAIN waits},
     waits |-> IF root[q] = <<>> THEN waits
               ELSE Append(waits, command[root[q][Len(root[q])]].event)])

\* The commands clFinish(q) or a blocking call must have finished on return.
Linked(q) == {c \in Commands : command[c].queue = q}

\* clEnqueue*: create the command, then link it; a blocking call finishes
\* the queue before it returns.
Enqueue(t, q, waits, explicit, blocking) ==
  /\ Calling(t) /\ (blocking => Idle(t) /\ "blocking" \in Client)
  /\ OwnsQueue(t, q) /\ lock[q] = NoThread
  /\ explicit \/ "implicit_event" \in Client
  /\ Len(command) < MaxCommands
  /\ waits \in WaitLists(t, q)
  /\ LET c == Len(command) + 1
     IN  /\ CreateCommand(q, NewEvent, waits, explicit)
         /\ CreateEvent(q, c, explicit)
         /\ qrefs' = [qrefs EXCEPT ![q] = @ + 1]
         /\ Push(t, <<EnqueueStep("append", q, c), EnqueueStep("stamp", q, c)>>
                    \o (IF blocking THEN <<LockStep(q, Linked(q) \cup {c})>> ELSE <<>>))
  /\ UNCHANGED <<root, lock, quser, started, finished, aborted>>

\* pocl_command_enqueue, first half: LL_APPEND under the queue's lock.
AppendCommand(t) ==
  /\ At(t, "append") /\ lock[Top(t).q] = NoThread
  /\ root' = [root EXCEPT ![Top(t).q] = Append(@, Top(t).c)]
  /\ Replace(t, <<>>)
  /\ UNCHANGED <<lock, qrefs, quser, event, pool, command, started, finished, aborted>>

\* Mutant: the status is not written.
StampForgotten(t) ==
  /\ At(t, "stamp")
  /\ Replace(t, <<>>)
  /\ UNCHANGED <<root, lock, qrefs, quser, event, pool, command, started, finished, aborted>>

\* pocl_command_enqueue, second half: the status is written after the unlock.
StampQueued(t) ==
  /\ At(t, "stamp")
  /\ event' = [event EXCEPT ![command[Top(t).c].event].status = "QUEUED"]
  /\ Replace(t, <<>>)
  /\ UNCHANGED <<root, lock, qrefs, quser, pool, command, started, finished, aborted>>

\* clFinish, clFlush.
Finish(t, q) ==
  /\ Idle(t) /\ OwnsQueue(t, q)
  /\ Push(t, <<LockStep(q, Linked(q))>>)
  /\ UNCHANGED <<root, lock, qrefs, quser, event, pool, command, started, finished, aborted>>

\* clWaitForEvents on one event: finish the event's queue.
WaitForEvent(t, e) ==
  /\ "wait" \in Client /\ Idle(t) /\ OwnsEvent(t, e)
  /\ Push(t, <<LockStep(event[e].queue, {event[e].cmd})>>)
  /\ UNCHANGED <<root, lock, qrefs, quser, event, pool, command, started, finished, aborted>>

RetainEvent(t, e) ==
  /\ "retain" \in Client /\ Idle(t) /\ OwnsEvent(t, e) /\ event[e].user < MaxReferences
  /\ event' = [event EXCEPT ![e].refs = @ + 1, ![e].user = @ + 1]
  /\ UNCHANGED <<root, lock, qrefs, quser, pool, command, started, finished, stack, aborted>>

\* clReleaseEvent by the client.
ReleaseEvent(t, e) ==
  /\ Idle(t) /\ OwnsEvent(t, e)
  /\ \/ "early_release" \in Client
     \/ /\ "release_event" \in Client
        /\ \A c \in Commands \ finished : event[e].cmd \notin command[c].deps
  /\ event' = [event EXCEPT ![e].refs = @ - 1, ![e].user = @ - 1]
  /\ IF event[e].refs = 1 THEN Push(t, FreeEventSteps(e)) ELSE UNCHANGED stack
  /\ UNCHANGED <<root, lock, qrefs, quser, pool, command, started, finished, aborted>>

RetainQueue(t, q) ==
  /\ "retain" \in Client /\ Idle(t) /\ OwnsQueue(t, q)
  /\ lock[q] = NoThread /\ quser[q] < MaxReferences
  /\ qrefs' = [qrefs EXCEPT ![q] = @ + 1]
  /\ quser' = [quser EXCEPT ![q] = @ + 1]
  /\ UNCHANGED <<root, lock, event, pool, command, started, finished, stack, aborted>>

\* clReleaseCommandQueue by the client.
ReleaseQueue(t, q) ==
  /\ "release_queue" \in Client /\ Idle(t) /\ OwnsQueue(t, q)
  /\ quser' = [quser EXCEPT ![q] = @ - 1]
  /\ Push(t, ReleaseQueueSteps(q))
  /\ UNCHANGED <<root, lock, qrefs, event, pool, command, started, finished, aborted>>

\* clSetEventCallback: the callback is linked whatever the event's status is.
SetEventCallback(t, e) ==
  /\ "callback" \in Client /\ Idle(t) /\ OwnsEvent(t, e) /\ event[e].callbacks < MaxCallbacks
  /\ event' = [event EXCEPT ![e].callbacks = @ + 1]
  /\ UNCHANGED <<root, lock, qrefs, quser, pool, command, started, finished, stack, aborted>>

\* A client callback returns to exec_commands.
CallbackReturns(t) ==
  /\ At(t, "callback")
  /\ Replace(t, <<>>)
  /\ UNCHANGED <<root, lock, qrefs, quser, event, pool, command, started, finished, aborted>>
-----------------------------------------------------------------------------
\* clFinish takes the lock of the queue it was called on, and of no other.
LockQueue(t) ==
  /\ At(t, "lock") /\ lock[Top(t).q] = NoThread
  /\ lock' = [lock EXCEPT ![Top(t).q] = t]
  /\ Replace(t, <<ScanStep(Top(t).q, Top(t).q, <<>>, Top(t).due)>>)
  /\ UNCHANGED <<root, qrefs, quser, event, pool, command, started, finished, aborted>>

\* Mutant: only the last event of the wait list is looked at.
UnreadyLastOnly(c) ==
  {i \in {Len(command[c].waits)} \ {0} : event[command[c].waits[i]].status \notin Done}
\* Positions of the wait list of c that are not acceptable to clFinish.
Unready(c) == {i \in DOMAIN command[c].waits : event[command[c].waits[i]].status \notin Done}

\* One turn of the loop of clFinish up to the decision about the node at the
\* root of the queue at hand.
Scan(t) ==
  /\ At(t, "scan")
  /\ root[Top(t).q] # <<>>
  /\ LET f == Top(t)
         c == Head(root[f.hand])
         last == CHOOSE i \in Unready(c) : \A j \in Unready(c) : j <= i
     IN  \/ /\ root[f.hand] = <<>>
            /\ Replace(t, <<[f EXCEPT !.hand = f.q]>>)
         \/ /\ root[f.hand] # <<>> /\ Unready(c) # {}
            /\ Replace(t, <<[f EXCEPT !.hand = event[command[c].waits[last]].queue]>>)
         \/ /\ root[f.hand] # <<>> /\ Unready(c) = {}
            /\ Replace(t, <<SubmitStep([f EXCEPT !.ready = Append(@, c)])>>)
  /\ UNCHANGED <<root, lock, qrefs, quser, event, pool, command, started, finished, aborted>>

\* LL_DELETE: nothing happens if c is not in the list.
Unlinked(s, c) ==
  IF \E i \in DOMAIN s : s[i] = c
  THEN LET i == CHOOSE i \in DOMAIN s : s[i] = c
       IN  SubSeq(s, 1, i - 1) \o SubSeq(s, i + 1, Len(s))
  ELSE s

\* The rest of that turn: the node's event becomes SUBMITTED and the node
\* moves from the queue at hand, whose lock is not held, to the ready list.
Submit(t) ==
  /\ At(t, "submit")
  /\ LET f == Top(t)
         c == f.ready[Len(f.ready)]
         e == command[c].event
     IN  IF event[e].status # "QUEUED" \/ root[f.hand] = <<>>
         THEN aborted' = TRUE /\ UNCHANGED <<event, root, stack>>
         ELSE /\ event' = [event EXCEPT ![e].status = "SUBMITTED"]
              /\ root' = [root EXCEPT ![f.hand] = Unlinked(@, c)]
              /\ Replace(t, <<[f EXCEPT !.step = "scan"]>>)
              /\ UNCHANGED aborted
  /\ UNCHANGED <<lock, qrefs, quser, pool, command, started, finished>>

\* Mutants: only the first ready command is executed; the lock is kept while
\* the commands execute.
RunFirstOnly(t) ==
  /\ At(t, "scan") /\ root[Top(t).q] = <<>>
  /\ lock' = [lock EXCEPT ![Top(t).q] = NoThread]
  /\ Replace(t, <<RunStep("run", SubSeq(Top(t).ready, 1, IF Top(t).ready = <<>> THEN 0 ELSE 1), Top(t).due)>>)
  /\ UNCHANGED <<root, qrefs, quser, event, pool, command, started, finished, aborted>>
RunLocked(t) ==
  /\ At(t, "scan") /\ root[Top(t).q] = <<>>
  /\ Replace(t, <<RunStep("run", Top(t).ready, Top(t).due)>>)
  /\ UNCHANGED <<root, lock, qrefs, quser, event, pool, command, started, finished, aborted>>

UnlockQueue(t) ==
  /\ At(t, "scan") /\ root[Top(t).q] = <<>>
  /\ lock' = [lock EXCEPT ![Top(t).q] = NoThread]
  /\ Replace(t, <<RunStep("run", Top(t).ready, Top(t).due)>>)
  /\ UNCHANGED <<root, qrefs, quser, event, pool, command, started, finished, aborted>>
-----------------------------------------------------------------------------
\* exec_commands: the ready list in order, one command at a time.
MoveStatus(t, from, to) ==
  LET e == command[Head(Top(t).todo)].event
  IN  IF event[e].status = from
      THEN event' = [event EXCEPT ![e].status = to] /\ UNCHANGED aborted
      ELSE aborted' = TRUE /\ UNCHANGED event

StartCommand(t) ==
  /\ At(t, "run") /\ Top(t).todo # <<>>
  /\ MoveStatus(t, "SUBMITTED", "RUNNING")
  /\ started' = started \cup {Head(Top(t).todo)}
  /\ Replace(t, <<[Top(t) EXCEPT !.step = "complete"]>>)
  /\ UNCHANGED <<root, lock, qrefs, quser, pool, command, finished>>

CompleteCommand(t) ==
  /\ At(t, "complete")
  /\ MoveStatus(t, "RUNNING", "COMPLETE")
  /\ finished' = finished \cup {Head(Top(t).todo)}
  /\ Replace(t, [i \in 1..event[command[Head(Top(t).todo)].event].callbacks |-> CallbackStep]
                \o <<[Top(t) EXCEPT !.step = "release"]>>)
  /\ UNCHANGED <<root, lock, qrefs, quser, pool, command, started>>

\* After the callbacks: an event the client never saw is released, which
\* flushes its queue before the next command of the ready list runs.
ReleaseImplicitEvent(t) ==
  /\ At(t, "release")
  /\ LET c == Head(Top(t).todo)
         e == command[c].event
         next == [Top(t) EXCEPT !.step = "run", !.todo = Tail(@)]
     IN  IF command[c].explicit
         THEN Replace(t, <<next>>) /\ UNCHANGED event
         ELSE /\ event' = [event EXCEPT ![e].refs = @ - 1]
              /\ Replace(t, (IF event[e].refs = 1 THEN FreeEventSteps(e) ELSE <<>>) \o <<next>>)
  /\ UNCHANGED <<root, lock, qrefs, quser, pool, command, started, finished, aborted>>

\* clFinish returns.
Return(t) ==
  /\ At(t, "run") /\ Top(t).todo = <<>>
  /\ Replace(t, <<>>)
  /\ UNCHANGED <<root, lock, qrefs, quser, event, pool, command, started, finished, aborted>>

\* clReleaseCommandQueue after its flush; at zero the queue is freed.
UnrefQueue(t) ==
  /\ At(t, "unref") /\ lock[Top(t).q] = NoThread
  /\ qrefs' = [qrefs EXCEPT ![Top(t).q] = @ - 1]
  /\ Replace(t, <<>>)
  /\ UNCHANGED <<root, lock, quser, event, pool, command, started, finished, aborted>>

\* pocl_mem_manager_free_event.
RecycleEvent(t) ==
  /\ At(t, "recycle")
  /\ pool' = <<Top(t).e>> \o pool
  /\ Replace(t, <<>>)
  /\ UNCHANGED <<root, lock, qrefs, quser, event, command, started, finished, aborted>>
-----------------------------------------------------------------------------
\* clCreateCommandQueue for every queue has returned to the client.
Init ==
  /\ root = [q \in Queues |-> <<>>]
  /\ lock = [q \in Queues |-> NoThread]
  /\ qrefs = [q \in Queues |-> 1]
  /\ quser = [q \in Queues |-> 1]
  /\ event = <<>> /\ pool = <<>> /\ command = <<>>
  /\ started = {} /\ finished = {}
  /\ stack = [t \in Threads |-> <<>>]
  /\ aborted = FALSE

ClientCall(t) ==
  \/ \E q \in Queues, explicit, blocking \in BOOLEAN :
       \E waits \in WaitLists(t, q) : Enqueue(t, q, waits, explicit, blocking)
  \/ \E q \in Queues : Finish(t, q) \/ RetainQueue(t, q) \/ ReleaseQueue(t, q)
  \/ \E e \in Events : \/ WaitForEvent(t, e) \/ RetainEvent(t, e)
                       \/ ReleaseEvent(t, e) \/ SetEventCallback(t, e)

RuntimeStep(t) ==
  \/ AppendCommand(t) \/ StampQueued(t) \/ CallbackReturns(t)
  \/ LockQueue(t) \/ Scan(t) \/ Submit(t) \/ UnlockQueue(t)
  \/ StartCommand(t) \/ CompleteCommand(t) \/ ReleaseImplicitEvent(t) \/ Return(t)
  \/ UnrefQueue(t) \/ RecycleEvent(t)

Next == \E t \in Threads : ClientCall(t) \/ RuntimeStep(t)

Spec == Init /\ [][Next]_vars

\* A thread inside the runtime keeps running; a client need not call.
FairSpec == Spec /\ \A t \in Threads : WF_vars(RuntimeStep(t))
-----------------------------------------------------------------------------
\* Properties.
Statuses == {"COMPLETE", "RUNNING", "SUBMITTED", "QUEUED"}
EventRecords == [status : Statuses, queue : Queues, refs : Int, cmd : Commands,
                 user : Nat, callbacks : Nat]
CommandRecords == [queue : Queues, event : Events, explicit : BOOLEAN,
                   deps : SUBSET Commands, waits : Seq(Events)]
LockSteps == [step : {"lock"}, q : Queues, due : SUBSET Commands]
ScanSteps == [step : {"scan"}, q : Queues, hand : Queues, ready : Seq(Commands),
              due : SUBSET Commands]
SubmitSteps == [step : {"submit"}, q : Queues, hand : Queues,
                ready : Seq(Commands) \ {<<>>}, due : SUBSET Commands]
RunSteps == [step : {"run"}, todo : Seq(Commands), due : SUBSET Commands]
BusySteps == [step : {"complete", "release"}, todo : Seq(Commands) \ {<<>>},
              due : SUBSET Commands]
UnrefSteps == [step : {"unref"}, q : Queues]
RecycleSteps == [step : {"recycle"}, e : Events]
EnqueueSteps == [step : {"append", "stamp"}, q : Queues, c : Commands]
Steps == LockSteps \cup ScanSteps \cup SubmitSteps \cup RunSteps \cup BusySteps
         \cup UnrefSteps \cup RecycleSteps \cup EnqueueSteps \cup {CallbackStep}

\* Every variable has its type: in particular no list of the runtime names a
\* command or an event cell that was never created.
TypeOK ==
  /\ root \in [Queues -> Seq(Commands)]
  /\ lock \in [Queues -> Threads \cup {NoThread}]
  /\ qrefs \in [Queues -> Int] /\ quser \in [Queues -> Nat]
  /\ event \in Seq(EventRecords) /\ pool \in Seq(Events)
  /\ command \in Seq(CommandRecords)
  /\ started \subseteq Commands /\ finished \subseteq Commands
  /\ stack \in [Threads -> Seq(Steps)]
  /\ aborted \in BOOLEAN

\* The asserts of the POCL_UPDATE_EVENT_* macros hold (pocl_cl.h): an event
\* goes QUEUED, SUBMITTED, RUNNING, COMPLETE whatever the threads interleave.
AssertsHold == ~aborted

\* What an in-order queue and a wait list promise: the device operation of a
\* command begins only after every earlier command of its queue and every
\* command whose event is in its wait list has ended.
Before(c) == {d \in Commands : d < c /\ command[d].queue = command[c].queue} \cup command[c].deps
OrderKept == \A c \in started : Before(c) \subseteq finished

\* When clFinish, clWaitForEvents or a blocking call returns, the commands it
\* was to wait for have ended.
FinishDrains ==
  \A t \in Threads : At(t, "run") /\ Top(t).todo = <<>> => Top(t).due \subseteq finished

\* An event cell in the free list is in use nowhere: no reference is left, it
\* is the event of no unfinished command, and no command still linked in a
\* queue waits on it (pocl_mem_manager_new_event hands it out unlocked
\* "because event is not in use").
PooledEventUnused ==
  \A i \in DOMAIN pool :
    /\ event[pool[i]].refs = 0
    /\ \A c \in Commands \ finished : command[c].event # pool[i]
    /\ \A q \in Queues : \A j \in DOMAIN root[q] :
         \A k \in DOMAIN command[root[q][j]].waits : command[root[q][j]].waits[k] # pool[i]

\* The commands a step holds: the one an enqueue call will link, the ready list
\* of clFinish (the last one of a submit step is still linked), what
\* exec_commands has still to do.
Holds(f) ==
  CASE f.step = "append" -> <<f.c>>
    [] f.step = "scan" -> f.ready
    [] f.step = "submit" -> Front(f.ready)
    [] f.step \in {"run", "complete", "release"} -> f.todo
    [] OTHER -> <<>>
\* The places that hold command c: in a queue, or in a step of a thread.
Listed(s, c) == {i \in DOMAIN s : s[i] = c}
QueuePlaces(c) == UNION {{<<q, i>> : i \in Listed(root[q], c)} : q \in Queues}
StepPlaces(t, c) ==
  UNION {{<<t, d, i>> : i \in Listed(Holds(stack[t][d]), c)} : d \in DOMAIN stack[t]}
Homes(c) == QueuePlaces(c) \cup UNION {StepPlaces(t, c) : t \in Threads}

\* A command that has not ended is held in exactly one place, so it is
\* neither lost nor executed twice, although clFinish unlinks it from queues
\* whose lock it does not hold.
HeldOnce == \A c \in Commands \ finished : Cardinality(Homes(c)) = 1

\* The reference count of a queue is exactly what the client owns, plus one
\* for each event in use, plus the releases already under way.
UnrefsDue(q) ==
  UNION {{<<t, d>> : d \in Listed(stack[t], UnrefStep(q))} : t \in Threads}
LiveEvents(q) == {e \in Events : event[e].queue = q /\ event[e].refs > 0}
QueueRefsExact ==
  \A q \in Queues : qrefs[q] = quser[q] + Cardinality(LiveEvents(q)) + Cardinality(UnrefsDue(q))

\* A queue is freed only when nothing can reach it any more: no command is
\* linked in it, its lock is free, and no thread is about to use it.
FreedQueueUnreachable ==
  \A q \in Queues : qrefs[q] = 0 =>
    /\ root[q] = <<>> /\ lock[q] = NoThread
    /\ \A t \in Threads : \A d \in DOMAIN stack[t] :
         stack[t][d].step \in {"lock", "scan", "submit", "unref", "append"} => stack[t][d].q # q

\* clFinish is entered again while an outer clFinish executes commands, and
\* pocl_lock is not recursive: no thread ever asks for a lock it holds.
NoSelfDeadlock ==
  \A t \in Threads : stack[t] # <<>> /\ Top(t).step \in {"lock", "append", "unref"} =>
    lock[Top(t).q] # t

\* The runtime executes commands as OrderedExecution promises.
Abstract == INSTANCE OrderedExecution WITH
  issued <- [c \in Commands |-> [queue |-> command[c].queue, deps |-> command[c].deps]]
Implements == Abstract!Spec

\* Every call into the runtime returns: clFinish leaves its loop, and the
\* flushes nested in event releases come to an end.
CallsReturn == \A t \in Threads : stack[t] # <<>> ~> stack[t] = <<>>
=============================================================================
