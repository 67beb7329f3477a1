------------------------- MODULE CommandQueue_proofs -------------------------
(* Proofs about CommandQueue, for any number of threads, queues, commands and  *)
(* references, and any client behaviour.                                       *)
EXTENDS CommandQueue, SequenceTheorems, WellFoundedInduction, TLAPS

-----------------------------------------------------------------------------
(* The steps of a thread, by kind.                                             *)
LEMMA StepKinds ==
  ASSUME NEW f \in Steps
  PROVE  /\ f.step = "lock" => f \in LockSteps
         /\ f.step = "scan" => f \in ScanSteps
         /\ f.step = "submit" => f \in SubmitSteps
         /\ f.step = "run" => f \in RunSteps
         /\ f.step \in {"complete", "release"} => f \in BusySteps
         /\ f.step = "unref" => f \in UnrefSteps
         /\ f.step = "recycle" => f \in RecycleSteps
         /\ f.step \in {"append", "stamp"} => f \in EnqueueSteps
BY DEF Steps, LockSteps, ScanSteps, SubmitSteps, RunSteps, BusySteps, UnrefSteps,
       RecycleSteps, EnqueueSteps, CallbackStep

\* The step on top of a stack, and what is below it.
LEMMA TopTyped ==
  ASSUME TypeOK, NEW t \in Threads, stack[t] # <<>>
  PROVE  /\ Top(t) \in Steps
         /\ Tail(stack[t]) \in Seq(Steps)
BY HeadTailProperties DEF TypeOK, Top

\* Replacing the top of a stack, or pushing on it, keeps the stacks typed for
\* any set of steps that contains the old ones.
LEMMA StackTyped ==
  ASSUME TypeOK, NEW t \in Threads, NEW S, Steps \subseteq S, NEW steps \in Seq(S),
         \/ stack[t] # <<>> /\ Replace(t, steps)
         \/ Push(t, steps)
  PROVE  stack' \in [Threads -> Seq(S)]
<1>1. \A u \in Threads : stack[u] \in Seq(S)
  BY SeqMonotonic DEF TypeOK
<1>2. CASE stack[t] # <<>> /\ Replace(t, steps)
  <2>1. Tail(stack[t]) \in Seq(S)
    BY <1>1, <1>2, HeadTailProperties
  <2>2. steps \o Tail(stack[t]) \in Seq(S)
    BY <2>1, ConcatProperties
  <2>3. QED
    BY <1>1, <1>2, <2>2 DEF Replace, TypeOK
<1>3. CASE Push(t, steps)
  <2>1. steps \o stack[t] \in Seq(S)
    BY <1>1, ConcatProperties
  <2>2. QED
    BY <1>1, <1>3, <2>1 DEF Push, TypeOK
<1>4. QED
  BY <1>2, <1>3

\* Only Enqueue creates commands and event cells; after any other action the
\* sets the types are built from are what they were.
LEMMA TypedWithoutEnqueue ==
  ASSUME TypeOK, command' = command,
         event' \in Seq(EventRecords), Len(event') = Len(event),
         root' \in [Queues -> Seq(Commands)],
         lock' \in [Queues -> Threads \cup {NoThread}],
         qrefs' \in [Queues -> Int], quser' \in [Queues -> Nat],
         pool' \in Seq(Events),
         started' \subseteq Commands, finished' \subseteq Commands,
         stack' \in [Threads -> Seq(Steps)], aborted' \in BOOLEAN
  PROVE  TypeOK'
<1>1. Commands' = Commands
  BY DEF Commands
<1>2. Events' = Events
  BY LenProperties DEF Events, TypeOK
<1>3. /\ EventRecords' = EventRecords
      /\ CommandRecords' = CommandRecords
      /\ Steps' = Steps
  BY <1>1, <1>2 DEF EventRecords, CommandRecords, Steps, LockSteps, ScanSteps, SubmitSteps,
     RunSteps, BusySteps, UnrefSteps, RecycleSteps, EnqueueSteps
<1>4. QED
  BY <1>1, <1>2, <1>3 DEF TypeOK

\* Writing one event cell.
LEMMA EventWritten ==
  ASSUME TypeOK, NEW e \in Events, NEW r \in EventRecords
  PROVE  /\ [event EXCEPT ![e] = r] \in Seq(EventRecords)
         /\ Len([event EXCEPT ![e] = r]) = Len(event)
BY ExceptSeq, LenProperties DEF TypeOK, Events

LEMMA EventTyped ==
  ASSUME TypeOK, NEW e \in Events
  PROVE  /\ event[e] \in EventRecords
         /\ event[e].queue \in Queues /\ event[e].cmd \in Commands
         /\ event[e].refs \in Int /\ event[e].user \in Nat /\ event[e].callbacks \in Nat
<1>1. e \in 1..Len(event)
  BY LenProperties DEF TypeOK, Events
<1>2. event[e] \in EventRecords
  BY <1>1, ElementOfSeq DEF TypeOK
<1>3. QED
  BY <1>2 DEF EventRecords

\* Writing the fields of an event that the actions write.
LEMMA EventFields ==
  ASSUME NEW r \in EventRecords
  PROVE  /\ \A n \in Int : [r EXCEPT !.refs = n] \in EventRecords
         /\ \A n \in Int, m \in Nat : [r EXCEPT !.refs = n, !.user = m] \in EventRecords
         /\ \A m \in Nat : [r EXCEPT !.callbacks = m] \in EventRecords
         /\ \A s \in Statuses : [r EXCEPT !.status = s] \in EventRecords
BY DEF EventRecords

LEMMA CommandTyped ==
  ASSUME TypeOK, NEW c \in Commands
  PROVE  /\ command[c] \in CommandRecords
         /\ command[c].event \in Events /\ command[c].queue \in Queues
         /\ command[c].waits \in Seq(Events)
<1>1. c \in 1..Len(command)
  BY LenProperties DEF TypeOK, Commands
<1>2. command[c] \in CommandRecords
  BY <1>1, ElementOfSeq DEF TypeOK
<1>3. QED
  BY <1>2 DEF CommandRecords

\* A list without one of its elements.
LEMMA UnlinkedTyped ==
  ASSUME NEW S, NEW s \in Seq(S), NEW c
  PROVE  Unlinked(s, c) \in Seq(S)
<1>1. CASE \E i \in DOMAIN s : s[i] = c
  <2> DEFINE i == CHOOSE j \in DOMAIN s : s[j] = c
  <2>1. i \in 1..Len(s)
    BY <1>1, LenProperties
  <2>2. \A j \in 1..Len(s) : s[j] \in S
    BY ElementOfSeq
  <2> HIDE DEF i
  <2>3. SubSeq(s, 1, i - 1) \in Seq(S) /\ SubSeq(s, i + 1, Len(s)) \in Seq(S)
    BY <2>1, <2>2, SubSeqProperties, LenProperties
  <2>4. SubSeq(s, 1, i - 1) \o SubSeq(s, i + 1, Len(s)) \in Seq(S)
    BY <2>3, ConcatProperties
  <2>5. QED
    BY <1>1, <2>4 DEF Unlinked, i
<1>2. CASE ~\E i \in DOMAIN s : s[i] = c
  BY <1>2 DEF Unlinked
<1>3. QED
  BY <1>1, <1>2

\* A nonempty set of positions has a last one.
LEMMA LastExists ==
  ASSUME NEW n \in Nat, NEW S, S \subseteq 1..n, S # {}
  PROVE  \E i \in S : \A j \in S : j <= i
<1> DEFINE R == {p \in Nat \X Nat : p[1] < p[2]}
           T == {n - i : i \in S}
<1>1. IsWellFoundedOn(R, Nat)
  BY NatLessThanWellFounded DEF OpToRel
<1>2. T \subseteq Nat /\ T # {}
  <2>1. \A i \in S : i \in Int /\ n - i \in Nat
    OBVIOUS
  <2>2. QED
    BY <2>1
<1>3. PICK x \in T : \A y \in T : <<y, x>> \notin R
  BY <1>1, <1>2, WFMin
<1>4. PICK i \in S : x = n - i
  BY <1>3
<1>5. \A j \in S : j <= i
  <2> SUFFICES ASSUME NEW j \in S
               PROVE  j <= i
    OBVIOUS
  <2>1. <<n - j, x>> \notin R
    BY <1>3
  <2>2. QED
    BY <2>1, <1>2, <1>3, <1>4
<1>6. QED
  BY <1>5
-----------------------------------------------------------------------------
(* Type correctness: one lemma per action.                                     *)

\* Creating a command enlarges the sets the types are built from.
LEMMA TypesGrow ==
  ASSUME Commands \subseteq Commands', Events \subseteq Events'
  PROVE  /\ Steps \subseteq Steps'
         /\ EventRecords \subseteq EventRecords'
         /\ CommandRecords \subseteq CommandRecords'
<1>1. /\ Seq(Commands) \subseteq Seq(Commands')
      /\ Seq(Events) \subseteq Seq(Events')
  BY SeqMonotonic
<1>2. /\ LockSteps \subseteq LockSteps' /\ ScanSteps \subseteq ScanSteps'
      /\ SubmitSteps \subseteq SubmitSteps'
  BY <1>1 DEF LockSteps, ScanSteps, SubmitSteps
<1>3. /\ RunSteps \subseteq RunSteps' /\ BusySteps \subseteq BusySteps'
  BY <1>1 DEF RunSteps, BusySteps
<1>4. /\ UnrefSteps \subseteq UnrefSteps' /\ RecycleSteps \subseteq RecycleSteps'
      /\ EnqueueSteps \subseteq EnqueueSteps'
  BY DEF UnrefSteps, RecycleSteps, EnqueueSteps
<1>5. QED
  BY <1>1, <1>2, <1>3, <1>4 DEF Steps, EventRecords, CommandRecords, CallbackStep

\* A new event is put into a cell that exists, or into the next one.
LEMMA EventCreated ==
  ASSUME TypeOK, NEW q \in Queues, NEW explicit \in BOOLEAN,
         CreateEvent(q, Len(command) + 1, explicit),
         Commands \subseteq Commands', Len(command) + 1 \in Commands'
  PROVE  /\ NewEvent \in Events' /\ Events \subseteq Events'
         /\ event' \in Seq(EventRecords') /\ pool' \in Seq(Events')
<1> DEFINE ev == [status |-> NewStatus, queue |-> q, refs |-> 1, cmd |-> Len(command) + 1,
                  user |-> IF explicit THEN 1 ELSE 0, callbacks |-> 0]
<1>1. Events = 1..Len(event) /\ Len(event) \in Nat
  BY LenProperties DEF TypeOK, Events
<1>2. EventRecords \subseteq [status : Statuses, queue : Queues, refs : Int, cmd : Commands',
                              user : Nat, callbacks : Nat]
  BY DEF EventRecords
<1>3. EventRecords' = [status : Statuses, queue : Queues, refs : Int, cmd : Commands',
                       user : Nat, callbacks : Nat]
  BY DEF EventRecords
<1>4. event \in Seq(EventRecords')
  BY <1>2, <1>3, SeqMonotonic DEF TypeOK
<1>5. NewStatus \in Statuses
  <2>1. CASE pool = <<>>
    BY <2>1 DEF NewStatus, Statuses
  <2>2. CASE pool # <<>>
    <3>1. Head(pool) \in Events
      BY <2>2, HeadTailProperties DEF TypeOK
    <3>2. event[Head(pool)] \in EventRecords
      BY <3>1, EventTyped
    <3>3. QED
      BY <2>2, <3>2 DEF NewStatus, EventRecords
  <2>3. QED
    BY <2>1, <2>2
<1>6. ev \in EventRecords'
  BY <1>3, <1>5
<1> HIDE DEF ev
<1>7. CASE pool # <<>>
  <2>1. Head(pool) \in 1..Len(event) /\ Tail(pool) \in Seq(Events)
    BY <1>1, <1>7, HeadTailProperties DEF TypeOK
  <2>2. event' = [event EXCEPT ![Head(pool)] = ev] /\ pool' = Tail(pool)
    BY <1>7 DEF CreateEvent, ev
  <2>3. event' \in Seq(EventRecords') /\ Len(event') = Len(event)
    BY <2>1, <2>2, <1>4, <1>6, ExceptSeq
  <2>4. Events' = Events
    BY <2>3, <1>1, LenProperties DEF Events
  <2>5. QED
    BY <1>1, <1>7, <2>1, <2>2, <2>3, <2>4 DEF NewEvent
<1>8. CASE pool = <<>>
  <2>1. event' = Append(event, ev) /\ pool' = pool
    BY <1>8 DEF CreateEvent, ev
  <2>2. event' \in Seq(EventRecords') /\ Len(event') = Len(event) + 1
    BY <2>1, <1>4, <1>6, AppendProperties
  <2>3. Events' = 1..(Len(event) + 1)
    BY <2>2, LenProperties DEF Events
  <2>4. Events \subseteq Events'
    BY <2>3, <1>1
  <2>5. pool' \in Seq(Events')
    BY <2>1, <2>4, SeqMonotonic DEF TypeOK
  <2>6. QED
    BY <1>1, <1>8, <2>2, <2>3, <2>4, <2>5 DEF NewEvent
<1>9. QED
  BY <1>7, <1>8

\* The wait list of a new command: what the client gave, and the event of the
\* last command in the queue.
LEMMA CommandCreated ==
  ASSUME TypeOK, NEW t \in Threads, NEW q \in Queues, NEW explicit \in BOOLEAN,
         NEW waits \in WaitLists(t, q),
         CreateCommand(q, NewEvent, waits, explicit),
         Events \subseteq Events', NewEvent \in Events'
  PROVE  /\ command' \in Seq(CommandRecords')
         /\ Len(command') = Len(command) + 1
<1>1. waits \in Seq(Events) /\ \A i \in DOMAIN waits : waits[i] \in Events
  <2>1. waits = <<>> \/ \E e \in Events : waits = <<e>>
    BY DEF WaitLists
  <2>2. \A e \in Events : <<e>> \in Seq(Events) /\ DOMAIN <<e>> = {1} /\ <<e>>[1] = e
    OBVIOUS
  <2>3. CASE waits = <<>>
    BY <2>3
  <2>4. ASSUME NEW e \in Events, waits = <<e>>
        PROVE  waits \in Seq(Events) /\ \A i \in DOMAIN waits : waits[i] \in Events
    BY <2>2, <2>4
  <2>5. QED
    BY <2>1, <2>3, <2>4
<1>2. {event[waits[i]].cmd : i \in DOMAIN waits} \subseteq Commands
  BY <1>1, EventTyped
<1> DEFINE implicit == Append(waits, command[root[q][Len(root[q])]].event)
           r == [queue |-> q, event |-> NewEvent, explicit |-> explicit,
                 deps |-> {event[waits[i]].cmd : i \in DOMAIN waits},
                 waits |-> IF root[q] = <<>> THEN waits ELSE implicit]
<1>3. root[q] # <<>> => implicit \in Seq(Events)
  <2> SUFFICES ASSUME root[q] # <<>>
               PROVE  implicit \in Seq(Events)
    OBVIOUS
  <2>1. root[q] \in Seq(Commands)
    BY DEF TypeOK
  <2>2. Len(root[q]) \in 1..Len(root[q])
    BY <2>1, EmptySeq, LenProperties
  <2>3. root[q][Len(root[q])] \in Commands
    BY <2>1, <2>2, ElementOfSeq
  <2>4. QED
    BY <2>3, <1>1, CommandTyped, AppendProperties
<1>4. r.waits \in Seq(Events')
  BY <1>1, <1>3, SeqMonotonic
<1>5. command' = Append(command, r)
  BY DEF CreateCommand
<1>6. Len(command) \in Nat /\ Commands = 1..Len(command)
  BY LenProperties DEF TypeOK, Commands
<1>7. DOMAIN command' = 1..(Len(command) + 1) /\ Len(command') = Len(command) + 1
  BY <1>5, <1>6
<1>8. Commands \subseteq Commands'
  BY <1>6, <1>7 DEF Commands
<1>9. r \in CommandRecords'
  BY <1>2, <1>4, <1>8 DEF CommandRecords
<1>10. command \in Seq(CommandRecords')
  BY <1>8, TypesGrow, SeqMonotonic DEF TypeOK
<1>11. QED
  BY <1>5, <1>9, <1>10, AppendProperties

\* What releasing a queue or an event puts on a stack.
LEMMA ReleaseStepsTyped ==
  ASSUME TypeOK
  PROVE  /\ \A q \in Queues : ReleaseQueueSteps(q) \in Seq(Steps)
         /\ \A e \in Events : FreeEventSteps(e) \in Seq(Steps)
<1>1. ASSUME NEW q \in Queues
      PROVE  ReleaseQueueSteps(q) \in Seq(Steps)
  <2>1. LockStep(q, {}) \in Steps /\ UnrefStep(q) \in Steps
    BY DEF LockStep, LockSteps, UnrefStep, UnrefSteps, Steps
  <2>2. QED
    BY <2>1 DEF ReleaseQueueSteps
<1>2. ASSUME NEW e \in Events
      PROVE  FreeEventSteps(e) \in Seq(Steps)
  <2>1. ReleaseQueueSteps(event[e].queue) \in Seq(Steps)
    BY <1>1, EventTyped
  <2>2. <<RecycleStep(e)>> \in Seq(Steps)
    BY DEF RecycleStep, RecycleSteps, Steps
  <2>3. QED
    BY <2>1, <2>2, ConcatProperties DEF FreeEventSteps
<1>3. QED
  BY <1>1, <1>2

LEMMA EnqueueTyped ==
  ASSUME TypeOK, NEW t \in Threads, NEW q \in Queues,
         NEW explicit \in BOOLEAN, NEW blocking \in BOOLEAN,
         NEW waits \in WaitLists(t, q), Enqueue(t, q, waits, explicit, blocking)
  PROVE  TypeOK'
<1> DEFINE c == Len(command) + 1
           steps == <<EnqueueStep("append", q, c), EnqueueStep("stamp", q, c)>>
                    \o (IF blocking THEN <<LockStep(q, Linked(q) \cup {c})>> ELSE <<>>)
<1>1. /\ CreateCommand(q, NewEvent, waits, explicit)
      /\ CreateEvent(q, c, explicit)
      /\ qrefs' = [qrefs EXCEPT ![q] = @ + 1]
      /\ Push(t, steps)
      /\ UNCHANGED <<root, lock, quser, started, finished, aborted>>
  BY Zenon DEF Enqueue
<1>2. Len(command) \in Nat /\ Commands = 1..Len(command)
  BY LenProperties DEF TypeOK, Commands
<1>3. Commands' = 1..c
  BY <1>1, <1>2 DEF CreateCommand, Commands
<1>4. Commands \subseteq Commands' /\ c \in Commands'
  BY <1>2, <1>3
<1>5. /\ NewEvent \in Events' /\ Events \subseteq Events'
      /\ event' \in Seq(EventRecords') /\ pool' \in Seq(Events')
  BY <1>1, <1>4, EventCreated
<1>6. command' \in Seq(CommandRecords')
  BY <1>1, <1>5, CommandCreated
<1>7. steps \in Seq(Steps')
  <2>1. /\ EnqueueStep("append", q, c) \in EnqueueSteps'
        /\ EnqueueStep("stamp", q, c) \in EnqueueSteps'
    BY <1>4 DEF EnqueueStep, EnqueueSteps
  <2>2. LockStep(q, Linked(q) \cup {c}) \in LockSteps'
    BY <1>4 DEF LockStep, LockSteps, Linked
  <2>3. /\ EnqueueStep("append", q, c) \in Steps' /\ EnqueueStep("stamp", q, c) \in Steps'
        /\ LockStep(q, Linked(q) \cup {c}) \in Steps'
    BY <2>1, <2>2 DEF Steps
  <2>4. /\ <<EnqueueStep("append", q, c), EnqueueStep("stamp", q, c)>> \in Seq(Steps')
        /\ (IF blocking THEN <<LockStep(q, Linked(q) \cup {c})>> ELSE <<>>) \in Seq(Steps')
    BY <2>3
  <2>5. QED
    BY <2>4, ConcatProperties
<1>8. stack' \in [Threads -> Seq(Steps')]
  BY <1>1, <1>4, <1>5, <1>7, TypesGrow, StackTyped
<1>9. root' \in [Queues -> Seq(Commands')]
  BY <1>1, <1>4, SeqMonotonic DEF TypeOK
<1>10. QED
  BY <1>1, <1>4, <1>5, <1>6, <1>8, <1>9 DEF TypeOK

\* The other actions of the client.
LEMMA ClientTyped ==
  ASSUME TypeOK, NEW t \in Threads,
         \/ \E q \in Queues : Finish(t, q) \/ RetainQueue(t, q) \/ ReleaseQueue(t, q)
         \/ \E e \in Events : \/ WaitForEvent(t, e) \/ RetainEvent(t, e)
                              \/ ReleaseEvent(t, e) \/ SetEventCallback(t, e)
  PROVE  TypeOK'
<1>1. ASSUME NEW q \in Queues, Finish(t, q)
      PROVE  TypeOK'
  <2>1. <<LockStep(q, Linked(q))>> \in Seq(Steps)
    BY DEF LockStep, LockSteps, Linked, Steps
  <2>2. stack' \in [Threads -> Seq(Steps)]
    BY <1>1, <2>1, StackTyped DEF Finish
  <2>3. QED
    BY <1>1, <2>2, TypedWithoutEnqueue DEF Finish, TypeOK
<1>2. ASSUME NEW q \in Queues, RetainQueue(t, q)
      PROVE  TypeOK'
  BY <1>2, TypedWithoutEnqueue DEF RetainQueue, OwnsQueue, TypeOK
<1>3. ASSUME NEW q \in Queues, ReleaseQueue(t, q)
      PROVE  TypeOK'
  <2>1. ReleaseQueueSteps(q) \in Seq(Steps)
    BY ReleaseStepsTyped
  <2>2. stack' \in [Threads -> Seq(Steps)]
    BY <1>3, <2>1, StackTyped DEF ReleaseQueue
  <2>3. quser' \in [Queues -> Nat]
    <3>1. quser[q] > 0 /\ quser' = [quser EXCEPT ![q] = quser[q] - 1]
      BY <1>3 DEF ReleaseQueue, OwnsQueue
    <3>2. quser \in [Queues -> Nat]
      BY DEF TypeOK
    <3>3. QED
      BY <3>1, <3>2
  <2>4. QED
    BY <1>3, <2>2, <2>3, TypedWithoutEnqueue DEF ReleaseQueue, TypeOK
<1>4. ASSUME NEW e \in Events, WaitForEvent(t, e)
      PROVE  TypeOK'
  <2>1. <<LockStep(event[e].queue, {event[e].cmd})>> \in Seq(Steps)
    BY EventTyped DEF LockStep, LockSteps, Steps
  <2>2. stack' \in [Threads -> Seq(Steps)]
    BY <1>4, <2>1, StackTyped DEF WaitForEvent
  <2>3. QED
    BY <1>4, <2>2, TypedWithoutEnqueue DEF WaitForEvent, TypeOK
<1>5. ASSUME NEW e \in Events, RetainEvent(t, e)
      PROVE  TypeOK'
  <2> DEFINE r == [event[e] EXCEPT !.refs = event[e].refs + 1, !.user = event[e].user + 1]
  <2>1. r \in EventRecords
    <3>1. /\ event[e] \in EventRecords
          /\ event[e].refs + 1 \in Int /\ event[e].user + 1 \in Nat
      BY EventTyped
    <3>2. QED
      BY <3>1, EventFields
  <2>2. event' = [event EXCEPT ![e] = r]
    BY <1>5 DEF RetainEvent
  <2>3. event' \in Seq(EventRecords) /\ Len(event') = Len(event)
    BY <2>1, <2>2, EventWritten
  <2>4. QED
    BY <1>5, <2>3, TypedWithoutEnqueue DEF RetainEvent, TypeOK
<1>6. ASSUME NEW e \in Events, ReleaseEvent(t, e)
      PROVE  TypeOK'
  <2> DEFINE r == [event[e] EXCEPT !.refs = event[e].refs - 1, !.user = event[e].user - 1]
  <2>1. r \in EventRecords
    <3>1. event[e].user > 0
      BY <1>6 DEF ReleaseEvent, OwnsEvent
    <3>2. /\ event[e] \in EventRecords
          /\ event[e].refs - 1 \in Int /\ event[e].user - 1 \in Nat
      BY <3>1, EventTyped
    <3>3. QED
      BY <3>2, EventFields
  <2>2. event' = [event EXCEPT ![e] = r]
    BY <1>6 DEF ReleaseEvent
  <2>3. event' \in Seq(EventRecords) /\ Len(event') = Len(event)
    BY <2>1, <2>2, EventWritten
  <2>4. FreeEventSteps(e) \in Seq(Steps)
    BY ReleaseStepsTyped
  <2>5. stack' \in [Threads -> Seq(Steps)]
    <3>1. CASE event[e].refs = 1
      BY <1>6, <2>4, <3>1, StackTyped DEF ReleaseEvent
    <3>2. CASE event[e].refs # 1
      BY <1>6, <3>2 DEF ReleaseEvent, TypeOK
    <3>3. QED
      BY <3>1, <3>2
  <2>6. QED
    BY <1>6, <2>3, <2>5, TypedWithoutEnqueue DEF ReleaseEvent, TypeOK
<1>7. ASSUME NEW e \in Events, SetEventCallback(t, e)
      PROVE  TypeOK'
  <2> DEFINE r == [event[e] EXCEPT !.callbacks = @ + 1]
  <2>1. r \in EventRecords
    BY EventTyped DEF EventRecords
  <2>2. event' = [event EXCEPT ![e] = r]
    BY <1>7 DEF SetEventCallback
  <2>3. event' \in Seq(EventRecords) /\ Len(event') = Len(event)
    BY <2>1, <2>2, EventWritten
  <2>4. QED
    BY <1>7, <2>3, TypedWithoutEnqueue DEF SetEventCallback, TypeOK
<1>8. QED
  BY <1>1, <1>2, <1>3, <1>4, <1>5, <1>6, <1>7

\* The step a thread is at, with its type.
LEMMA AtTyped ==
  ASSUME TypeOK, NEW t \in Threads, NEW s, At(t, s)
  PROVE  /\ stack[t] # <<>> /\ Top(t) \in Steps /\ Top(t).step = s
         /\ <<>> \in Seq(Steps)
BY TopTyped DEF At, Top

\* Linking a command and writing its status.
LEMMA AppendTyped ==
  ASSUME TypeOK, NEW t \in Threads, AppendCommand(t)
  PROVE  TypeOK'
<1>1. At(t, "append")
  BY DEF AppendCommand
<1>2. Top(t).q \in Queues /\ Top(t).c \in Commands
  BY <1>1, AtTyped, StepKinds DEF EnqueueSteps
<1>3. root' \in [Queues -> Seq(Commands)]
  <2>1. Append(root[Top(t).q], Top(t).c) \in Seq(Commands)
    BY <1>2, AppendProperties DEF TypeOK
  <2>2. QED
    BY <1>2, <2>1 DEF AppendCommand, TypeOK
<1>4. stack' \in [Threads -> Seq(Steps)]
  BY <1>1, AtTyped, StackTyped DEF AppendCommand
<1>5. QED
  BY <1>3, <1>4, TypedWithoutEnqueue DEF AppendCommand, TypeOK

LEMMA StampTyped ==
  ASSUME TypeOK, NEW t \in Threads, StampQueued(t)
  PROVE  TypeOK'
<1> DEFINE e == command[Top(t).c].event
           r == [event[e] EXCEPT !.status = "QUEUED"]
<1>1. At(t, "stamp")
  BY DEF StampQueued
<1>2. e \in Events
  BY <1>1, AtTyped, StepKinds, CommandTyped DEF EnqueueSteps
<1>3. r \in EventRecords
  BY <1>2, EventTyped, EventFields DEF Statuses
<1>4. event' = [event EXCEPT ![e] = r]
  BY DEF StampQueued
<1>5. event' \in Seq(EventRecords) /\ Len(event') = Len(event)
  BY <1>2, <1>3, <1>4, EventWritten
<1>6. stack' \in [Threads -> Seq(Steps)]
  BY <1>1, AtTyped, StackTyped DEF StampQueued
<1>7. QED
  BY <1>5, <1>6, TypedWithoutEnqueue DEF StampQueued, TypeOK

\* The actions that only take their step off the stack.
LEMMA PopTyped ==
  ASSUME TypeOK, NEW t \in Threads, CallbackReturns(t) \/ Return(t)
  PROVE  TypeOK'
<1>1. At(t, "callback") \/ At(t, "run")
  BY DEF CallbackReturns, Return
<1>2. stack' \in [Threads -> Seq(Steps)]
  BY <1>1, AtTyped, StackTyped DEF CallbackReturns, Return
<1>3. QED
  BY <1>2, TypedWithoutEnqueue DEF CallbackReturns, Return, TypeOK

\* The two halves of clFinish, up to the unlock.
LEMMA LockTyped ==
  ASSUME TypeOK, NEW t \in Threads, LockQueue(t)
  PROVE  TypeOK'
<1>1. At(t, "lock")
  BY DEF LockQueue
<1>2. Top(t) \in LockSteps
  BY <1>1, AtTyped, StepKinds
<1>3. <<ScanStep(Top(t).q, Top(t).q, <<>>, Top(t).due)>> \in Seq(Steps)
  BY <1>2 DEF LockSteps, ScanStep, ScanSteps, Steps
<1>4. stack' \in [Threads -> Seq(Steps)]
  BY <1>1, <1>3, AtTyped, StackTyped DEF LockQueue
<1>5. lock' \in [Queues -> Threads \cup {NoThread}]
  BY <1>2 DEF LockQueue, LockSteps, TypeOK
<1>6. QED
  BY <1>4, <1>5, TypedWithoutEnqueue DEF LockQueue, TypeOK

LEMMA ScanTyped ==
  ASSUME TypeOK, NEW t \in Threads, Scan(t)
  PROVE  TypeOK'
<1> DEFINE f == Top(t)
           c == Head(root[f.hand])
           last == CHOOSE i \in Unready(c) : \A j \in Unready(c) : j <= i
<1>1. At(t, "scan")
  BY DEF Scan
<1>2. f \in ScanSteps
  BY <1>1, AtTyped, StepKinds
<1> HIDE DEF f
<1>3. f.hand \in Queues /\ f.q \in Queues /\ f.ready \in Seq(Commands)
  BY <1>2 DEF ScanSteps
<1>4. ASSUME root[f.hand] # <<>>
      PROVE  c \in Commands
  BY <1>3, <1>4, HeadTailProperties DEF TypeOK
<1>5. <<[f EXCEPT !.hand = f.q]>> \in Seq(Steps)
  BY <1>2, <1>3 DEF ScanSteps, Steps
<1>6. ASSUME root[f.hand] # <<>>, Unready(c) # {}
      PROVE  <<[f EXCEPT !.hand = event[command[c].waits[last]].queue]>> \in Seq(Steps)
  <2>1. command[c].waits \in Seq(Events)
    BY <1>4, <1>6, CommandTyped
  <2>2. Unready(c) \subseteq 1..Len(command[c].waits) /\ Len(command[c].waits) \in Nat
    BY <2>1, LenProperties DEF Unready
  <2>3. last \in Unready(c)
    BY <2>2, <1>6, LastExists
  <2> HIDE DEF last, c
  <2>4. command[c].waits[last] \in Events
    BY <2>1, <2>2, <2>3, ElementOfSeq
  <2>5. event[command[c].waits[last]].queue \in Queues
    BY <2>4, EventTyped
  <2>6. QED
    BY <1>2, <2>5 DEF ScanSteps, Steps
<1>7. ASSUME root[f.hand] # <<>>
      PROVE  <<SubmitStep([f EXCEPT !.ready = Append(@, c)])>> \in Seq(Steps)
  <2>1. Append(f.ready, c) \in Seq(Commands) \ {<<>>}
    BY <1>3, <1>4, <1>7, AppendProperties
  <2> HIDE DEF c
  <2>2. SubmitStep([f EXCEPT !.ready = Append(@, c)]) \in SubmitSteps
    BY <1>2, <2>1 DEF SubmitStep, ScanSteps, SubmitSteps
  <2>3. QED
    BY <2>2 DEF Steps
<1>8. stack' \in [Threads -> Seq(Steps)]
  <2>1. stack[t] # <<>>
    BY <1>1, AtTyped
  <2>2. CASE Replace(t, <<[f EXCEPT !.hand = f.q]>>)
    BY <1>5, <2>1, <2>2, StackTyped
  <2>3. CASE /\ root[f.hand] # <<>> /\ Unready(c) # {}
             /\ Replace(t, <<[f EXCEPT !.hand = event[command[c].waits[last]].queue]>>)
    BY <1>6, <2>1, <2>3, StackTyped
  <2>4. CASE /\ root[f.hand] # <<>>
             /\ Replace(t, <<SubmitStep([f EXCEPT !.ready = Append(@, c)])>>)
    BY <1>7, <2>1, <2>4, StackTyped
  <2>5. QED
    BY <2>2, <2>3, <2>4 DEF Scan, f
<1>9. QED
  BY <1>8, TypedWithoutEnqueue DEF Scan, TypeOK

LEMMA SubmitTyped ==
  ASSUME TypeOK, NEW t \in Threads, Submit(t)
  PROVE  TypeOK'
<1> DEFINE f == Top(t)
           c == f.ready[Len(f.ready)]
           e == command[c].event
           r == [event[e] EXCEPT !.status = "SUBMITTED"]
<1>1. At(t, "submit")
  BY DEF Submit
<1>2. f \in SubmitSteps
  BY <1>1, AtTyped, StepKinds
<1> HIDE DEF f
<1>3. c \in Commands
  <2>1. f.ready \in Seq(Commands) /\ f.ready # <<>>
    BY <1>2 DEF SubmitSteps
  <2>2. Len(f.ready) \in 1..Len(f.ready)
    BY <2>1, EmptySeq, LenProperties
  <2>3. QED
    BY <2>1, <2>2, ElementOfSeq
<1> HIDE DEF c
<1>4. e \in Events
  BY <1>3, CommandTyped
<1>5. r \in EventRecords
  BY <1>4, EventTyped, EventFields DEF Statuses
<1>6. CASE aborted' = TRUE /\ UNCHANGED <<event, root, stack>>
  BY <1>6, TypedWithoutEnqueue DEF Submit, TypeOK
<1>7. CASE /\ event' = [event EXCEPT ![e].status = "SUBMITTED"]
           /\ root' = [root EXCEPT ![f.hand] = Unlinked(@, c)]
           /\ Replace(t, <<[f EXCEPT !.step = "scan"]>>)
           /\ UNCHANGED aborted
  <2>1. event' = [event EXCEPT ![e] = r]
    BY <1>7
  <2>2. event' \in Seq(EventRecords) /\ Len(event') = Len(event)
    BY <1>4, <1>5, <2>1, EventWritten
  <2>3. root' \in [Queues -> Seq(Commands)]
    <3>1. f.hand \in Queues /\ Unlinked(root[f.hand], c) \in Seq(Commands)
      BY <1>2, UnlinkedTyped DEF SubmitSteps, TypeOK
    <3>2. QED
      BY <1>7, <3>1 DEF TypeOK
  <2>4. <<[f EXCEPT !.step = "scan"]>> \in Seq(Steps)
    BY <1>2 DEF SubmitSteps, ScanSteps, Steps
  <2>5. stack' \in [Threads -> Seq(Steps)]
    BY <1>1, <1>7, <2>4, AtTyped, StackTyped
  <2>6. QED
    BY <1>7, <2>2, <2>3, <2>5, TypedWithoutEnqueue DEF Submit, TypeOK
<1>8. QED
  BY <1>6, <1>7 DEF Submit, f, c

LEMMA UnlockTyped ==
  ASSUME TypeOK, NEW t \in Threads, UnlockQueue(t)
  PROVE  TypeOK'
<1>1. At(t, "scan")
  BY DEF UnlockQueue
<1>2. Top(t) \in ScanSteps
  BY <1>1, AtTyped, StepKinds
<1>3. <<RunStep("run", Top(t).ready, Top(t).due)>> \in Seq(Steps)
  BY <1>2 DEF ScanSteps, RunStep, RunSteps, Steps
<1>4. stack' \in [Threads -> Seq(Steps)]
  BY <1>1, <1>3, AtTyped, StackTyped DEF UnlockQueue
<1>5. lock' \in [Queues -> Threads \cup {NoThread}]
  BY <1>2 DEF UnlockQueue, ScanSteps, TypeOK
<1>6. QED
  BY <1>4, <1>5, TypedWithoutEnqueue DEF UnlockQueue, TypeOK

\* The status of the event of the command in execution.
LEMMA MoveStatusTyped ==
  ASSUME TypeOK, NEW t \in Threads, Top(t) \in RunSteps \cup BusySteps, Top(t).todo # <<>>,
         NEW from, NEW to \in Statuses, MoveStatus(t, from, to)
  PROVE  /\ Head(Top(t).todo) \in Commands
         /\ event' \in Seq(EventRecords) /\ Len(event') = Len(event)
         /\ aborted' \in BOOLEAN
<1> DEFINE c == Head(Top(t).todo)
           e == command[c].event
           r == [event[e] EXCEPT !.status = to]
<1>1. Top(t).todo \in Seq(Commands)
  BY DEF RunSteps, BusySteps
<1>2. c \in Commands
  BY <1>1, HeadTailProperties
<1> HIDE DEF c
<1>3. e \in Events
  BY <1>2, CommandTyped
<1>4. r \in EventRecords
  BY <1>3, EventTyped, EventFields
<1>5. \/ event' = [event EXCEPT ![e] = r] /\ UNCHANGED aborted
      \/ aborted' = TRUE /\ UNCHANGED event
  BY DEF MoveStatus, c
<1>6. event' \in Seq(EventRecords) /\ Len(event') = Len(event)
  <2> HIDE DEF e, r
  <2>1. CASE event' = [event EXCEPT ![e] = r]
    BY <1>3, <1>4, <2>1, EventWritten
  <2>2. CASE UNCHANGED event
    BY <2>2 DEF TypeOK
  <2>3. QED
    BY <1>5, <2>1, <2>2
<1>7. aborted' \in BOOLEAN
  BY <1>5 DEF TypeOK
<1>8. QED
  BY <1>2, <1>6, <1>7 DEF c

LEMMA StartTyped ==
  ASSUME TypeOK, NEW t \in Threads, StartCommand(t)
  PROVE  TypeOK'
<1>1. At(t, "run") /\ Top(t).todo # <<>>
  BY DEF StartCommand
<1>2. Top(t) \in RunSteps
  BY <1>1, AtTyped, StepKinds
<1>3. /\ Head(Top(t).todo) \in Commands
      /\ event' \in Seq(EventRecords) /\ Len(event') = Len(event)
      /\ aborted' \in BOOLEAN
  BY <1>1, <1>2, MoveStatusTyped DEF StartCommand, Statuses
<1>4. <<[Top(t) EXCEPT !.step = "complete"]>> \in Seq(Steps)
  BY <1>1, <1>2 DEF RunSteps, BusySteps, Steps
<1>5. stack' \in [Threads -> Seq(Steps)]
  BY <1>1, <1>4, AtTyped, StackTyped DEF StartCommand
<1>6. QED
  BY <1>3, <1>5, TypedWithoutEnqueue DEF StartCommand, TypeOK

LEMMA CompleteTyped ==
  ASSUME TypeOK, NEW t \in Threads, CompleteCommand(t)
  PROVE  TypeOK'
<1> DEFINE e == command[Head(Top(t).todo)].event
           steps == [i \in 1..event[e].callbacks |-> CallbackStep]
                    \o <<[Top(t) EXCEPT !.step = "release"]>>
<1>1. At(t, "complete")
  BY DEF CompleteCommand
<1>2. Top(t) \in BusySteps /\ Top(t).todo # <<>>
  BY <1>1, AtTyped, StepKinds DEF BusySteps
<1>3. /\ Head(Top(t).todo) \in Commands
      /\ event' \in Seq(EventRecords) /\ Len(event') = Len(event)
      /\ aborted' \in BOOLEAN
  BY <1>2, MoveStatusTyped DEF CompleteCommand, Statuses
<1>4. steps \in Seq(Steps)
  <2>1. event[e].callbacks \in Nat
    BY <1>3, CommandTyped, EventTyped
  <2>2. CallbackStep \in Steps
    BY DEF Steps
  <2>3. [i \in 1..event[e].callbacks |-> CallbackStep] \in Seq(Steps)
    BY <2>1, <2>2
  <2>4. <<[Top(t) EXCEPT !.step = "release"]>> \in Seq(Steps)
    BY <1>2 DEF BusySteps, Steps
  <2>5. QED
    BY <2>3, <2>4, ConcatProperties
<1>5. stack' \in [Threads -> Seq(Steps)]
  <2>1. Replace(t, steps) /\ stack[t] # <<>>
    BY <1>1, AtTyped DEF CompleteCommand
  <2> HIDE DEF steps
  <2>2. QED
    BY <1>4, <2>1, StackTyped
<1>6. QED
  BY <1>3, <1>5, TypedWithoutEnqueue DEF CompleteCommand, TypeOK

LEMMA ReleaseImplicitTyped ==
  ASSUME TypeOK, NEW t \in Threads, ReleaseImplicitEvent(t)
  PROVE  TypeOK'
<1> DEFINE c == Head(Top(t).todo)
           e == command[c].event
           next == [Top(t) EXCEPT !.step = "run", !.todo = Tail(@)]
           r == [event[e] EXCEPT !.refs = event[e].refs - 1]
           steps == (IF event[e].refs = 1 THEN FreeEventSteps(e) ELSE <<>>) \o <<next>>
<1>1. At(t, "release")
  BY DEF ReleaseImplicitEvent
<1>2. Top(t) \in BusySteps /\ stack[t] # <<>>
  BY <1>1, AtTyped, StepKinds
<1>3. Top(t).todo \in Seq(Commands) /\ Top(t).todo # <<>>
  BY <1>2 DEF BusySteps
<1>4. c \in Commands /\ Tail(Top(t).todo) \in Seq(Commands)
  BY <1>3, HeadTailProperties
<1>5. e \in Events
  BY <1>4, CommandTyped
<1>6. <<next>> \in Seq(Steps)
  <2>1. PICK rest \in Seq(Commands) : rest = Tail(Top(t).todo)
    BY <1>4
  <2>2. next = [Top(t) EXCEPT !.step = "run", !.todo = rest]
    BY <2>1
  <2>3. next \in RunSteps
    BY <1>2, <2>2 DEF BusySteps, RunSteps
  <2>4. QED
    BY <2>3 DEF Steps
<1>7. CASE Replace(t, <<next>>) /\ UNCHANGED event
  <2>1. stack' \in [Threads -> Seq(Steps)]
    BY <1>2, <1>6, <1>7, StackTyped
  <2>2. QED
    BY <1>7, <2>1, TypedWithoutEnqueue DEF ReleaseImplicitEvent, TypeOK
<1>8. CASE event' = [event EXCEPT ![e].refs = @ - 1] /\ Replace(t, steps)
  <2>1. steps \in Seq(Steps)
    BY <1>5, <1>6, AtTyped, <1>1, ReleaseStepsTyped, ConcatProperties
  <2>2. stack' \in [Threads -> Seq(Steps)]
    <3> HIDE DEF steps
    <3>1. QED
      BY <1>2, <1>8, <2>1, StackTyped
  <2>3. r \in EventRecords
    <3>1. event[e] \in EventRecords /\ event[e].refs - 1 \in Int
      BY <1>5, EventTyped
    <3>2. QED
      BY <3>1, EventFields
  <2>4. event' = [event EXCEPT ![e] = r]
    BY <1>8
  <2>5. event' \in Seq(EventRecords) /\ Len(event') = Len(event)
    BY <1>5, <2>3, <2>4, EventWritten
  <2>6. QED
    BY <2>2, <2>5, TypedWithoutEnqueue DEF ReleaseImplicitEvent, TypeOK
<1>9. QED
  BY <1>7, <1>8 DEF ReleaseImplicitEvent

\* The tail of a release: the queue's count, the event's cell.
LEMMA UnrefTyped ==
  ASSUME TypeOK, NEW t \in Threads, UnrefQueue(t)
  PROVE  TypeOK'
<1>1. At(t, "unref")
  BY DEF UnrefQueue
<1>2. Top(t).q \in Queues
  BY <1>1, AtTyped, StepKinds DEF UnrefSteps
<1>3. stack' \in [Threads -> Seq(Steps)]
  BY <1>1, AtTyped, StackTyped DEF UnrefQueue
<1>4. qrefs' \in [Queues -> Int]
  BY <1>2 DEF UnrefQueue, TypeOK
<1>5. QED
  BY <1>3, <1>4, TypedWithoutEnqueue DEF UnrefQueue, TypeOK

LEMMA RecycleTyped ==
  ASSUME TypeOK, NEW t \in Threads, RecycleEvent(t)
  PROVE  TypeOK'
<1>1. At(t, "recycle")
  BY DEF RecycleEvent
<1>2. <<Top(t).e>> \in Seq(Events)
  BY <1>1, AtTyped, StepKinds DEF RecycleSteps
<1>3. pool' \in Seq(Events)
  BY <1>2, ConcatProperties DEF RecycleEvent, TypeOK
<1>4. stack' \in [Threads -> Seq(Steps)]
  BY <1>1, AtTyped, StackTyped DEF RecycleEvent
<1>5. QED
  BY <1>3, <1>4, TypedWithoutEnqueue DEF RecycleEvent, TypeOK

LEMMA TypeStep == TypeOK /\ [Next]_vars => TypeOK'
<1> SUFFICES ASSUME TypeOK, [Next]_vars
             PROVE  TypeOK'
  OBVIOUS
<1>1. ASSUME NEW t \in Threads, ClientCall(t)
      PROVE  TypeOK'
  BY <1>1, EnqueueTyped, ClientTyped DEF ClientCall
<1>2. ASSUME NEW t \in Threads, RuntimeStep(t)
      PROVE  TypeOK'
  BY <1>2, AppendTyped, StampTyped, PopTyped, LockTyped, ScanTyped, SubmitTyped, UnlockTyped,
     StartTyped, CompleteTyped, ReleaseImplicitTyped, UnrefTyped, RecycleTyped DEF RuntimeStep
<1>3. CASE UNCHANGED vars
  <2>1. UNCHANGED <<Commands, Events, EventRecords, CommandRecords, Steps>>
    BY <1>3 DEF vars, Commands, Events, EventRecords, CommandRecords, Steps, LockSteps,
       ScanSteps, SubmitSteps, RunSteps, BusySteps, UnrefSteps, RecycleSteps, EnqueueSteps
  <2>2. QED
    BY <1>3, <2>1 DEF vars, TypeOK
<1>4. QED
  BY <1>1, <1>2, <1>3 DEF Next

\* The runtime's state is well typed for every number of threads, queues and
\* commands: in particular no list of the runtime ever names a command or an
\* event cell that was not created.
THEOREM QueueTypes == Spec => []TypeOK
<1>1. Init => TypeOK
  <2> SUFFICES ASSUME Init
               PROVE  TypeOK
    OBVIOUS
  <2>1. \A S : <<>> \in Seq(S)
    OBVIOUS
  <2>2. root \in [Queues -> Seq(Commands)] /\ stack \in [Threads -> Seq(Steps)]
    BY <2>1 DEF Init
  <2>3. event \in Seq(EventRecords) /\ pool \in Seq(Events) /\ command \in Seq(CommandRecords)
    BY <2>1 DEF Init
  <2>4. lock \in [Queues -> Threads \cup {NoThread}]
        /\ qrefs \in [Queues -> Int] /\ quser \in [Queues -> Nat]
    BY DEF Init
  <2>5. started \subseteq Commands /\ finished \subseteq Commands /\ aborted \in BOOLEAN
    BY DEF Init
  <2>6. QED
    BY <2>2, <2>3, <2>4, <2>5 DEF TypeOK
<1>2. QED
  BY <1>1, TypeStep, PTL DEF Spec

-----------------------------------------------------------------------------
(* The locks.                                                                  *)

\* A queue's lock is held only by a thread that is in the loop of clFinish on
\* that queue, so it calls nothing while it holds the lock.
LockInv ==
  \A q \in Queues, t \in Threads :
    lock[q] = t => /\ stack[t] # <<>>
                   /\ Top(t).step \in {"scan", "submit"}
                   /\ Top(t).q = q

LEMMA HeadOfConcat ==
  ASSUME NEW S, NEW x \in S, NEW s \in Seq(S)
  PROVE  <<x>> \o s # <<>> /\ Head(<<x>> \o s) = x
BY ConcatProperties, HeadTailProperties, LenProperties

\* Only the stack of the thread that takes the step changes.
LEMMA OtherStacks ==
  ASSUME TypeOK, NEW t \in Threads, NEW steps,
         Replace(t, steps) \/ Push(t, steps) \/ UNCHANGED stack
  PROVE  \A u \in Threads \ {t} : stack'[u] = stack[u]
BY DEF TypeOK, Replace, Push

\* A thread that holds no lock may do what it likes with its own stack.
LEMMA LocksKept ==
  ASSUME LockInv, NEW t \in Threads, UNCHANGED lock,
         stack[t] = <<>> \/ Top(t).step \notin {"scan", "submit"},
         \A u \in Threads \ {t} : stack'[u] = stack[u]
  PROVE  LockInv'
<1>1. \A q \in Queues : lock[q] # t
  BY DEF LockInv
<1>2. QED
  BY <1>1 DEF LockInv, Top

\* Client calls come from threads that are idle or inside a callback.
LEMMA ClientKeepsLocks ==
  ASSUME TypeOK, LockInv, NEW t \in Threads, ClientCall(t)
  PROVE  LockInv'
<1>1. \A u \in Threads \ {t} : stack'[u] = stack[u]
  BY OtherStacks DEF ClientCall, Enqueue, Finish, RetainQueue, ReleaseQueue, WaitForEvent,
     RetainEvent, ReleaseEvent, SetEventCallback
<1>2. stack[t] = <<>> \/ Top(t).step = "callback"
  BY DEF ClientCall, Enqueue, Finish, RetainQueue, ReleaseQueue, WaitForEvent,
     RetainEvent, ReleaseEvent, SetEventCallback, Calling, Idle, At, Top
<1>3. UNCHANGED lock
  BY DEF ClientCall, Enqueue, Finish, RetainQueue, ReleaseQueue, WaitForEvent,
     RetainEvent, ReleaseEvent, SetEventCallback
<1>4. QED
  BY <1>1, <1>2, <1>3, LocksKept

\* The thread in the loop of clFinish goes on with the queue it has locked.
LEMMA LoopKeepsLocks ==
  ASSUME TypeOK, LockInv, NEW t \in Threads, NEW f, stack[t] # <<>>, Replace(t, <<f>>),
         UNCHANGED lock, f.step \in {"scan", "submit"}, f.q = Top(t).q
  PROVE  LockInv'
<1>1. \A u \in Threads \ {t} : stack'[u] = stack[u]
  BY OtherStacks
<1>2. stack'[t] # <<>> /\ Head(stack'[t]) = f
  <2>1. stack'[t] = <<f>> \o Tail(stack[t])
    BY DEF Replace, TypeOK
  <2>2. Tail(stack[t]) \in Seq(Steps \cup {f})
    BY TopTyped, SeqMonotonic
  <2>3. QED
    BY <2>1, <2>2, HeadOfConcat
<1>3. QED
  BY <1>1, <1>2 DEF LockInv, Top

LEMMA LockStepKeepsLocks ==
  ASSUME TypeOK, LockInv, NEW t \in Threads, LockQueue(t)
  PROVE  LockInv'
<1> DEFINE q == Top(t).q
           f == ScanStep(q, q, <<>>, Top(t).due)
<1>1. At(t, "lock")
  BY DEF LockQueue
<1>2. Top(t) \in LockSteps /\ stack[t] # <<>>
  BY <1>1, AtTyped, StepKinds
<1>3. f \in Steps
  <2>1. <<>> \in Seq(Commands)
    OBVIOUS
  <2>2. QED
    BY <1>2, <2>1 DEF LockSteps, ScanStep, ScanSteps, Steps
<1>4. stack'[t] # <<>> /\ Head(stack'[t]) = f
  <2>1. stack'[t] = <<f>> \o Tail(stack[t])
    BY DEF LockQueue, Replace, TypeOK
  <2>2. QED
    BY <1>2, <1>3, <2>1, TopTyped, HeadOfConcat
<1>5. \A u \in Threads \ {t} : stack'[u] = stack[u]
  BY OtherStacks DEF LockQueue
<1>6. lock' = [lock EXCEPT ![q] = t]
  BY DEF LockQueue
<1>7. \A p \in Queues : lock[p] # t
  BY <1>1, AtTyped DEF LockInv
<1>8. f.step = "scan" /\ f.q = q
  BY DEF ScanStep
<1> HIDE DEF f
<1>9. QED
  BY <1>4, <1>5, <1>6, <1>7, <1>8 DEF LockInv, Top, TypeOK

LEMMA ScanKeepsLocks ==
  ASSUME TypeOK, LockInv, NEW t \in Threads, Scan(t)
  PROVE  LockInv'
<1>1. At(t, "scan") /\ stack[t] # <<>> /\ UNCHANGED lock
  BY AtTyped DEF Scan
<1>2. Top(t) \in ScanSteps
  BY <1>1, AtTyped, StepKinds
<1>3. \A h : LET f == [Top(t) EXCEPT !.hand = h] IN f.step = "scan" /\ f.q = Top(t).q
  BY <1>2 DEF ScanSteps
<1>4. \A r : LET f == SubmitStep([Top(t) EXCEPT !.ready = r])
             IN  f.step = "submit" /\ f.q = Top(t).q
  BY <1>2 DEF ScanSteps, SubmitStep
<1>5. \/ \E h : Replace(t, <<[Top(t) EXCEPT !.hand = h]>>)
      \/ \E r : Replace(t, <<SubmitStep([Top(t) EXCEPT !.ready = r])>>)
  BY DEF Scan
<1>6. QED
  BY <1>1, <1>3, <1>4, <1>5, LoopKeepsLocks

LEMMA SubmitKeepsLocks ==
  ASSUME TypeOK, LockInv, NEW t \in Threads, Submit(t)
  PROVE  LockInv'
<1>1. At(t, "submit") /\ stack[t] # <<>> /\ UNCHANGED lock
  BY AtTyped DEF Submit
<1>2. Top(t) \in SubmitSteps
  BY <1>1, AtTyped, StepKinds
<1>3. CASE UNCHANGED stack
  BY <1>1, <1>3 DEF LockInv, Top
<1>4. CASE Replace(t, <<[Top(t) EXCEPT !.step = "scan"]>>)
  <2> DEFINE f == [Top(t) EXCEPT !.step = "scan"]
  <2>1. f.step = "scan" /\ f.q = Top(t).q
    BY <1>2 DEF SubmitSteps
  <2>2. QED
    BY <1>1, <1>4, <2>1, LoopKeepsLocks
<1>5. QED
  BY <1>3, <1>4 DEF Submit

LEMMA UnlockKeepsLocks ==
  ASSUME TypeOK, LockInv, NEW t \in Threads, UnlockQueue(t)
  PROVE  LockInv'
<1>1. At(t, "scan") /\ lock' = [lock EXCEPT ![Top(t).q] = NoThread]
  BY DEF UnlockQueue
<1>2. Top(t).q \in Queues
  BY <1>1, AtTyped, StepKinds DEF ScanSteps
<1>3. \A p \in Queues : lock'[p] # t /\ (lock'[p] = lock[p] \/ lock'[p] \notin Threads)
  BY <1>1, <1>2, ClientAssumption DEF LockInv, TypeOK
<1>4. \A u \in Threads \ {t} : stack'[u] = stack[u]
  BY OtherStacks DEF UnlockQueue
<1>5. QED
  BY <1>3, <1>4 DEF LockInv, Top

LEMMA LocksStep == TypeOK /\ LockInv /\ [Next]_vars => LockInv'
<1> SUFFICES ASSUME TypeOK, LockInv, [Next]_vars
             PROVE  LockInv'
  OBVIOUS
<1>1. ASSUME NEW t \in Threads, RuntimeStep(t),
             ~(LockQueue(t) \/ Scan(t) \/ Submit(t) \/ UnlockQueue(t))
      PROVE  LockInv'
  <2>1. UNCHANGED lock /\ Top(t).step \notin {"scan", "submit"}
    BY <1>1 DEF RuntimeStep, AppendCommand, StampQueued, CallbackReturns, StartCommand,
       CompleteCommand, ReleaseImplicitEvent, Return, UnrefQueue, RecycleEvent, At, Top
  <2>2. \A u \in Threads \ {t} : stack'[u] = stack[u]
    BY <1>1, OtherStacks DEF RuntimeStep, AppendCommand, StampQueued, CallbackReturns,
       StartCommand, CompleteCommand, ReleaseImplicitEvent, Return, UnrefQueue, RecycleEvent
  <2>3. QED
    BY <2>1, <2>2, LocksKept
<1>2. CASE UNCHANGED vars
  BY <1>2 DEF vars, LockInv, Top
<1>3. QED
  BY <1>1, <1>2, ClientKeepsLocks, LockStepKeepsLocks, ScanKeepsLocks, SubmitKeepsLocks,
     UnlockKeepsLocks DEF Next, RuntimeStep

\* No thread ever asks for a pocl_lock it already holds, although exec_commands
\* enters clFinish again through event releases and callbacks may enqueue: the
\* lock is always dropped before anything that could call back is executed.
THEOREM NoThreadDeadlocksItself == Spec => []NoSelfDeadlock
<1>1. Init => LockInv
  BY ClientAssumption DEF Init, LockInv
<1>2. TypeOK /\ LockInv => NoSelfDeadlock
  <2> SUFFICES ASSUME TypeOK, LockInv, NEW t \in Threads, stack[t] # <<>>,
                      Top(t).step \in {"lock", "append", "unref"}
               PROVE  lock[Top(t).q] # t
    BY DEF NoSelfDeadlock
  <2>1. Top(t).q \in Queues
    BY TopTyped, StepKinds DEF LockSteps, EnqueueSteps, UnrefSteps
  <2>2. QED
    BY <2>1 DEF LockInv
<1>3. QED
  BY <1>1, <1>2, QueueTypes, LocksStep, PTL DEF Spec

-----------------------------------------------------------------------------
(* A stack seen from its bottom: what a step leaves alone keeps its level.     *)

Depth(t) == Len(stack[t])
Level(t, l) == stack[t][Depth(t) + 1 - l]

LEMMA Levels ==
  ASSUME TypeOK, NEW t \in Threads
  PROVE  /\ Depth(t) \in Nat /\ (Depth(t) = 0 <=> stack[t] = <<>>)
         /\ \A l \in 1..Depth(t) : Level(t, l) \in Steps
         /\ stack[t] # <<>> => Depth(t) \in 1..Depth(t) /\ Level(t, Depth(t)) = Top(t)
<1>1. stack[t] \in Seq(Steps)
  BY DEF TypeOK
<1>2. Depth(t) \in Nat /\ (Depth(t) = 0 <=> stack[t] = <<>>)
  BY <1>1, EmptySeq, LenProperties DEF Depth
<1>3. ASSUME NEW l \in 1..Depth(t)
      PROVE  Level(t, l) \in Steps
  <2>1. Depth(t) + 1 - l \in 1..Len(stack[t])
    BY <1>2 DEF Depth
  <2>2. QED
    BY <1>1, <2>1, ElementOfSeq DEF Level
<1>4. ASSUME stack[t] # <<>>
      PROVE  Depth(t) \in 1..Depth(t) /\ Level(t, Depth(t)) = Top(t)
  <2>1. Depth(t) \in 1..Depth(t) /\ Depth(t) + 1 - Depth(t) = 1
    BY <1>2, <1>4
  <2>2. QED
    BY <1>1, <1>4, <2>1, HeadTailProperties DEF Level, Top
<1>5. QED
  BY <1>2, <1>3, <1>4

\* The steps new are put on the k lowest levels.
Onto(t, k, new) ==
  /\ k \in 0..Depth(t) /\ Depth(t)' = k + Len(new)
  /\ \A l \in 1..Depth(t)' :
       Level(t, l)' = IF l <= k THEN Level(t, l) ELSE new[Depth(t)' + 1 - l]

LEMMA Pushed ==
  ASSUME TypeOK, NEW t \in Threads, NEW S, Steps \subseteq S, NEW new \in Seq(S), Push(t, new)
  PROVE  Onto(t, Depth(t), new)
<1>1. stack[t] \in Seq(S) /\ Len(stack[t]) = Depth(t)
  BY SeqMonotonic DEF TypeOK, Depth
<1>2. stack'[t] = new \o stack[t]
  BY DEF Push, TypeOK
<1>3. /\ Depth(t) \in Nat /\ Len(new) \in Nat
      /\ Len(new \o stack[t]) = Len(new) + Depth(t)
      /\ \A j \in 1..Len(new) + Depth(t) :
           (new \o stack[t])[j] = IF j <= Len(new) THEN new[j] ELSE stack[t][j - Len(new)]
  <2>1. /\ Len(new \o stack[t]) = Len(new) + Len(stack[t])
        /\ \A j \in 1..Len(new) + Len(stack[t]) :
             (new \o stack[t])[j] = IF j <= Len(new) THEN new[j] ELSE stack[t][j - Len(new)]
    BY <1>1, ConcatProperties
  <2>2. QED
    BY <1>1, <2>1, LenProperties
<1>4. Depth(t)' = Depth(t) + Len(new)
  BY <1>2, <1>3 DEF Depth
<1>5. ASSUME NEW l \in 1..Depth(t)'
      PROVE  Level(t, l)' = IF l <= Depth(t) THEN Level(t, l) ELSE new[Depth(t)' + 1 - l]
  <2> DEFINE j == Len(new) + Depth(t) + 1 - l
  <2>1. j \in 1..Len(new) + Depth(t) /\ (l <= Depth(t) <=> ~(j <= Len(new)))
        /\ j - Len(new) = Depth(t) + 1 - l /\ j = Depth(t)' + 1 - l
    BY <1>3, <1>4
  <2>2. Level(t, l)' = (new \o stack[t])[j]
    BY <1>2, <2>1 DEF Level
  <2>3. QED
    BY <1>3, <2>1, <2>2 DEF Level
<1>6. QED
  BY <1>3, <1>4, <1>5 DEF Onto

LEMMA Replaced ==
  ASSUME TypeOK, NEW t \in Threads, NEW S, Steps \subseteq S, NEW new \in Seq(S), stack[t] # <<>>,
         Replace(t, new)
  PROVE  Onto(t, Depth(t) - 1, new)
<1>1. stack[t] \in Seq(S)
  BY SeqMonotonic DEF TypeOK
<1> DEFINE low == Tail(stack[t])
<1>2. /\ low \in Seq(S) /\ Len(low) = Depth(t) - 1
      /\ \A j \in 1..Len(low) : low[j] = stack[t][j + 1]
  BY <1>1, HeadTailProperties DEF Depth
<1>3. stack'[t] = new \o low
  BY DEF Replace, TypeOK
<1>4. Depth(t) \in Nat /\ Depth(t) >= 1 /\ Depth(t) - 1 \in 0..Depth(t) /\ Len(new) \in Nat
  BY Levels, LenProperties
<1> HIDE DEF low
<1>5. /\ Len(new \o low) = Len(new) + Len(low)
      /\ \A j \in 1..Len(new) + Len(low) :
           (new \o low)[j] = IF j <= Len(new) THEN new[j] ELSE low[j - Len(new)]
  BY <1>2, LenProperties, ConcatProperties
<1>6. Depth(t)' = (Depth(t) - 1) + Len(new)
  BY <1>2, <1>3, <1>4, <1>5 DEF Depth
<1>7. ASSUME NEW l \in 1..Depth(t)'
      PROVE  Level(t, l)' = IF l <= Depth(t) - 1 THEN Level(t, l) ELSE new[Depth(t)' + 1 - l]
  <2> DEFINE j == Len(new) + Len(low) + 1 - l
  <2>1. j \in 1..Len(new) + Len(low) /\ (l <= Depth(t) - 1 <=> ~(j <= Len(new)))
        /\ j = Depth(t)' + 1 - l
    BY <1>2, <1>4, <1>6
  <2>2. Level(t, l)' = (new \o low)[j]
    BY <1>2, <1>3, <1>5, <2>1 DEF Level
  <2>3. CASE l <= Depth(t) - 1
    <3>1. j - Len(new) \in 1..Len(low) /\ (j - Len(new)) + 1 = Depth(t) + 1 - l
      BY <1>2, <1>4, <2>1, <2>3
    <3>2. (new \o low)[j] = low[j - Len(new)]
      BY <1>5, <2>1, <2>3
    <3>3. low[j - Len(new)] = stack[t][Depth(t) + 1 - l]
      BY <1>2, <3>1
    <3>4. QED
      BY <2>2, <2>3, <3>2, <3>3 DEF Level
  <2>4. CASE ~(l <= Depth(t) - 1)
    BY <1>5, <2>1, <2>2, <2>4
  <2>5. QED
    BY <2>3, <2>4
<1>8. QED
  BY <1>4, <1>6, <1>7 DEF Onto

\* The top step leaves.
LEMMA TopLeaves ==
  ASSUME TypeOK, NEW t \in Threads, stack[t] # <<>>, Replace(t, <<>>)
  PROVE  /\ Depth(t) \in Nat /\ Depth(t) > 0 /\ Depth(t)' = Depth(t) - 1
         /\ \A l \in 1..Depth(t)' : Level(t, l)' = Level(t, l)
<1>1. <<>> \in Seq(Steps) /\ Len(<<>>) = 0
  OBVIOUS
<1>2. Onto(t, Depth(t) - 1, <<>>)
  BY <1>1, Replaced
<1>3. Depth(t) \in Nat /\ Depth(t) > 0
  BY Levels
<1>4. Depth(t)' = Depth(t) - 1
  BY <1>1, <1>2, <1>3 DEF Onto
<1>5. QED
  BY <1>2, <1>3, <1>4 DEF Onto

\* The top step becomes f, and the steps quiet come above it.
LEMMA TopCovered ==
  ASSUME TypeOK, NEW t \in Threads, NEW S, Steps \subseteq S, NEW quiet \in Seq(S), NEW f \in S,
         stack[t] # <<>>, Replace(t, quiet \o <<f>>)
  PROVE  /\ Depth(t) \in Nat /\ Depth(t) > 0 /\ Len(quiet) \in Nat
         /\ Depth(t)' = Depth(t) + Len(quiet)
         /\ \A l \in 1..Depth(t)' :
              Level(t, l)' = IF l < Depth(t) THEN Level(t, l)
                             ELSE IF l = Depth(t) THEN f ELSE quiet[Depth(t)' + 1 - l]
<1>1. /\ <<f>> \in Seq(S) /\ Len(<<f>>) = 1 /\ <<f>>[1] = f
  OBVIOUS
<1>2. /\ quiet \o <<f>> \in Seq(S) /\ Len(quiet) \in Nat
      /\ Len(quiet \o <<f>>) = Len(quiet) + 1
      /\ \A i \in 1..Len(quiet) : (quiet \o <<f>>)[i] = quiet[i]
      /\ (quiet \o <<f>>)[Len(quiet) + 1] = f
  <2>1. /\ quiet \o <<f>> \in Seq(S)
        /\ Len(quiet \o <<f>>) = Len(quiet) + Len(<<f>>)
        /\ \A i \in 1..Len(quiet) + Len(<<f>>) :
             (quiet \o <<f>>)[i] = IF i <= Len(quiet) THEN quiet[i] ELSE <<f>>[i - Len(quiet)]
    BY <1>1, ConcatProperties
  <2>2. Len(quiet) \in Nat
    BY LenProperties
  <2>3. (Len(quiet) + 1) - Len(quiet) = 1
    BY <2>2
  <2>4. QED
    BY <1>1, <2>1, <2>2, <2>3
<1> DEFINE new == quiet \o <<f>>
<1> HIDE DEF new
<1>3. Onto(t, Depth(t) - 1, new)
  BY <1>2, Replaced DEF new
<1>4. Depth(t) \in Nat /\ Depth(t) > 0
  BY Levels
<1>5. Depth(t)' = Depth(t) + Len(quiet)
  BY <1>2, <1>3, <1>4 DEF Onto, new
<1>6. ASSUME NEW l \in 1..Depth(t)'
      PROVE  Level(t, l)' = IF l < Depth(t) THEN Level(t, l)
                            ELSE IF l = Depth(t) THEN f ELSE quiet[Depth(t)' + 1 - l]
  <2>1. Level(t, l)' = IF l <= Depth(t) - 1 THEN Level(t, l) ELSE new[Depth(t)' + 1 - l]
    BY <1>3 DEF Onto
  <2>2. CASE l < Depth(t)
    BY <1>4, <2>1, <2>2
  <2>3. CASE l = Depth(t)
    <3>1. Depth(t)' + 1 - l = Len(quiet) + 1
      BY <1>2, <1>4, <1>5, <2>3
    <3>2. QED
      BY <1>2, <1>4, <2>1, <2>3, <3>1 DEF new
  <2>4. CASE l > Depth(t)
    <3>1. Depth(t)' + 1 - l \in 1..Len(quiet)
      BY <1>2, <1>4, <1>5, <2>4
    <3>2. QED
      BY <1>2, <1>4, <2>1, <2>4, <3>1 DEF new
  <2>5. QED
    BY <1>4, <2>2, <2>3, <2>4
<1>7. QED
  BY <1>2, <1>4, <1>5, <1>6

\* The top step becomes f.
LEMMA TopWritten ==
  ASSUME TypeOK, NEW t \in Threads, NEW f \in Steps, stack[t] # <<>>, Replace(t, <<f>>)
  PROVE  /\ Depth(t) \in Nat /\ Depth(t) > 0 /\ Depth(t)' = Depth(t)
         /\ \A l \in 1..Depth(t) : Level(t, l)' = IF l = Depth(t) THEN f ELSE Level(t, l)
<1> DEFINE none == <<>>
<1>1. none \in Seq(Steps) /\ Len(none) = 0 /\ <<f>> = none \o <<f>>
  OBVIOUS
<1> HIDE DEF none
<1>2. Replace(t, none \o <<f>>)
  BY <1>1
<1>3. /\ Depth(t) \in Nat /\ Depth(t) > 0 /\ Depth(t)' = Depth(t) + Len(none)
      /\ \A l \in 1..Depth(t)' :
           Level(t, l)' = IF l < Depth(t) THEN Level(t, l)
                          ELSE IF l = Depth(t) THEN f ELSE none[Depth(t)' + 1 - l]
  BY <1>1, <1>2, TopCovered
<1>4. QED
  BY <1>1, <1>3

\* Steps are put on the stack.
LEMMA StepsAdded ==
  ASSUME TypeOK, NEW t \in Threads, NEW S, Steps \subseteq S, NEW new \in Seq(S), Push(t, new)
  PROVE  /\ Depth(t) \in Nat /\ Len(new) \in Nat /\ Depth(t)' = Depth(t) + Len(new)
         /\ \A l \in 1..Depth(t)' :
              Level(t, l)' = IF l <= Depth(t) THEN Level(t, l) ELSE new[Depth(t)' + 1 - l]
<1>1. Onto(t, Depth(t), new)
  BY Pushed
<1>2. Depth(t) \in Nat /\ Len(new) \in Nat
  BY Levels, LenProperties
<1>3. QED
  BY <1>1, <1>2 DEF Onto

-----------------------------------------------------------------------------
(* The commands the steps of a thread hold, level by level.                    *)

Held(t, l) == IF l \in 1..Depth(t) THEN Holds(Level(t, l)) ELSE <<>>

\* Level k comes to hold s, the other levels hold what they held.
HeldBecomes(t, k, s) == \A l : Held(t, l)' = IF l = k THEN s ELSE Held(t, l)

LEMMA HoldsKinds ==
  ASSUME NEW f
  PROVE  /\ f.step = "append" => Holds(f) = <<f.c>>
         /\ f.step = "scan" => Holds(f) = f.ready
         /\ f.step = "submit" => Holds(f) = Front(f.ready)
         /\ f.step \in {"run", "complete", "release"} => Holds(f) = f.todo
         /\ f.step \in {"lock", "unref", "recycle", "stamp", "callback"} => Holds(f) = <<>>
BY DEF Holds

LEMMA FrontAndLast ==
  ASSUME NEW S, NEW s \in Seq(S), s # <<>>
  PROVE  /\ Front(s) \in Seq(S) /\ Last(s) \in S
         /\ Len(s) \in Nat /\ Len(s) > 0 /\ Len(Front(s)) = Len(s) - 1
         /\ \A i \in 1..(Len(s) - 1) : Front(s)[i] = s[i]
         /\ s[Len(s)] = Last(s)
<1>1. Len(s) \in Nat /\ Len(s) > 0
  BY EmptySeq, LenProperties
<1>2. \A i \in 1..Len(s) : s[i] \in S
  BY ElementOfSeq
<1>3. Len(s) - 1 \in Int /\ \A i \in 1..(Len(s) - 1) : s[i] \in S
  BY <1>1, <1>2
<1>4. /\ SubSeq(s, 1, Len(s) - 1) \in Seq(S)
      /\ Len(SubSeq(s, 1, Len(s) - 1)) = IF 1 <= Len(s) - 1 THEN ((Len(s) - 1) - 1) + 1 ELSE 0
      /\ \A i \in 1..((Len(s) - 1) - 1) + 1 : SubSeq(s, 1, Len(s) - 1)[i] = s[(1 + i) - 1]
  BY <1>1, <1>3, SubSeqProperties
<1>5. \A i \in 1..(Len(s) - 1) : Front(s)[i] = s[i]
  <2> SUFFICES ASSUME NEW i \in 1..(Len(s) - 1)
               PROVE  Front(s)[i] = s[i]
    OBVIOUS
  <2>1. i \in 1..((Len(s) - 1) - 1) + 1 /\ (1 + i) - 1 = i
    BY <1>1
  <2>2. QED
    BY <1>4, <2>1 DEF Front
<1>6. Front(s) \in Seq(S)
  BY <1>4 DEF Front
<1>7. Len(Front(s)) = Len(s) - 1
  <2> DEFINE fr == SubSeq(s, 1, Len(s) - 1)
             n == Len(s)
  <2>1. Len(fr) = IF 1 <= n - 1 THEN ((n - 1) - 1) + 1 ELSE 0
    BY <1>4
  <2>2. n \in Nat /\ n > 0
    BY <1>1
  <2> HIDE DEF fr, n
  <2>3. Len(fr) = n - 1
    BY <2>1, <2>2
  <2>4. QED
    BY <2>3 DEF Front, fr, n
<1>8. Last(s) \in S /\ s[Len(s)] = Last(s)
  BY <1>1, <1>2 DEF Last
<1>9. QED
  BY <1>1, <1>5, <1>6, <1>7, <1>8

LEMMA HoldsTyped ==
  ASSUME NEW f \in Steps
  PROVE  Holds(f) \in Seq(Commands)
<1>1. CASE f.step = "append"
  <2>1. f.c \in Commands
    BY <1>1, StepKinds DEF EnqueueSteps
  <2>2. <<f.c>> \in Seq(Commands)
    BY <2>1
  <2>3. QED
    BY <1>1, <2>2, HoldsKinds
<1>2. CASE f.step = "scan"
  BY <1>2, StepKinds, HoldsKinds DEF ScanSteps
<1>3. CASE f.step = "submit"
  <2>1. f.ready \in Seq(Commands) /\ f.ready # <<>>
    BY <1>3, StepKinds DEF SubmitSteps
  <2>2. QED
    BY <1>3, <2>1, HoldsKinds, FrontAndLast
<1>4. CASE f.step \in {"run", "complete", "release"}
  BY <1>4, StepKinds, HoldsKinds DEF RunSteps, BusySteps
<1>5. CASE f.step \notin {"append", "scan", "submit", "run", "complete", "release"}
  BY <1>5 DEF Holds
<1>6. QED
  BY <1>1, <1>2, <1>3, <1>4, <1>5

LEMMA HeldTyped ==
  ASSUME TypeOK, NEW t \in Threads
  PROVE  \A l : Held(t, l) \in Seq(Commands)
BY Levels, HoldsTyped DEF Held

LEMMA HeldTop ==
  ASSUME TypeOK, NEW t \in Threads, stack[t] # <<>>
  PROVE  Depth(t) \in Nat /\ Depth(t) > 0 /\ Held(t, Depth(t)) = Holds(Top(t))
BY Levels DEF Held

LEMMA HeldLeaves ==
  ASSUME TypeOK, NEW t \in Threads, stack[t] # <<>>, Replace(t, <<>>)
  PROVE  HeldBecomes(t, Depth(t), <<>>)
<1>1. /\ Depth(t) \in Nat /\ Depth(t) > 0 /\ Depth(t)' = Depth(t) - 1
      /\ \A l \in 1..Depth(t)' : Level(t, l)' = Level(t, l)
  BY TopLeaves
<1>2. ASSUME NEW l
      PROVE  Held(t, l)' = IF l = Depth(t) THEN <<>> ELSE Held(t, l)
  <2>1. CASE l \in 1..Depth(t)'
    <3>1. l \in 1..Depth(t) /\ l # Depth(t)
      BY <1>1, <2>1
    <3>2. Holds(Level(t, l)') = Holds(Level(t, l))
      BY <1>1, <2>1
    <3>3. Held(t, l)' = Holds(Level(t, l)')
      BY <2>1 DEF Held, Holds
    <3>4. QED
      BY <3>1, <3>2, <3>3 DEF Held
  <2>2. CASE l \notin 1..Depth(t)'
    <3>1. l = Depth(t) \/ l \notin 1..Depth(t)
      BY <1>1, <2>2
    <3>2. QED
      BY <2>2, <3>1 DEF Held
  <2>3. QED
    BY <2>1, <2>2
<1>3. QED
  BY <1>2 DEF HeldBecomes

LEMMA HeldCovered ==
  ASSUME TypeOK, NEW t \in Threads, NEW S, Steps \subseteq S, NEW quiet \in Seq(S), NEW f \in S,
         stack[t] # <<>>, Replace(t, quiet \o <<f>>),
         \A i \in 1..Len(quiet) : Holds(quiet[i]) = <<>>
  PROVE  HeldBecomes(t, Depth(t), Holds(f))
<1>1. /\ Depth(t) \in Nat /\ Depth(t) > 0 /\ Len(quiet) \in Nat
      /\ Depth(t)' = Depth(t) + Len(quiet)
      /\ \A l \in 1..Depth(t)' :
           Level(t, l)' = IF l < Depth(t) THEN Level(t, l)
                          ELSE IF l = Depth(t) THEN f ELSE quiet[Depth(t)' + 1 - l]
  BY TopCovered
<1>2. ASSUME NEW l
      PROVE  Held(t, l)' = IF l = Depth(t) THEN Holds(f) ELSE Held(t, l)
  <2>1. Held(t, l)' = IF l \in 1..Depth(t)' THEN Holds(Level(t, l)') ELSE <<>>
    BY DEF Held, Holds
  <2>2. CASE l \in 1..Depth(t)' /\ l < Depth(t)
    BY <1>1, <2>1, <2>2 DEF Held
  <2>3. CASE l = Depth(t)
    BY <1>1, <2>1, <2>3 DEF Held
  <2>4. CASE l \in 1..Depth(t)' /\ l > Depth(t)
    <3>1. Depth(t)' + 1 - l \in 1..Len(quiet)
      BY <1>1, <2>4
    <3>2. Holds(Level(t, l)') = <<>>
      BY <1>1, <2>4, <3>1
    <3>3. QED
      BY <1>1, <2>1, <2>4, <3>2 DEF Held
  <2>5. CASE l \notin 1..Depth(t)'
    BY <1>1, <2>1, <2>5 DEF Held
  <2>6. QED
    BY <1>1, <2>2, <2>3, <2>4, <2>5
<1>3. QED
  BY <1>2 DEF HeldBecomes

LEMMA HeldWritten ==
  ASSUME TypeOK, NEW t \in Threads, NEW f \in Steps, stack[t] # <<>>, Replace(t, <<f>>)
  PROVE  HeldBecomes(t, Depth(t), Holds(f))
<1> DEFINE none == <<>>
<1>1. none \in Seq(Steps) /\ Len(none) = 0 /\ <<f>> = none \o <<f>>
  OBVIOUS
<1> HIDE DEF none
<1>2. Replace(t, none \o <<f>>) /\ \A i \in 1..Len(none) : Holds(none[i]) = <<>>
  BY <1>1
<1>3. QED
  BY <1>1, <1>2, HeldCovered

LEMMA HeldAdded ==
  ASSUME TypeOK, NEW t \in Threads, NEW S, Steps \subseteq S, NEW new \in Seq(S), Push(t, new),
         new # <<>>, \A i \in 2..Len(new) : Holds(new[i]) = <<>>
  PROVE  /\ \A l : Held(t, l)' = IF l = Depth(t)' THEN Holds(new[1]) ELSE Held(t, l)
         /\ Depth(t)' > Depth(t) /\ Depth(t)' \in Nat /\ Held(t, Depth(t)') = <<>>
<1>1. /\ Depth(t) \in Nat /\ Len(new) \in Nat /\ Depth(t)' = Depth(t) + Len(new)
      /\ \A l \in 1..Depth(t)' :
           Level(t, l)' = IF l <= Depth(t) THEN Level(t, l) ELSE new[Depth(t)' + 1 - l]
  BY StepsAdded
<1>2. Len(new) > 0
  BY <1>1, EmptySeq
<1>3. ASSUME NEW l
      PROVE  Held(t, l)' = IF l = Depth(t)' THEN Holds(new[1]) ELSE Held(t, l)
  <2>1. Held(t, l)' = IF l \in 1..Depth(t)' THEN Holds(Level(t, l)') ELSE <<>>
    BY DEF Held, Holds
  <2>2. CASE l \in 1..Depth(t)
    BY <1>1, <1>2, <2>1, <2>2 DEF Held
  <2>3. CASE l = Depth(t)'
    <3>1. Depth(t)' + 1 - l = 1
      BY <1>1, <2>3
    <3>2. QED
      BY <1>1, <1>2, <2>1, <2>3, <3>1
  <2>4. CASE l \in 1..Depth(t)' /\ l > Depth(t) /\ l # Depth(t)'
    <3>1. Depth(t)' + 1 - l \in 2..Len(new)
      <4>1. l \in Int /\ l < Depth(t) + Len(new)
        <5>1. Depth(t)' \in Int
          BY <1>1
        <5>2. l \in Int /\ l <= Depth(t)' /\ l # Depth(t)'
          BY <2>4, <5>1
        <5>3. QED
          BY <1>1, <5>1, <5>2
      <4>2. QED
        BY <1>1, <2>4, <4>1
    <3>2. Holds(Level(t, l)') = <<>>
      BY <1>1, <2>4, <3>1
    <3>3. QED
      BY <1>1, <2>1, <2>4, <3>2 DEF Held
  <2>5. CASE l \notin 1..Depth(t)'
    BY <1>1, <1>2, <2>1, <2>5 DEF Held
  <2>6. QED
    BY <1>1, <2>2, <2>3, <2>4, <2>5
<1>4. QED
  BY <1>1, <1>2, <1>3 DEF Held

-----------------------------------------------------------------------------
(* What a list has, and lists without repetition.                              *)

Has(s, c) == \E i \in 1..Len(s) : s[i] = c
Distinct(s) == \A i, j \in 1..Len(s) : s[i] = s[j] => i = j

LEMMA HasNothing == \A c : ~Has(<<>>, c) /\ Distinct(<<>>)
BY DEF Has, Distinct

LEMMA HasOne == \A d, c : (Has(<<d>>, c) <=> c = d) /\ Distinct(<<d>>)
BY DEF Has, Distinct

LEMMA HasMember ==
  ASSUME NEW S, NEW s \in Seq(S), NEW c, Has(s, c)
  PROVE  c \in S
BY ElementOfSeq DEF Has

LEMMA HasAppended ==
  ASSUME NEW S, NEW s \in Seq(S), NEW d \in S
  PROVE  /\ \A c : Has(Append(s, d), c) <=> Has(s, c) \/ c = d
         /\ Distinct(s) /\ ~Has(s, d) => Distinct(Append(s, d))
<1>1. /\ Len(s) \in Nat /\ Len(Append(s, d)) = Len(s) + 1
      /\ \A i \in 1..Len(s) : Append(s, d)[i] = s[i]
      /\ Append(s, d)[Len(s) + 1] = d
  BY LenProperties, AppendProperties
<1> DEFINE n == Len(s)
           a == Append(s, d)
<1>2. n \in Nat /\ Len(a) = n + 1 /\ (\A i \in 1..n : a[i] = s[i]) /\ a[n + 1] = d
  BY <1>1
<1>3. /\ \A c : Has(s, c) <=> \E i \in 1..n : s[i] = c
      /\ Distinct(s) <=> \A i, j \in 1..n : s[i] = s[j] => i = j
  BY DEF Has, Distinct
<1>4. /\ \A c : Has(a, c) <=> \E i \in 1..n + 1 : a[i] = c
      /\ Distinct(a) <=> \A i, j \in 1..n + 1 : a[i] = a[j] => i = j
  BY <1>2 DEF Has, Distinct
<1> HIDE DEF n, a
<1>5. \A i \in 1..n + 1 : i \in 1..n \/ i = n + 1
  BY <1>2
<1>6. ASSUME NEW c
      PROVE  Has(a, c) <=> Has(s, c) \/ c = d
  <2>1. \A i \in 1..n : i \in 1..n + 1
    BY <1>2
  <2>2. n + 1 \in 1..n + 1
    BY <1>2
  <2>3. QED
    BY <1>2, <1>3, <1>4, <1>5, <2>1, <2>2
<1>7. ASSUME Distinct(s), ~Has(s, d)
      PROVE  Distinct(a)
  BY <1>2, <1>3, <1>4, <1>5, <1>7
<1>8. QED
  BY <1>6, <1>7 DEF a

LEMMA HasTail ==
  ASSUME NEW S, NEW s \in Seq(S), s # <<>>
  PROVE  /\ Head(s) \in S /\ Tail(s) \in Seq(S)
         /\ \A c : Has(s, c) <=> Has(Tail(s), c) \/ c = Head(s)
         /\ Distinct(s) => Distinct(Tail(s)) /\ ~Has(Tail(s), Head(s))
<1> DEFINE n == Len(s)
           b == Tail(s)
<1>1. /\ n \in Nat /\ n > 0 /\ Head(s) \in S /\ b \in Seq(S)
      /\ Len(b) = n - 1 /\ Head(s) = s[1]
      /\ \A i \in 1..(n - 1) : b[i] = s[i + 1]
  <2>1. n \in Nat /\ n > 0
    BY EmptySeq, LenProperties
  <2>2. /\ Head(s) \in S /\ b \in Seq(S) /\ Len(b) = n - 1
        /\ \A i \in 1..Len(b) : b[i] = s[i + 1]
    BY HeadTailProperties
  <2>3. QED
    BY <2>1, <2>2
<1>2. /\ \A c : Has(s, c) <=> \E i \in 1..n : s[i] = c
      /\ Distinct(s) <=> \A i, j \in 1..n : s[i] = s[j] => i = j
  BY DEF Has, Distinct
<1>3. /\ \A c : Has(b, c) <=> \E i \in 1..(n - 1) : b[i] = c
      /\ Distinct(b) <=> \A i, j \in 1..(n - 1) : b[i] = b[j] => i = j
  BY <1>1 DEF Has, Distinct
<1> HIDE DEF n, b
<1>4. /\ 1 \in 1..n
      /\ \A i \in 1..(n - 1) : i + 1 \in 1..n /\ i + 1 # 1
      /\ \A i \in 1..n : i = 1 \/ (i - 1 \in 1..(n - 1) /\ (i - 1) + 1 = i)
      /\ \A i, j \in 1..(n - 1) : i + 1 = j + 1 => i = j
  BY <1>1
<1>5. \A c : Has(s, c) <=> Has(b, c) \/ c = Head(s)
  <2> SUFFICES ASSUME NEW c
               PROVE  Has(s, c) <=> Has(b, c) \/ c = Head(s)
    OBVIOUS
  <2>1. ASSUME NEW i \in 1..n, s[i] = c
        PROVE  Has(b, c) \/ c = Head(s)
    <3>1. CASE i = 1
      BY <1>1, <2>1, <3>1
    <3>2. CASE i - 1 \in 1..(n - 1) /\ (i - 1) + 1 = i
      <4>1. b[i - 1] = c
        BY <1>1, <2>1, <3>2
      <4>2. QED
        BY <1>3, <3>2, <4>1
    <3>3. QED
      BY <1>4, <3>1, <3>2
  <2>2. ASSUME NEW i \in 1..(n - 1), b[i] = c
        PROVE  Has(s, c)
    BY <1>1, <1>2, <1>4, <2>2
  <2>3. QED
    BY <1>1, <1>2, <1>3, <1>4, <2>1, <2>2
<1>6. ASSUME Distinct(s)
      PROVE  Distinct(b) /\ ~Has(b, Head(s))
  <2>1. \A i, j \in 1..(n - 1) : b[i] = b[j] => i = j
    BY <1>1, <1>2, <1>4, <1>6
  <2>2. \A i \in 1..(n - 1) : b[i] # Head(s)
    BY <1>1, <1>2, <1>4, <1>6
  <2>3. QED
    BY <1>3, <2>1, <2>2
<1>7. QED
  BY <1>1, <1>5, <1>6 DEF b

\* A list without its last element, and the element.
LEMMA HasFront ==
  ASSUME NEW S, NEW s \in Seq(S), s # <<>>
  PROVE  /\ Front(s) \in Seq(S) /\ Last(s) \in S
         /\ \A c : Has(s, c) <=> Has(Front(s), c) \/ c = Last(s)
         /\ Distinct(Front(s)) /\ ~Has(Front(s), Last(s)) => Distinct(s)
<1> DEFINE n == Len(s)
           b == Front(s)
<1>1. /\ n \in Nat /\ n > 0 /\ Last(s) \in S /\ b \in Seq(S)
      /\ Len(b) = n - 1 /\ s[n] = Last(s)
      /\ \A i \in 1..(n - 1) : b[i] = s[i]
  BY FrontAndLast
<1>2. /\ \A c : Has(s, c) <=> \E i \in 1..n : s[i] = c
      /\ Distinct(s) <=> \A i, j \in 1..n : s[i] = s[j] => i = j
  BY DEF Has, Distinct
<1>3. /\ \A c : Has(b, c) <=> \E i \in 1..(n - 1) : b[i] = c
      /\ Distinct(b) <=> \A i, j \in 1..(n - 1) : b[i] = b[j] => i = j
  BY <1>1 DEF Has, Distinct
<1> HIDE DEF n, b
<1>4. /\ n \in 1..n
      /\ \A i \in 1..(n - 1) : i \in 1..n
      /\ \A i \in 1..n : i = n \/ i \in 1..(n - 1)
  BY <1>1
<1>5. \A c : Has(s, c) <=> Has(b, c) \/ c = Last(s)
  <2> SUFFICES ASSUME NEW c
               PROVE  Has(s, c) <=> Has(b, c) \/ c = Last(s)
    OBVIOUS
  <2>1. Has(s, c) => Has(b, c) \/ c = Last(s)
    BY <1>1, <1>2, <1>3, <1>4
  <2>2. Has(b, c) => Has(s, c)
    BY <1>1, <1>2, <1>3, <1>4
  <2>3. c = Last(s) => Has(s, c)
    BY <1>1, <1>2, <1>4
  <2>4. QED
    BY <2>1, <2>2, <2>3
<1>6. Distinct(b) /\ ~Has(b, Last(s)) => Distinct(s)
  BY <1>1, <1>2, <1>3, <1>4
<1>7. QED
  BY <1>1, <1>5, <1>6 DEF b

=============================================================================
