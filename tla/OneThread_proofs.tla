--------------------------- MODULE OneThread_proofs ---------------------------
(* Proofs about CommandQueue for a program with one host thread, any client    *)
(* behaviour and any number of queues, commands and references.                *)
EXTENDS CommandQueue_proofs, FiniteSetTheorems

-----------------------------------------------------------------------------
(* Where the commands are: each in one queue or one step, in one place of it.  *)

HomesOK(t) ==
  /\ \A q \in Queues : Distinct(root[q])
  /\ \A q \in Queues, c \in Commands : Has(root[q], c) => command[c].queue = q
  /\ \A l : Distinct(Held(t, l))
  /\ \A q \in Queues : \A l, c : Has(root[q], c) => ~Has(Held(t, l), c)
  /\ \A l, m, c : Has(Held(t, l), c) /\ Has(Held(t, m), c) => l = m
  /\ \A c \in Commands \ finished :
       (\E q \in Queues : Has(root[q], c)) \/ \E l : Has(Held(t, l), c)


\* Nothing changes place.
LEMMA HomesKept ==
  ASSUME NEW t, HomesOK(t), UNCHANGED <<root, command>>, finished \subseteq finished',
         \A l : Held(t, l)' = Held(t, l)
  PROVE  HomesOK(t)'
BY DEF HomesOK, Commands

\* A new command enters at a level that holds nothing.
LEMMA HomesEnter ==
  ASSUME TypeOK, NEW t \in Threads, HomesOK(t), UNCHANGED <<root, finished>>,
         NEW c, c \notin Commands, Commands' = Commands \cup {c},
         \A d \in Commands : command'[d] = command[d],
         NEW k, Held(t, k) = <<>>,
         \A l : Held(t, l)' = IF l = k THEN <<c>> ELSE Held(t, l)
  PROVE  HomesOK(t)'
<1>1. \A l : /\ Distinct(Held(t, l)')
             /\ \A d : Has(Held(t, l)', d) <=> (IF l = k THEN d = c ELSE Has(Held(t, l), d))
  BY HasOne DEF HomesOK
<1>2. \A d : ~Has(Held(t, k), d)
  BY HasNothing
<1>3. /\ \A q \in Queues : ~Has(root[q], c)
      /\ \A l : ~Has(Held(t, l), c)
  BY HeldTyped, HasMember DEF TypeOK
<1>4. \A q \in Queues, d \in Commands' : Has(root[q], d) => command'[d].queue = q
  BY <1>3 DEF HomesOK
<1>5. \A q \in Queues : \A l, d : Has(root[q], d) => ~Has(Held(t, l)', d)
  BY <1>1, <1>3 DEF HomesOK
<1>6. \A l, m, d : Has(Held(t, l)', d) /\ Has(Held(t, m)', d) => l = m
  BY <1>1, <1>3 DEF HomesOK
<1>7. ASSUME NEW d \in Commands' \ finished
      PROVE  (\E q \in Queues : Has(root[q], d)) \/ \E l : Has(Held(t, l)', d)
  <2>1. CASE d = c
    BY <1>1, <2>1
  <2>2. CASE d # c
    <3>1. (\E q \in Queues : Has(root[q], d)) \/ \E l : Has(Held(t, l), d)
      BY <2>2 DEF HomesOK
    <3>2. QED
      BY <1>1, <1>2, <3>1
  <2>3. QED
    BY <2>1, <2>2
<1>8. \A q \in Queues : Distinct(root[q])
  BY DEF HomesOK
<1>9. QED
  BY <1>1, <1>4, <1>5, <1>6, <1>7, <1>8 DEF HomesOK, Commands

\* The command of level k is linked at the end of its queue.
LEMMA HomesLink ==
  ASSUME TypeOK, NEW t \in Threads, HomesOK(t), UNCHANGED <<command, finished>>,
         NEW k, NEW c \in Commands, NEW p \in Queues, command[c].queue = p,
         Held(t, k) = <<c>>, HeldBecomes(t, k, <<>>),
         root' = [root EXCEPT ![p] = Append(@, c)]
  PROVE  HomesOK(t)'
<1>1. \A l : /\ Distinct(Held(t, l)')
             /\ \A d : Has(Held(t, l)', d) <=> (Has(Held(t, l), d) /\ l # k)
  BY HasNothing DEF HomesOK, HeldBecomes
<1>2. \A d : Has(Held(t, k), d) <=> d = c
  BY HasOne
<1>3. root[p] \in Seq(Commands) /\ ~Has(root[p], c)
  BY <1>2 DEF HomesOK, TypeOK
<1>4. \A q \in Queues : /\ Distinct(root'[q])
                        /\ \A d : Has(root'[q], d) <=> Has(root[q], d) \/ (q = p /\ d = c)
  <2> SUFFICES ASSUME NEW q \in Queues
               PROVE  /\ Distinct(root'[q])
                      /\ \A d : Has(root'[q], d) <=> Has(root[q], d) \/ (q = p /\ d = c)
    OBVIOUS
  <2>1. CASE q = p
    <3>1. root'[q] = Append(root[p], c)
      BY <2>1 DEF TypeOK
    <3>2. /\ \A d : Has(Append(root[p], c), d) <=> Has(root[p], d) \/ d = c
          /\ Distinct(root[p]) => Distinct(Append(root[p], c))
      BY <1>3, HasAppended
    <3>3. QED
      BY <2>1, <3>1, <3>2 DEF HomesOK
  <2>2. CASE q # p
    <3>1. root'[q] = root[q]
      BY <2>2 DEF TypeOK
    <3>2. QED
      BY <2>2, <3>1 DEF HomesOK
  <2>3. QED
    BY <2>1, <2>2
<1>5. \A q \in Queues, d \in Commands : Has(root'[q], d) => command[d].queue = q
  BY <1>4 DEF HomesOK
<1>6. \A q \in Queues : \A l, d : Has(root'[q], d) => ~Has(Held(t, l)', d)
  BY <1>1, <1>2, <1>4 DEF HomesOK
<1>7. \A l, m, d : Has(Held(t, l)', d) /\ Has(Held(t, m)', d) => l = m
  BY <1>1 DEF HomesOK
<1>8. ASSUME NEW d \in Commands \ finished
      PROVE  (\E q \in Queues : Has(root'[q], d)) \/ \E l : Has(Held(t, l)', d)
  BY <1>1, <1>2, <1>4 DEF HomesOK
<1>9. QED
  BY <1>1, <1>4, <1>5, <1>6, <1>7, <1>8 DEF HomesOK, Commands

\* The first command of a queue goes to the end of what level k holds.
LEMMA HomesTake ==
  ASSUME TypeOK, NEW t \in Threads, HomesOK(t), UNCHANGED <<command, finished>>,
         NEW k, NEW p \in Queues, root[p] # <<>>, NEW s \in Seq(Commands), s # <<>>,
         Held(t, k) = Front(s), Last(s) = Head(root[p]), HeldBecomes(t, k, s),
         root' = [root EXCEPT ![p] = Tail(@)]
  PROVE  HomesOK(t)'
<1> DEFINE c == Last(s)
<1>1. root[p] \in Seq(Commands)
  BY DEF TypeOK
<1>2. /\ \A d : Has(root[p], d) <=> Has(Tail(root[p]), d) \/ d = c
      /\ Distinct(Tail(root[p])) /\ ~Has(Tail(root[p]), c)
  BY <1>1, HasTail DEF HomesOK
<1>3. \A q \in Queues : root'[q] = IF q = p THEN Tail(root[p]) ELSE root[q]
  BY DEF TypeOK
<1>4. \A d : Has(s, d) <=> Has(Held(t, k), d) \/ d = c
  BY HasFront
<1>5. Distinct(s)
  <2>1. Distinct(Front(s)) /\ ~Has(Front(s), c)
    BY <1>2 DEF HomesOK
  <2>2. QED
    BY <2>1, HasFront
<1> HIDE DEF c
<1>6. \A q \in Queues : Has(root[q], c) => q = p
  <2>1. c \in Commands
    BY HasFront DEF c
  <2>2. QED
    BY <1>2, <2>1 DEF HomesOK
<1>7. \A q \in Queues : /\ Distinct(root'[q])
                        /\ \A d : Has(root'[q], d) <=> (Has(root[q], d) /\ d # c)
  BY <1>2, <1>3, <1>6 DEF HomesOK
<1>8. \A l : /\ Distinct(Held(t, l)')
             /\ \A d : Has(Held(t, l)', d) <=> (Has(Held(t, l), d) \/ (l = k /\ d = c))
  BY <1>4, <1>5 DEF HomesOK, HeldBecomes
<1>9. \A l : ~Has(Held(t, l), c)
  BY <1>2 DEF HomesOK
<1>10. \A q \in Queues, d \in Commands : Has(root'[q], d) => command[d].queue = q
  BY <1>7 DEF HomesOK
<1>11. \A q \in Queues : \A l, d : Has(root'[q], d) => ~Has(Held(t, l)', d)
  BY <1>7, <1>8 DEF HomesOK
<1>12. \A l, m, d : Has(Held(t, l)', d) /\ Has(Held(t, m)', d) => l = m
  BY <1>8, <1>9 DEF HomesOK
<1>13. ASSUME NEW d \in Commands \ finished
       PROVE  (\E q \in Queues : Has(root'[q], d)) \/ \E l : Has(Held(t, l)', d)
  BY <1>7, <1>8 DEF HomesOK
<1>14. QED
  BY <1>7, <1>8, <1>10, <1>11, <1>12, <1>13 DEF HomesOK, Commands

\* Level k lets go of its first command, which has ended.
LEMMA HomesDrop ==
  ASSUME TypeOK, NEW t \in Threads, HomesOK(t), UNCHANGED <<root, command, finished>>,
         NEW k, NEW s \in Seq(Commands), s # <<>>, Head(s) \in finished,
         Held(t, k) = s, HeldBecomes(t, k, Tail(s))
  PROVE  HomesOK(t)'
<1>1. /\ \A d : Has(s, d) <=> Has(Tail(s), d) \/ d = Head(s)
      /\ Distinct(Tail(s))
  BY HasTail DEF HomesOK
<1>2. \A l : /\ Distinct(Held(t, l)')
             /\ \A d : Has(Held(t, l)', d) => Has(Held(t, l), d)
             /\ \A d : Has(Held(t, l), d) /\ d \notin finished => Has(Held(t, l)', d)
  <2> SUFFICES ASSUME NEW l
               PROVE  /\ Distinct(Held(t, l)')
                      /\ \A d : Has(Held(t, l)', d) => Has(Held(t, l), d)
                      /\ \A d : Has(Held(t, l), d) /\ d \notin finished => Has(Held(t, l)', d)
    OBVIOUS
  <2>1. CASE l = k
    <3>1. Held(t, l)' = Tail(s) /\ Held(t, l) = s
      BY <2>1 DEF HeldBecomes
    <3>2. QED
      BY <1>1, <3>1
  <2>2. CASE l # k
    <3>1. Held(t, l)' = Held(t, l)
      BY <2>2 DEF HeldBecomes
    <3>2. QED
      BY <3>1 DEF HomesOK
  <2>3. QED
    BY <2>1, <2>2
<1>3. QED
  BY <1>2 DEF HomesOK, Commands

-----------------------------------------------------------------------------
(* What each action does to the stack, with the kinds of the steps.            *)

LEMMA UnlinkedHead ==
  ASSUME NEW S, NEW s \in Seq(S), s # <<>>, Distinct(s)
  PROVE  Unlinked(s, Head(s)) = Tail(s)
<1> DEFINE n == Len(s)
           i == CHOOSE j \in DOMAIN s : s[j] = Head(s)
<1>1. n \in Nat /\ n > 0 /\ DOMAIN s = 1..n /\ Head(s) = s[1]
  BY EmptySeq, LenProperties
<1>2. 1 \in 1..n
  BY <1>1
<1>3. i = 1
  <2>1. \E j \in DOMAIN s : s[j] = Head(s)
    BY <1>1, <1>2
  <2>2. i \in 1..n /\ s[i] = s[1]
    BY <1>1, <2>1
  <2>3. QED
    BY <1>2, <2>2 DEF Distinct
<1> HIDE DEF i
<1>4. Unlinked(s, Head(s)) = SubSeq(s, 1, i - 1) \o SubSeq(s, i + 1, n)
  BY <1>1, <1>2 DEF Unlinked, i
<1>5. SubSeq(s, 1, 1 - 1) = <<>>
  BY <1>2, SubSeqEmpty
<1>6. SubSeq(s, 2, n) = Tail(s) /\ Tail(s) \in Seq(S)
  BY TailIsSubSeq, HeadTailProperties
<1>7. <<>> \o Tail(s) = Tail(s)
  BY <1>6, ConcatEmptySeq
<1>8. i - 1 = 1 - 1 /\ i + 1 = 2
  BY <1>3
<1>9. QED
  BY <1>4, <1>5, <1>6, <1>7, <1>8

LEMMA LockView ==
  ASSUME TypeOK, NEW t \in Threads, LockQueue(t)
  PROVE  /\ stack[t] # <<>> /\ Top(t) \in LockSteps
         /\ \E f \in ScanSteps : /\ Replace(t, <<f>>)
                                 /\ f.q = Top(t).q /\ f.hand = Top(t).q
                                 /\ f.ready = <<>> /\ f.due = Top(t).due
<1>1. stack[t] # <<>> /\ Top(t) \in LockSteps
  BY AtTyped, StepKinds DEF LockQueue
<1> DEFINE f == ScanStep(Top(t).q, Top(t).q, <<>>, Top(t).due)
<1>2. <<>> \in Seq(Commands)
  OBVIOUS
<1>3. /\ f \in ScanSteps /\ f.q = Top(t).q /\ f.hand = Top(t).q
      /\ f.ready = <<>> /\ f.due = Top(t).due
  BY <1>1, <1>2 DEF LockSteps, ScanStep, ScanSteps
<1>4. Replace(t, <<f>>)
  BY DEF LockQueue
<1>5. QED
  BY <1>1, <1>3, <1>4

\* A turn of the loop of clFinish: the queue at hand changes, or its first
\* command, which has nothing left to wait for, is taken.
Turns(t, f) ==
  /\ f \in ScanSteps /\ f.q = Top(t).q /\ f.ready = Top(t).ready /\ f.due = Top(t).due
Takes(t, f) ==
  /\ f \in SubmitSteps /\ f.q = Top(t).q /\ f.due = Top(t).due
  /\ f.hand = Top(t).hand /\ root[f.hand] # <<>>
  /\ Front(f.ready) = Top(t).ready /\ Last(f.ready) = Head(root[f.hand])
  /\ Unready(Head(root[f.hand])) = {}

LEMMA FrontOfAppend ==
  ASSUME NEW S, NEW s \in Seq(S), NEW d \in S
  PROVE  /\ Append(s, d) \in Seq(S) \ {<<>>}
         /\ Front(Append(s, d)) = s /\ Last(Append(s, d)) = d
<1> DEFINE a == Append(s, d)
           n == Len(s)
<1>1. /\ n \in Nat /\ a \in Seq(S) /\ a # <<>> /\ Len(a) = n + 1
      /\ \A i \in 1..n : a[i] = s[i]
      /\ a[n + 1] = d
  BY LenProperties, AppendProperties
<1> HIDE DEF a
<1>2. /\ Front(a) \in Seq(S) /\ Len(Front(a)) = Len(a) - 1
      /\ \A i \in 1..(Len(a) - 1) : Front(a)[i] = a[i]
      /\ a[Len(a)] = Last(a)
  BY <1>1, FrontAndLast
<1>3. Last(a) = d
  BY <1>1, <1>2
<1>4. Len(Front(a)) = n /\ \A i \in 1..n : Front(a)[i] = s[i]
  BY <1>1, <1>2
<1>5. Front(a) = s
  BY <1>2, <1>4, SeqEqual
<1>6. QED
  BY <1>1, <1>3, <1>5 DEF a

LEMMA ScanView ==
  ASSUME TypeOK, NEW t \in Threads, Scan(t)
  PROVE  /\ stack[t] # <<>> /\ Top(t) \in ScanSteps
         /\ \E f \in Steps : Replace(t, <<f>>) /\ (Turns(t, f) \/ Takes(t, f))
<1> DEFINE g == Top(t)
           c == Head(root[g.hand])
           last == CHOOSE i \in Unready(c) : \A j \in Unready(c) : j <= i
<1>1. stack[t] # <<>> /\ g \in ScanSteps
  BY AtTyped, StepKinds DEF Scan
<1> HIDE DEF g
<1>2. g.hand \in Queues /\ g.q \in Queues /\ g.ready \in Seq(Commands)
  BY <1>1 DEF ScanSteps
<1>3. ASSUME root[g.hand] # <<>>
      PROVE  c \in Commands
  BY <1>2, <1>3, HeadTailProperties DEF TypeOK
<1>4. ASSUME NEW h \in Queues
      PROVE  LET f == [g EXCEPT !.hand = h] IN f \in Steps /\ Turns(t, f)
  BY <1>1, <1>2, <1>4 DEF Turns, ScanSteps, Steps, g
<1>5. ASSUME root[g.hand] # <<>>, Unready(c) # {}
      PROVE  event[command[c].waits[last]].queue \in Queues
  <2>1. command[c].waits \in Seq(Events)
    BY <1>3, <1>5, CommandTyped
  <2>2. Unready(c) \subseteq 1..Len(command[c].waits) /\ Len(command[c].waits) \in Nat
    BY <2>1, LenProperties DEF Unready
  <2>3. last \in Unready(c)
    BY <2>2, <1>5, LastExists
  <2> HIDE DEF last, c
  <2>4. command[c].waits[last] \in Events
    BY <2>1, <2>2, <2>3, ElementOfSeq
  <2>5. QED
    BY <2>4, EventTyped
<1>6. ASSUME root[g.hand] # <<>>, Unready(c) = {}
      PROVE  LET f == SubmitStep([g EXCEPT !.ready = Append(@, c)]) IN f \in Steps /\ Takes(t, f)
  <2> DEFINE r == Append(g.ready, c)
             f == SubmitStep([g EXCEPT !.ready = r])
  <2>1. r \in Seq(Commands) \ {<<>>} /\ Front(r) = g.ready /\ Last(r) = c
    BY <1>2, <1>3, <1>6, FrontOfAppend
  <2> HIDE DEF c, r
  <2>2. /\ f \in SubmitSteps /\ f.q = g.q /\ f.due = g.due /\ f.hand = g.hand /\ f.ready = r
    BY <1>1, <2>1 DEF SubmitStep, ScanSteps, SubmitSteps
  <2>3. f \in Steps /\ Takes(t, f)
    <3> HIDE DEF f
    <3>1. QED
      BY <1>6, <2>1, <2>2 DEF Takes, Steps, c, g
  <2>4. QED
    BY <2>3 DEF r
<1>7. CASE Replace(t, <<[g EXCEPT !.hand = g.q]>>)
  BY <1>1, <1>2, <1>4, <1>7 DEF g
<1>8. CASE /\ root[g.hand] # <<>> /\ Unready(c) # {}
           /\ Replace(t, <<[g EXCEPT !.hand = event[command[c].waits[last]].queue]>>)
  BY <1>1, <1>4, <1>5, <1>8 DEF g
<1>9. CASE /\ root[g.hand] # <<>> /\ Unready(c) = {}
           /\ Replace(t, <<SubmitStep([g EXCEPT !.ready = Append(@, c)])>>)
  BY <1>1, <1>6, <1>9 DEF g
<1>10. QED
  BY <1>7, <1>8, <1>9 DEF Scan, g


\* What is on a stack is well placed: a thread is in the loop of clFinish or in
\* an execution only with the top of its stack; the command a submit step will
\* take is the first of the queue at hand; a command is released once it ended.
OnTop == {"scan", "submit", "append", "complete"}
StepOK(f) ==
  /\ f.step = "append" => f.q = command[f.c].queue
  /\ f.step = "submit" => root[f.hand] # <<>> /\ Last(f.ready) = Head(root[f.hand])
  /\ f.step = "release" => Head(f.todo) \in finished
StackOK(t) ==
  \A l \in 1..Depth(t) :
    /\ l < Depth(t) => Level(t, l).step \notin OnTop
    /\ StepOK(Level(t, l))

LEMMA TopOK ==
  ASSUME TypeOK, NEW t \in Threads, stack[t] # <<>>, StackOK(t)
  PROVE  StepOK(Top(t))
BY Levels DEF StackOK

LEMMA SubmitView ==
  ASSUME TypeOK, NEW t \in Threads, StackOK(t), HomesOK(t), Submit(t)
  PROVE  /\ stack[t] # <<>> /\ Top(t) \in SubmitSteps
         /\ root[Top(t).hand] # <<>> /\ Last(Top(t).ready) = Head(root[Top(t).hand])
         /\ \/ /\ aborted' = TRUE /\ UNCHANGED <<event, root, stack>>
               /\ event[command[Last(Top(t).ready)].event].status # "QUEUED"
            \/ /\ event[command[Last(Top(t).ready)].event].status = "QUEUED"
               /\ event' = [event EXCEPT ![command[Last(Top(t).ready)].event].status = "SUBMITTED"]
               /\ root' = [root EXCEPT ![Top(t).hand] = Tail(@)]
               /\ UNCHANGED aborted
               /\ \E f \in ScanSteps : Replace(t, <<f>>) /\ Turns(t, f)
<1> DEFINE g == Top(t)
           c == Last(g.ready)
           e == command[c].event
<1>1. stack[t] # <<>> /\ g \in SubmitSteps /\ g.step = "submit"
  BY AtTyped, StepKinds DEF Submit
<1>2. root[g.hand] # <<>> /\ c = Head(root[g.hand])
  BY <1>1, TopOK DEF StepOK
<1>3. g.hand \in Queues
  BY <1>1 DEF SubmitSteps
<1>4. \/ /\ aborted' = TRUE /\ UNCHANGED <<event, root, stack>>
         /\ event[e].status # "QUEUED" \/ root[g.hand] = <<>>
      \/ /\ ~(event[e].status # "QUEUED" \/ root[g.hand] = <<>>)
         /\ event' = [event EXCEPT ![e].status = "SUBMITTED"]
         /\ root' = [root EXCEPT ![g.hand] = Unlinked(@, c)]
         /\ Replace(t, <<[g EXCEPT !.step = "scan"]>>)
         /\ UNCHANGED aborted
  BY DEF Submit, Last
<1>5. Unlinked(root[g.hand], c) = Tail(root[g.hand])
  <2>1. root[g.hand] \in Seq(Commands) /\ Distinct(root[g.hand])
    BY <1>3 DEF TypeOK, HomesOK
  <2>2. Unlinked(root[g.hand], Head(root[g.hand])) = Tail(root[g.hand])
    BY <1>2, <2>1, UnlinkedHead
  <2> HIDE DEF c
  <2>3. QED
    BY <1>2, <2>2
<1>6. LET f == [g EXCEPT !.step = "scan"] IN f \in ScanSteps /\ Turns(t, f)
  BY <1>1 DEF SubmitSteps, ScanSteps, Turns
<1> HIDE DEF c, e
<1>7. (root' = [root EXCEPT ![g.hand] = Unlinked(@, c)]) => root' = [root EXCEPT ![g.hand] = Tail(@)]
  BY <1>3, <1>5 DEF TypeOK
<1>8. QED
  BY <1>1, <1>2, <1>4, <1>6, <1>7 DEF c, e

LEMMA UnlockView ==
  ASSUME TypeOK, NEW t \in Threads, UnlockQueue(t)
  PROVE  /\ stack[t] # <<>> /\ Top(t) \in ScanSteps /\ root[Top(t).q] = <<>>
         /\ \E f \in RunSteps : Replace(t, <<f>>) /\ f.todo = Top(t).ready /\ f.due = Top(t).due
<1>1. stack[t] # <<>> /\ Top(t) \in ScanSteps /\ root[Top(t).q] = <<>>
  BY AtTyped, StepKinds DEF UnlockQueue
<1> DEFINE f == RunStep("run", Top(t).ready, Top(t).due)
<1>2. f \in RunSteps /\ f.todo = Top(t).ready /\ f.due = Top(t).due
  BY <1>1 DEF ScanSteps, RunStep, RunSteps
<1>3. Replace(t, <<f>>)
  BY DEF UnlockQueue
<1>4. QED
  BY <1>1, <1>2, <1>3

LEMMA StartView ==
  ASSUME TypeOK, NEW t \in Threads, StartCommand(t)
  PROVE  /\ stack[t] # <<>> /\ Top(t) \in RunSteps /\ Top(t).todo # <<>>
         /\ \E f \in BusySteps : /\ Replace(t, <<f>>) /\ f.step = "complete"
                                 /\ f.todo = Top(t).todo /\ f.due = Top(t).due
<1>1. stack[t] # <<>> /\ Top(t) \in RunSteps /\ Top(t).todo # <<>>
  BY AtTyped, StepKinds DEF StartCommand
<1> DEFINE f == [Top(t) EXCEPT !.step = "complete"]
<1>2. f \in BusySteps /\ f.step = "complete" /\ f.todo = Top(t).todo /\ f.due = Top(t).due
  BY <1>1 DEF RunSteps, BusySteps
<1>3. Replace(t, <<f>>)
  BY DEF StartCommand
<1>4. QED
  BY <1>1, <1>2, <1>3

\* Steps that hold no command and that a step may be under.
Quiet(s) == \A i \in 1..Len(s) : Holds(s[i]) = <<>> /\ s[i].step \notin OnTop /\ StepOK(s[i])'

LEMMA CompleteView ==
  ASSUME TypeOK, NEW t \in Threads, CompleteCommand(t)
  PROVE  /\ stack[t] # <<>> /\ Top(t) \in BusySteps /\ Top(t).step = "complete"
         /\ Head(Top(t).todo) \in finished'
         /\ \E f \in BusySteps, s \in Seq(Steps) :
              /\ Replace(t, s \o <<f>>) /\ f.step = "release"
              /\ f.todo = Top(t).todo /\ f.due = Top(t).due
              /\ \A i \in 1..Len(s) : s[i] = CallbackStep
<1>1. stack[t] # <<>> /\ Top(t) \in BusySteps /\ Top(t).step = "complete"
  BY AtTyped, StepKinds DEF CompleteCommand
<1> DEFINE e == command[Head(Top(t).todo)].event
           n == event[e].callbacks
           f == [Top(t) EXCEPT !.step = "release"]
           s == [i \in 1..n |-> CallbackStep]
<1>2. f \in BusySteps /\ f.step = "release" /\ f.todo = Top(t).todo /\ f.due = Top(t).due
  BY <1>1 DEF BusySteps
<1>3. n \in Nat
  <2>1. Head(Top(t).todo) \in Commands
    <3>1. Top(t).todo \in Seq(Commands) /\ Top(t).todo # <<>>
      BY <1>1 DEF BusySteps
    <3>2. QED
      BY <3>1, HeadTailProperties
  <2>2. QED
    BY <2>1, CommandTyped, EventTyped
<1>4. s \in Seq(Steps) /\ \A i \in 1..Len(s) : s[i] = CallbackStep
  <2>1. CallbackStep \in Steps
    BY DEF Steps
  <2> HIDE DEF n
  <2>2. QED
    BY <1>3, <2>1
<1>5. Replace(t, s \o <<f>>) /\ Head(Top(t).todo) \in finished'
  BY DEF CompleteCommand
<1> HIDE DEF f, s
<1>6. QED
  BY <1>1, <1>2, <1>4, <1>5

\* A pair and one more.
LEMMA PairAndOne ==
  ASSUME NEW a, NEW b, NEW r
  PROVE  <<a, b>> \o <<r>> = <<a, b, r>>
<1> DEFINE S == {a, b, r}
           u == <<a, b>> \o <<r>>
           v == <<a, b, r>>
<1>1. /\ <<a, b>> \in Seq(S) /\ <<r>> \in Seq(S)
      /\ Len(<<a, b>>) = 2 /\ <<a, b>>[1] = a /\ <<a, b>>[2] = b
      /\ Len(<<r>>) = 1 /\ <<r>>[1] = r
  OBVIOUS
<1>2. v \in Seq(S) /\ Len(v) = 3 /\ v[1] = a /\ v[2] = b /\ v[3] = r
  OBVIOUS
<1>3. /\ u \in Seq(S) /\ Len(u) = Len(<<a, b>>) + Len(<<r>>)
      /\ \A i \in 1..Len(<<a, b>>) + Len(<<r>>) :
           u[i] = IF i <= Len(<<a, b>>) THEN <<a, b>>[i] ELSE <<r>>[i - Len(<<a, b>>)]
  BY <1>1, ConcatProperties
<1> HIDE DEF u, v, S
<1>4. /\ Len(u) = 3
      /\ \A i \in 1..3 : u[i] = IF i <= 2 THEN <<a, b>>[i] ELSE <<r>>[i - 2]
  BY <1>1, <1>3
<1>5. u[1] = a /\ u[2] = b /\ u[3] = r
  <2>1. 1 \in 1..3 /\ 2 \in 1..3 /\ 3 \in 1..3 /\ 3 - 2 = 1
    OBVIOUS
  <2>2. QED
    BY <1>1, <1>4, <2>1
<1>6. \A i \in 1..3 : i = 1 \/ i = 2 \/ i = 3
  OBVIOUS
<1>7. \A i \in 1..Len(u) : u[i] = v[i]
  BY <1>2, <1>4, <1>5, <1>6
<1>8. u = v
  BY <1>2, <1>3, <1>4, <1>7, SeqEqual
<1>9. QED
  BY <1>8 DEF u, v

\* Releasing an event or a queue flushes the queue first.
LEMMA FreeSteps ==
  ASSUME TypeOK, NEW e \in Events
  PROVE  FreeEventSteps(e) = <<LockStep(event[e].queue, {}), UnrefStep(event[e].queue), RecycleStep(e)>>
<1> DEFINE a == LockStep(event[e].queue, {})
           b == UnrefStep(event[e].queue)
           r == RecycleStep(e)
<1> HIDE DEF a, b, r
<1>1. <<a, b>> \o <<r>> = <<a, b, r>>
  BY PairAndOne
<1>2. QED
  BY <1>1 DEF FreeEventSteps, ReleaseQueueSteps, a, b, r

LEMMA ReleaseView ==
  ASSUME TypeOK, NEW t \in Threads, ReleaseImplicitEvent(t)
  PROVE  LET c == Head(Top(t).todo)
             e == command[c].event
         IN  /\ stack[t] # <<>> /\ Top(t) \in BusySteps /\ Top(t).step = "release"
             /\ c \in Commands /\ e \in Events
             /\ \E f \in RunSteps, s \in Seq(Steps) :
                  /\ Replace(t, s \o <<f>>) /\ f.step = "run"
                  /\ f.todo = Tail(Top(t).todo) /\ f.due = Top(t).due
                  /\ \/ command[c].explicit /\ s = <<>> /\ UNCHANGED event
                     \/ /\ ~command[c].explicit /\ event' = [event EXCEPT ![e].refs = @ - 1]
                        /\ s = IF event[e].refs = 1 THEN FreeEventSteps(e) ELSE <<>>
<1> DEFINE c == Head(Top(t).todo)
           e == command[c].event
           f == [Top(t) EXCEPT !.step = "run", !.todo = Tail(@)]
<1>1. stack[t] # <<>> /\ Top(t) \in BusySteps /\ Top(t).step = "release"
  BY AtTyped, StepKinds DEF ReleaseImplicitEvent
<1>2. Top(t).todo \in Seq(Commands) /\ Top(t).todo # <<>>
  BY <1>1 DEF BusySteps
<1>3. c \in Commands /\ Tail(Top(t).todo) \in Seq(Commands)
  BY <1>2, HeadTailProperties
<1>4. e \in Events
  BY <1>3, CommandTyped
<1>5. f \in RunSteps /\ f.step = "run" /\ f.todo = Tail(Top(t).todo) /\ f.due = Top(t).due
  <2>1. PICK rest \in Seq(Commands) : rest = Tail(Top(t).todo)
    BY <1>3
  <2>2. f = [Top(t) EXCEPT !.step = "run", !.todo = rest]
    BY <2>1
  <2>3. QED
    BY <1>1, <2>1, <2>2 DEF BusySteps, RunSteps
<1>6. \/ command[c].explicit /\ Replace(t, <<f>>) /\ UNCHANGED event
      \/ /\ ~command[c].explicit /\ event' = [event EXCEPT ![e].refs = @ - 1]
         /\ Replace(t, (IF event[e].refs = 1 THEN FreeEventSteps(e) ELSE <<>>) \o <<f>>)
  BY DEF ReleaseImplicitEvent
<1>7. FreeEventSteps(e) \in Seq(Steps) /\ <<>> \in Seq(Steps)
  BY <1>4, ReleaseStepsTyped
<1> HIDE DEF f, c, e
<1>8. <<f>> = <<>> \o <<f>>
  OBVIOUS
<1>9. CASE command[c].explicit /\ Replace(t, <<f>>) /\ UNCHANGED event
  <2>1. Replace(t, <<>> \o <<f>>)
    BY <1>8, <1>9
  <2>2. QED
    BY <1>1, <1>3, <1>4, <1>5, <1>7, <1>9, <2>1 DEF c, e
<1>10. CASE /\ ~command[c].explicit /\ event' = [event EXCEPT ![e].refs = @ - 1]
            /\ Replace(t, (IF event[e].refs = 1 THEN FreeEventSteps(e) ELSE <<>>) \o <<f>>)
  <2> DEFINE s == IF event[e].refs = 1 THEN FreeEventSteps(e) ELSE <<>>
  <2>1. s \in Seq(Steps)
    BY <1>7
  <2> HIDE DEF s
  <2>2. Replace(t, s \o <<f>>)
    BY <1>10 DEF s
  <2>3. s = IF event[e].refs = 1 THEN FreeEventSteps(e) ELSE <<>>
    BY DEF s
  <2>4. QED
    BY <1>1, <1>3, <1>4, <1>5, <1>10, <2>1, <2>2, <2>3 DEF c, e
<1>11. QED
  BY <1>6, <1>9, <1>10


\* What every step keeps: the commands that exist, the ones that ended.
Later ==
  /\ Commands \subseteq Commands' /\ (\A d \in Commands : command'[d] = command[d])
  /\ finished \subseteq finished'

LEMMA CommandAppended ==
  ASSUME TypeOK, NEW r, command' = Append(command, r)
  PROVE  LET c == Len(command) + 1
         IN  /\ c \notin Commands /\ Commands' = Commands \cup {c}
             /\ \A d \in Commands : command'[d] = command[d]
             /\ command'[c] = r
<1> DEFINE n == Len(command)
<1>1. n \in Nat /\ Commands = 1..n
  BY LenProperties DEF TypeOK, Commands
<1>2. /\ DOMAIN command' = 1..(n + 1)
      /\ \A d \in 1..n : command'[d] = command[d]
      /\ command'[n + 1] = r
  <2>1. /\ Append(command, r) \in Seq(CommandRecords \cup {r})
        /\ Len(Append(command, r)) = Len(command) + 1
        /\ \A d \in 1..Len(command) : Append(command, r)[d] = command[d]
        /\ Append(command, r)[Len(command) + 1] = r
    <3>1. command \in Seq(CommandRecords \cup {r})
      BY SeqMonotonic DEF TypeOK
    <3>2. r \in CommandRecords \cup {r}
      OBVIOUS
    <3>3. QED
      BY <3>1, <3>2, AppendProperties
  <2>2. DOMAIN Append(command, r) = 1..Len(Append(command, r))
    BY <2>1, LenProperties
  <2>3. QED
    BY <2>1, <2>2
<1>3. Commands' = 1..(n + 1)
  BY <1>2 DEF Commands
<1> HIDE DEF n
<1>4. n + 1 \notin 1..n /\ 1..(n + 1) = (1..n) \cup {n + 1}
  BY <1>1
<1>5. QED
  BY <1>1, <1>2, <1>3, <1>4 DEF n

LEMMA StepsLater ==
  ASSUME TypeOK, [Next]_vars
  PROVE  Later
<1>1. ASSUME NEW t \in Threads, NEW q \in Queues, NEW explicit, NEW blocking, NEW waits,
             Enqueue(t, q, waits, explicit, blocking)
      PROVE  Later
  <2>1. \E r : command' = Append(command, r)
    BY <1>1 DEF Enqueue, CreateCommand
  <2>2. UNCHANGED finished
    BY <1>1 DEF Enqueue
  <2>3. QED
    BY <2>1, <2>2, CommandAppended DEF Later
<1>2. CASE UNCHANGED command /\ finished \subseteq finished'
  BY <1>2 DEF Later, Commands
<1>3. ASSUME NEW t \in Threads, ClientCall(t)
      PROVE  Later
  BY <1>1, <1>2, <1>3 DEF ClientCall, Finish, RetainQueue, ReleaseQueue, WaitForEvent, RetainEvent,
     ReleaseEvent, SetEventCallback
<1>4. ASSUME NEW t \in Threads, RuntimeStep(t)
      PROVE  Later
  BY <1>2, <1>4 DEF RuntimeStep, AppendCommand, StampQueued, CallbackReturns, LockQueue, Scan, Submit,
     UnlockQueue, StartCommand, CompleteCommand, ReleaseImplicitEvent, Return, UnrefQueue, RecycleEvent
<1>5. CASE UNCHANGED vars
  BY <1>2, <1>5 DEF vars
<1>6. QED
  BY <1>3, <1>4, <1>5 DEF Next

LEMMA StepLater ==
  ASSUME NEW f \in Steps, StepOK(f), f.step # "submit", Later
  PROVE  StepOK(f)'
<1>1. CASE f.step = "append"
  <2>1. f.c \in Commands
    BY <1>1, StepKinds DEF EnqueueSteps
  <2>2. QED
    BY <1>1, <2>1 DEF StepOK, Later
<1>2. QED
  BY <1>1 DEF StepOK, Later

LEMMA StackLeaves ==
  ASSUME TypeOK, NEW t \in Threads, StackOK(t), Later, stack[t] # <<>>, Replace(t, <<>>)
  PROVE  StackOK(t)'
<1>1. /\ Depth(t) \in Nat /\ Depth(t) > 0 /\ Depth(t)' = Depth(t) - 1
      /\ \A l \in 1..Depth(t)' : Level(t, l)' = Level(t, l)
  BY TopLeaves
<1>2. ASSUME NEW l \in 1..Depth(t)'
      PROVE  Level(t, l)'.step \notin OnTop /\ StepOK(Level(t, l))'
  <2>1. l \in 1..Depth(t) /\ l < Depth(t)
    BY <1>1
  <2>2. PICK f \in Steps : f = Level(t, l)
    BY <2>1, Levels
  <2>3. f.step \notin OnTop /\ StepOK(f)
    BY <2>1, <2>2 DEF StackOK
  <2>4. StepOK(f)'
    BY <2>3, StepLater DEF OnTop
  <2>5. Level(t, l)' = f
    BY <1>1, <2>2
  <2>6. QED
    BY <2>3, <2>4, <2>5 DEF StepOK
<1>3. QED
  BY <1>2 DEF StackOK, OnTop

LEMMA StackCovered ==
  ASSUME TypeOK, NEW t \in Threads, StackOK(t), Later, stack[t] # <<>>,
         NEW S, Steps \subseteq S, NEW s \in Seq(S), NEW f \in S, Replace(t, s \o <<f>>),
         StepOK(f)', f.step \in OnTop => Len(s) = 0, Quiet(s)
  PROVE  StackOK(t)'
<1>1. /\ Depth(t) \in Nat /\ Depth(t) > 0 /\ Len(s) \in Nat
      /\ Depth(t)' = Depth(t) + Len(s)
      /\ \A l \in 1..Depth(t)' :
           Level(t, l)' = IF l < Depth(t) THEN Level(t, l)
                          ELSE IF l = Depth(t) THEN f ELSE s[Depth(t)' + 1 - l]
  BY TopCovered
<1>2. ASSUME NEW l \in 1..Depth(t)'
      PROVE  (l < Depth(t)' => Level(t, l)'.step \notin OnTop) /\ StepOK(Level(t, l))'
  <2>1. CASE l < Depth(t)
    <3>1. l \in 1..Depth(t)
      BY <1>1, <2>1
    <3>2. PICK g \in Steps : g = Level(t, l)
      BY <3>1, Levels
    <3>3. g.step \notin OnTop /\ StepOK(g)
      BY <2>1, <3>1, <3>2 DEF StackOK
    <3>4. StepOK(g)'
      BY <3>3, StepLater DEF OnTop
    <3>5. Level(t, l)' = g
      BY <1>1, <2>1, <3>2
    <3>6. QED
      BY <3>3, <3>4, <3>5 DEF StepOK
  <2>2. CASE l = Depth(t)
    <3>1. Level(t, l)' = f
      BY <1>1, <2>2
    <3>2. l < Depth(t)' => Len(s) # 0
      BY <1>1, <2>2
    <3>3. QED
      BY <3>1, <3>2 DEF StepOK
  <2>3. CASE l > Depth(t)
    <3>1. Depth(t)' + 1 - l \in 1..Len(s) /\ Level(t, l)' = s[Depth(t)' + 1 - l]
      BY <1>1, <2>3
    <3>2. PICK i \in 1..Len(s) : Level(t, l)' = s[i]
      BY <3>1
    <3>3. s[i].step \notin OnTop /\ StepOK(s[i])'
      BY DEF Quiet
    <3>4. QED
      BY <3>2, <3>3 DEF StepOK
  <2>4. QED
    BY <1>1, <2>1, <2>2, <2>3
<1>3. QED
  BY <1>2 DEF StackOK, OnTop

LEMMA StackWritten ==
  ASSUME TypeOK, NEW t \in Threads, StackOK(t), Later, stack[t] # <<>>,
         NEW f \in Steps, Replace(t, <<f>>), StepOK(f)'
  PROVE  StackOK(t)'
<1> DEFINE none == <<>>
<1>1. none \in Seq(Steps) /\ Len(none) = 0 /\ <<f>> = none \o <<f>>
  OBVIOUS
<1> HIDE DEF none
<1>2. Replace(t, none \o <<f>>) /\ Quiet(none)
  BY <1>1 DEF Quiet
<1>3. QED
  BY <1>1, <1>2, StackCovered

LEMMA StackAdded ==
  ASSUME TypeOK, NEW t \in Threads, StackOK(t), Later,
         stack[t] = <<>> \/ Top(t).step \notin OnTop,
         NEW S, Steps \subseteq S, NEW new \in Seq(S), Push(t, new),
         \A i \in 1..Len(new) : (i > 1 => new[i].step \notin OnTop) /\ StepOK(new[i])'
  PROVE  StackOK(t)'
<1>1. /\ Depth(t) \in Nat /\ Len(new) \in Nat /\ Depth(t)' = Depth(t) + Len(new)
      /\ \A l \in 1..Depth(t)' :
           Level(t, l)' = IF l <= Depth(t) THEN Level(t, l) ELSE new[Depth(t)' + 1 - l]
  BY StepsAdded
<1>2. ASSUME NEW l \in 1..Depth(t)'
      PROVE  (l < Depth(t)' => Level(t, l)'.step \notin OnTop) /\ StepOK(Level(t, l))'
  <2>1. CASE l <= Depth(t)
    <3>1. l \in 1..Depth(t)
      BY <1>1, <2>1
    <3>2. PICK g \in Steps : g = Level(t, l)
      BY <3>1, Levels
    <3>3. g.step \notin OnTop /\ StepOK(g)
      <4>1. CASE l < Depth(t)
        BY <3>1, <3>2, <4>1 DEF StackOK
      <4>2. CASE l = Depth(t)
        <5>1. stack[t] # <<>> /\ g = Top(t)
          BY <1>1, <3>1, <3>2, <4>2, Levels
        <5>2. QED
          BY <3>1, <3>2, <5>1 DEF StackOK
      <4>3. QED
        BY <1>1, <2>1, <4>1, <4>2
    <3>4. StepOK(g)'
      BY <3>3, StepLater DEF OnTop
    <3>5. Level(t, l)' = g
      BY <1>1, <2>1, <3>2
    <3>6. QED
      BY <3>3, <3>4, <3>5 DEF StepOK
  <2>2. CASE l > Depth(t)
    <3>1. /\ Depth(t)' + 1 - l \in 1..Len(new) /\ Level(t, l)' = new[Depth(t)' + 1 - l]
          /\ (l < Depth(t)' => Depth(t)' + 1 - l > 1)
      BY <1>1, <2>2
    <3>2. PICK i \in 1..Len(new) : Level(t, l)' = new[i] /\ (l < Depth(t)' => i > 1)
      BY <3>1
    <3>3. (i > 1 => new[i].step \notin OnTop) /\ StepOK(new[i])'
      OBVIOUS
    <3>4. QED
      BY <3>2, <3>3 DEF StepOK
  <2>3. QED
    BY <1>1, <2>1, <2>2
<1>3. QED
  BY <1>2 DEF StackOK, OnTop


\* An enqueue call will link its command, write its status and, when it blocks,
\* finish the queue.
EnqueuePushes(t, q, c, blocking) ==
  \E a, b \in EnqueueSteps' :
    /\ a = EnqueueStep("append", q, c) /\ b = EnqueueStep("stamp", q, c)
    /\ \/ ~blocking /\ Push(t, <<a, b>>)
       \/ \E f \in LockSteps' : /\ blocking /\ f = LockStep(q, Linked(q) \cup {c})
                                /\ Push(t, <<a, b, f>>)

LEMMA EnqueueView ==
  ASSUME TypeOK, NEW t \in Threads, NEW q \in Queues,
         NEW explicit \in BOOLEAN, NEW blocking \in BOOLEAN,
         NEW waits \in WaitLists(t, q), Enqueue(t, q, waits, explicit, blocking)
  PROVE  LET c == Len(command) + 1
         IN  /\ stack[t] = <<>> \/ (Top(t).step = "callback" /\ ~blocking)
             /\ c \notin Commands /\ Commands' = Commands \cup {c}
             /\ \A d \in Commands : command'[d] = command[d]
             /\ command'[c].queue = q /\ command'[c].event = NewEvent
             /\ command'[c].explicit = explicit
             /\ EnqueuePushes(t, q, c, blocking)
<1> DEFINE c == Len(command) + 1
           a == EnqueueStep("append", q, c)
           b == EnqueueStep("stamp", q, c)
           f == LockStep(q, Linked(q) \cup {c})
<1>1. /\ Calling(t) /\ (blocking => Idle(t))
      /\ CreateCommand(q, NewEvent, waits, explicit)
      /\ Push(t, <<a, b>> \o (IF blocking THEN <<f>> ELSE <<>>))
  BY Zenon DEF Enqueue
<1>2. stack[t] = <<>> \/ (Top(t).step = "callback" /\ ~blocking)
  BY <1>1 DEF Calling, Idle, At, Top
<1>3. PICK r : /\ command' = Append(command, r)
               /\ r.queue = q /\ r.event = NewEvent /\ r.explicit = explicit
  BY <1>1 DEF CreateCommand
<1>4. /\ c \notin Commands /\ Commands' = Commands \cup {c}
      /\ \A d \in Commands : command'[d] = command[d]
      /\ command'[c] = r
  BY <1>3, CommandAppended
<1>5. a \in EnqueueSteps' /\ b \in EnqueueSteps' /\ f \in LockSteps'
  BY <1>4 DEF EnqueueStep, EnqueueSteps, LockStep, LockSteps, Linked
<1>6. /\ ~blocking => Push(t, <<a, b>>)
      /\ blocking => Push(t, <<a, b, f>>)
  <2> DEFINE S == {a, b, f}
             u == <<a, b>> \o <<f>>
             v == <<a, b, f>>
             w == <<a, b>>
  <2>1. w \in Seq(S) /\ w \o <<>> = w
    BY ConcatEmptySeq
  <2>2. u = v
    BY PairAndOne
  <2> HIDE DEF a, b, f
  <2>3. QED
    BY <1>1, <2>1, <2>2
<1> HIDE DEF a, b, f, c
<1>7. /\ command'[c].queue = q /\ command'[c].event = NewEvent /\ command'[c].explicit = explicit
  BY <1>3, <1>4
<1>8. \E x, y \in EnqueueSteps' :
        /\ x = a /\ y = b
        /\ \/ ~blocking /\ Push(t, <<x, y>>)
           \/ \E g \in LockSteps' : /\ blocking /\ g = f /\ Push(t, <<x, y, g>>)
  BY <1>5, <1>6
<1>9. EnqueuePushes(t, q, c, blocking)
  BY <1>8 DEF EnqueuePushes, a, b, f
<1>10. QED
  BY <1>2, <1>4, <1>7, <1>9 DEF c

\* The other calls of the client: from an idle thread, and at most a flush and
\* what is left to do after it is put on the stack.
ClientPushes(t) ==
  \/ UNCHANGED stack
  \/ \E f \in LockSteps : /\ Push(t, <<f>>)
                          /\ \/ f.due = Linked(f.q) /\ quser[f.q] > 0
                             \/ \E e \in Events : /\ f.q = event[e].queue /\ f.due = {event[e].cmd}
                                                  /\ event[e].user > 0 /\ UNCHANGED event
  \/ \E f \in LockSteps, g \in UnrefSteps :
       Push(t, <<f, g>>) /\ f.due = {} /\ g = UnrefStep(f.q)
  \/ \E f \in LockSteps, g \in UnrefSteps, r \in RecycleSteps :
       /\ Push(t, <<f, g, r>>) /\ f.due = {} /\ g = UnrefStep(f.q) /\ r = RecycleStep(r.e)
       /\ f.q = event[r.e].queue

OtherCall(t) ==
  \/ \E q \in Queues : Finish(t, q) \/ RetainQueue(t, q) \/ ReleaseQueue(t, q)
  \/ \E e \in Events : \/ WaitForEvent(t, e) \/ RetainEvent(t, e)
                       \/ ReleaseEvent(t, e) \/ SetEventCallback(t, e)

LEMMA CallView ==
  ASSUME TypeOK, NEW t \in Threads, OtherCall(t)
  PROVE  /\ stack[t] = <<>> /\ ~aborted
         /\ UNCHANGED <<root, lock, pool, command, started, finished, aborted>>
         /\ ClientPushes(t)
<1>1. /\ stack[t] = <<>> /\ ~aborted
      /\ UNCHANGED <<root, lock, pool, command, started, finished, aborted>>
  BY DEF OtherCall, Finish, RetainQueue, ReleaseQueue, WaitForEvent, RetainEvent,
     ReleaseEvent, SetEventCallback, Idle
<1>2. ASSUME NEW q \in Queues, Finish(t, q)
      PROVE  ClientPushes(t)
  <2> DEFINE f == LockStep(q, Linked(q))
  <2>1. f \in LockSteps /\ f.q = q /\ f.due = Linked(f.q)
    BY DEF LockStep, LockSteps, Linked
  <2>2. Push(t, <<f>>) /\ quser[q] > 0
    BY <1>2 DEF Finish, OwnsQueue
  <2> HIDE DEF f
  <2>3. QED
    BY <2>1, <2>2 DEF ClientPushes
<1>3. ASSUME NEW q \in Queues, ReleaseQueue(t, q)
      PROVE  ClientPushes(t)
  <2> DEFINE f == LockStep(q, {})
             g == UnrefStep(q)
  <2>1. f \in LockSteps /\ f.q = q /\ f.due = {} /\ g \in UnrefSteps
    BY DEF LockStep, LockSteps, UnrefStep, UnrefSteps
  <2>2. Push(t, <<f, g>>)
    BY <1>3 DEF ReleaseQueue, ReleaseQueueSteps
  <2>3. g = UnrefStep(f.q)
    BY <2>1
  <2> HIDE DEF f, g
  <2>4. QED
    BY <2>1, <2>2, <2>3 DEF ClientPushes
<1>4. ASSUME NEW e \in Events, WaitForEvent(t, e)
      PROVE  ClientPushes(t)
  <2> DEFINE f == LockStep(event[e].queue, {event[e].cmd})
  <2>1. f \in LockSteps /\ f.q = event[e].queue /\ f.due = {event[e].cmd}
    BY EventTyped DEF LockStep, LockSteps
  <2>2. Push(t, <<f>>) /\ event[e].user > 0 /\ UNCHANGED event
    BY <1>4 DEF WaitForEvent, OwnsEvent
  <2> HIDE DEF f
  <2>3. QED
    BY <2>1, <2>2 DEF ClientPushes
<1>5. ASSUME NEW e \in Events, ReleaseEvent(t, e)
      PROVE  ClientPushes(t)
  <2> DEFINE f == LockStep(event[e].queue, {})
             g == UnrefStep(event[e].queue)
             r == RecycleStep(e)
  <2>1. /\ f \in LockSteps /\ f.q = event[e].queue /\ f.due = {} /\ g \in UnrefSteps
        /\ r \in RecycleSteps /\ r.e = e
    BY EventTyped DEF LockStep, LockSteps, UnrefStep, UnrefSteps, RecycleStep, RecycleSteps
  <2>2. FreeEventSteps(e) = <<f, g, r>>
    BY FreeSteps
  <2>3. UNCHANGED stack \/ Push(t, <<f, g, r>>)
    BY <1>5, <2>2 DEF ReleaseEvent
  <2>4. g = UnrefStep(f.q) /\ r = RecycleStep(r.e)
    BY <2>1
  <2> HIDE DEF f, g, r
  <2>5. QED
    BY <2>1, <2>3, <2>4 DEF ClientPushes
<1>6. ASSUME UNCHANGED stack
      PROVE  ClientPushes(t)
  BY <1>6 DEF ClientPushes
<1>7. QED
  BY <1>1, <1>2, <1>3, <1>4, <1>5, <1>6 DEF OtherCall, RetainQueue, RetainEvent, SetEventCallback

-----------------------------------------------------------------------------
(* A command that has not ended is in one place.                               *)

PlacesOK(t) == HomesOK(t) /\ StackOK(t)

\* Nothing leaves the places of the levels when the top step holds what the
\* step that replaces it holds.
LEMMA PlacesWritten ==
  ASSUME TypeOK, NEW t \in Threads, PlacesOK(t), Later, UNCHANGED <<root, command>>,
         stack[t] # <<>>, NEW f \in Steps, Replace(t, <<f>>),
         Holds(f) = Holds(Top(t)), StepOK(f)'
  PROVE  PlacesOK(t)'
<1>1. HeldBecomes(t, Depth(t), Holds(f))
  BY HeldWritten
<1>2. \A l : Held(t, l)' = Held(t, l)
  BY <1>1, HeldTop DEF HeldBecomes
<1>3. HomesOK(t)'
  BY <1>2, HomesKept DEF PlacesOK, Later
<1>4. StackOK(t)'
  BY StackWritten DEF PlacesOK
<1>5. QED
  BY <1>3, <1>4 DEF PlacesOK

\* A step that holds nothing leaves.
LEMMA PlacesLeft ==
  ASSUME TypeOK, NEW t \in Threads, PlacesOK(t), Later, UNCHANGED <<root, command>>,
         stack[t] # <<>>, Replace(t, <<>>), Holds(Top(t)) = <<>>
  PROVE  PlacesOK(t)'
<1>1. HeldBecomes(t, Depth(t), <<>>)
  BY HeldLeaves
<1>2. \A l : Held(t, l)' = Held(t, l)
  BY <1>1, HeldTop DEF HeldBecomes
<1>3. HomesOK(t)'
  BY <1>2, HomesKept DEF PlacesOK, Later
<1>4. StackOK(t)'
  BY StackLeaves DEF PlacesOK
<1>5. QED
  BY <1>3, <1>4 DEF PlacesOK

LEMMA LeaveKeepsPlaces ==
  ASSUME TypeOK, NEW t \in Threads, PlacesOK(t), Later,
         StampQueued(t) \/ CallbackReturns(t) \/ Return(t) \/ UnrefQueue(t) \/ RecycleEvent(t)
  PROVE  PlacesOK(t)'
<1>1. stack[t] # <<>> /\ Replace(t, <<>>) /\ UNCHANGED <<root, command>>
  BY DEF StampQueued, CallbackReturns, Return, UnrefQueue, RecycleEvent, At
<1>2. Holds(Top(t)) = <<>>
  <2>1. \/ Top(t).step \in {"stamp", "callback", "unref", "recycle"}
        \/ Top(t).step = "run" /\ Top(t).todo = <<>>
    BY DEF StampQueued, CallbackReturns, Return, UnrefQueue, RecycleEvent, At, Top
  <2>2. QED
    BY <2>1, HoldsKinds
<1>3. QED
  BY <1>1, <1>2, PlacesLeft

LEMMA AppendKeepsPlaces ==
  ASSUME TypeOK, NEW t \in Threads, PlacesOK(t), Later, AppendCommand(t)
  PROVE  PlacesOK(t)'
<1>1. /\ stack[t] # <<>> /\ Top(t) \in EnqueueSteps /\ Top(t).step = "append"
      /\ Replace(t, <<>>) /\ UNCHANGED <<command, finished>>
      /\ root' = [root EXCEPT ![Top(t).q] = Append(@, Top(t).c)]
  BY AtTyped, StepKinds DEF AppendCommand
<1>2. Top(t).q \in Queues /\ Top(t).c \in Commands /\ command[Top(t).c].queue = Top(t).q
  BY <1>1, TopOK DEF EnqueueSteps, PlacesOK, StepOK
<1>3. Held(t, Depth(t)) = <<Top(t).c>>
  BY <1>1, HeldTop, HoldsKinds
<1>4. HeldBecomes(t, Depth(t), <<>>)
  BY <1>1, HeldLeaves
<1>5. HomesOK(t)'
  BY <1>1, <1>2, <1>3, <1>4, HomesLink DEF PlacesOK
<1>6. StackOK(t)'
  BY <1>1, StackLeaves DEF PlacesOK
<1>7. QED
  BY <1>5, <1>6 DEF PlacesOK

LEMMA LoopKeepsPlaces ==
  ASSUME TypeOK, NEW t \in Threads, PlacesOK(t), Later,
         LockQueue(t) \/ Scan(t) \/ UnlockQueue(t) \/ StartCommand(t)
  PROVE  PlacesOK(t)'
<1>1. UNCHANGED <<root, command>>
  BY DEF LockQueue, Scan, UnlockQueue, StartCommand
<1>2. ASSUME NEW f \in Steps, f.step \in {"scan", "run", "complete"}
      PROVE  StepOK(f)'
  BY <1>2 DEF StepOK
<1>3. CASE LockQueue(t)
  <2>1. stack[t] # <<>> /\ Top(t) \in LockSteps
    BY <1>3, LockView
  <2>2. PICK f \in ScanSteps : Replace(t, <<f>>) /\ f.ready = <<>>
    BY <1>3, LockView
  <2>3. f \in Steps /\ f.step = "scan" /\ Top(t).step = "lock"
    BY <2>1, <2>2 DEF ScanSteps, LockSteps, Steps
  <2>4. Holds(f) = Holds(Top(t))
    BY <2>2, <2>3, HoldsKinds
  <2>5. QED
    BY <1>1, <1>2, <2>1, <2>2, <2>3, <2>4, PlacesWritten
<1>4. CASE Scan(t)
  <2>1. stack[t] # <<>> /\ Top(t) \in ScanSteps /\ Top(t).step = "scan"
    BY <1>4, ScanView DEF ScanSteps
  <2>2. PICK f \in Steps : Replace(t, <<f>>) /\ (Turns(t, f) \/ Takes(t, f))
    BY <1>4, ScanView
  <2>3. CASE Turns(t, f)
    <3>1. f.step = "scan" /\ f.ready = Top(t).ready
      BY <2>3 DEF Turns, ScanSteps
    <3>2. Holds(f) = Holds(Top(t))
      BY <2>1, <3>1, HoldsKinds
    <3>3. QED
      BY <1>1, <1>2, <2>1, <2>2, <3>1, <3>2, PlacesWritten
  <2>4. CASE Takes(t, f)
    <3>1. /\ f.step = "submit" /\ Front(f.ready) = Top(t).ready
          /\ root[f.hand] # <<>> /\ Last(f.ready) = Head(root[f.hand])
      BY <2>4 DEF Takes, SubmitSteps
    <3>2. Holds(f) = Holds(Top(t))
      BY <2>1, <3>1, HoldsKinds
    <3>3. StepOK(f)'
      BY <1>1, <3>1 DEF StepOK
    <3>4. QED
      BY <1>1, <2>1, <2>2, <3>2, <3>3, PlacesWritten
  <2>5. QED
    BY <2>2, <2>3, <2>4
<1>5. CASE UnlockQueue(t)
  <2>1. stack[t] # <<>> /\ Top(t) \in ScanSteps
    BY <1>5, UnlockView
  <2>2. PICK f \in RunSteps : Replace(t, <<f>>) /\ f.todo = Top(t).ready
    BY <1>5, UnlockView
  <2>3. f \in Steps /\ f.step = "run" /\ Top(t).step = "scan"
    BY <2>1, <2>2 DEF ScanSteps, RunSteps, Steps
  <2>4. Holds(f) = Holds(Top(t))
    BY <2>2, <2>3, HoldsKinds
  <2>5. QED
    BY <1>1, <1>2, <2>1, <2>2, <2>3, <2>4, PlacesWritten
<1>6. CASE StartCommand(t)
  <2>1. stack[t] # <<>> /\ Top(t) \in RunSteps
    BY <1>6, StartView
  <2>2. PICK f \in BusySteps : Replace(t, <<f>>) /\ f.step = "complete" /\ f.todo = Top(t).todo
    BY <1>6, StartView
  <2>3. f \in Steps /\ Top(t).step = "run"
    BY <2>1, <2>2 DEF RunSteps, Steps
  <2>4. Holds(f) = Holds(Top(t))
    BY <2>2, <2>3, HoldsKinds
  <2>5. QED
    BY <1>1, <1>2, <2>1, <2>2, <2>3, <2>4, PlacesWritten
<1>7. QED
  BY <1>3, <1>4, <1>5, <1>6

LEMMA SubmitKeepsPlaces ==
  ASSUME TypeOK, NEW t \in Threads, PlacesOK(t), Later, Submit(t)
  PROVE  PlacesOK(t)'
<1>1. /\ stack[t] # <<>> /\ Top(t) \in SubmitSteps
      /\ root[Top(t).hand] # <<>> /\ Last(Top(t).ready) = Head(root[Top(t).hand])
      /\ UNCHANGED <<command, finished>>
  BY SubmitView DEF PlacesOK, Submit
<1>2. CASE UNCHANGED <<root, stack>>
  <2>1. \A l : Held(t, l)' = Held(t, l)
    BY <1>2 DEF Held, Depth, Level, Holds
  <2>2. UNCHANGED StackOK(t)
    BY <1>1, <1>2 DEF StackOK, Depth, Level, StepOK, OnTop
  <2>3. QED
    BY <1>1, <1>2, <2>1, <2>2, HomesKept DEF PlacesOK
<1>3. ASSUME root' = [root EXCEPT ![Top(t).hand] = Tail(@)],
             NEW f \in ScanSteps, Replace(t, <<f>>), Turns(t, f)
      PROVE  PlacesOK(t)'
  <2>1. /\ Top(t).hand \in Queues /\ Top(t).ready \in Seq(Commands) /\ Top(t).ready # <<>>
        /\ Top(t).step = "submit"
    BY <1>1 DEF SubmitSteps
  <2>2. Held(t, Depth(t)) = Front(Top(t).ready)
    BY <1>1, <2>1, HeldTop, HoldsKinds
  <2>3. f \in Steps /\ f.step = "scan" /\ f.ready = Top(t).ready
    BY <1>3 DEF Turns, ScanSteps, Steps
  <2>4. Holds(f) = Top(t).ready
    BY <2>3, HoldsKinds
  <2>5. HeldBecomes(t, Depth(t), Holds(f))
    BY <1>1, <1>3, <2>3, HeldWritten
  <2>6. HeldBecomes(t, Depth(t), Top(t).ready)
    BY <2>4, <2>5
  <2>7. HomesOK(t)'
    BY <1>1, <1>3, <2>1, <2>2, <2>6, HomesTake DEF PlacesOK
  <2>8. StepOK(f)'
    BY <2>3 DEF StepOK
  <2>9. StackOK(t)'
    BY <1>1, <1>3, <2>3, <2>8, StackWritten DEF PlacesOK
  <2>10. QED
    BY <2>7, <2>9 DEF PlacesOK
<1>4. QED
  <2>1. \/ UNCHANGED <<root, stack>>
        \/ /\ root' = [root EXCEPT ![Top(t).hand] = Tail(@)]
           /\ \E f \in ScanSteps : Replace(t, <<f>>) /\ Turns(t, f)
    BY SubmitView DEF PlacesOK
  <2>2. QED
    BY <1>2, <1>3, <2>1


LEMMA CompleteKeepsPlaces ==
  ASSUME TypeOK, NEW t \in Threads, PlacesOK(t), Later, CompleteCommand(t)
  PROVE  PlacesOK(t)'
<1>1. /\ stack[t] # <<>> /\ Top(t) \in BusySteps /\ Top(t).step = "complete"
      /\ Head(Top(t).todo) \in finished' /\ UNCHANGED <<root, command>>
  BY CompleteView DEF CompleteCommand
<1>2. PICK f \in BusySteps, s \in Seq(Steps) :
        /\ Replace(t, s \o <<f>>) /\ f.step = "release" /\ f.todo = Top(t).todo
        /\ \A i \in 1..Len(s) : s[i] = CallbackStep
  BY CompleteView
<1>3. f \in Steps
  BY <1>2 DEF Steps
<1>4. Holds(CallbackStep) = <<>> /\ CallbackStep.step \notin OnTop
  BY HoldsKinds DEF CallbackStep, OnTop
<1>5. Quiet(s)
  <2>1. \A i \in 1..Len(s) : StepOK(s[i])'
    BY <1>2 DEF StepOK, CallbackStep
  <2>2. QED
    BY <1>2, <1>4, <2>1 DEF Quiet
<1>6. HeldBecomes(t, Depth(t), Holds(f))
  BY <1>1, <1>2, <1>3, <1>5, HeldCovered DEF Quiet
<1>7. Holds(f) = Held(t, Depth(t))
  BY <1>1, <1>2, HoldsKinds, HeldTop
<1>8. \A l : Held(t, l)' = Held(t, l)
  BY <1>6, <1>7 DEF HeldBecomes
<1>9. HomesOK(t)'
  BY <1>1, <1>8, HomesKept DEF PlacesOK, Later
<1>10. StepOK(f)' /\ f.step \notin OnTop
  BY <1>1, <1>2 DEF StepOK, OnTop
<1>11. StackOK(t)'
  BY <1>1, <1>2, <1>3, <1>5, <1>10, StackCovered DEF PlacesOK
<1>12. QED
  BY <1>9, <1>11 DEF PlacesOK

\* The steps that free an event or a queue are quiet.
LEMMA FreeingIsQuiet ==
  ASSUME NEW s, NEW f \in LockSteps, NEW g \in UnrefSteps, NEW r,
         r.step = "recycle",
         s = <<f>> \/ s = <<f, g>> \/ s = <<f, g, r>>
  PROVE  Quiet(s)
<1>1. f.step = "lock" /\ g.step = "unref"
  BY DEF LockSteps, UnrefSteps
<1>2. Len(s) \in {1, 2, 3} /\ \A i \in 1..Len(s) : s[i] \in {f, g, r}
  <2>1. CASE s = <<f>>
    BY <2>1
  <2>2. CASE s = <<f, g>>
    BY <2>2
  <2>3. CASE s = <<f, g, r>>
    BY <2>3
  <2>4. QED
    BY <2>1, <2>2, <2>3
<1>3. \A x \in {f, g, r} : Holds(x) = <<>> /\ x.step \notin OnTop
  BY <1>1, HoldsKinds DEF OnTop
<1>4. \A x \in {f, g, r} : StepOK(x)'
  BY <1>1 DEF StepOK
<1>5. QED
  BY <1>2, <1>3, <1>4 DEF Quiet

LEMMA ReleaseKeepsPlaces ==
  ASSUME TypeOK, NEW t \in Threads, PlacesOK(t), Later, ReleaseImplicitEvent(t)
  PROVE  PlacesOK(t)'
<1>1. /\ stack[t] # <<>> /\ Top(t) \in BusySteps /\ Top(t).step = "release"
      /\ UNCHANGED <<root, command, finished>>
  BY ReleaseView DEF ReleaseImplicitEvent
<1> DEFINE e == command[Head(Top(t).todo)].event
<1>2. PICK f \in RunSteps, s \in Seq(Steps) :
        /\ Replace(t, s \o <<f>>) /\ f.step = "run" /\ f.todo = Tail(Top(t).todo)
        /\ s = <<>> \/ s = FreeEventSteps(e)
  BY ReleaseView
<1>3. f \in Steps
  BY <1>2 DEF Steps
<1>4. Quiet(s)
  <2>1. CASE s = <<>>
    BY <2>1 DEF Quiet
  <2>2. CASE s = FreeEventSteps(e)
    <3>1. e \in Events
      BY ReleaseView
    <3> HIDE DEF e
    <3>2. s = <<LockStep(event[e].queue, {}), UnrefStep(event[e].queue), RecycleStep(e)>>
      BY <2>2, <3>1, FreeSteps
    <3>3. /\ LockStep(event[e].queue, {}) \in LockSteps /\ UnrefStep(event[e].queue) \in UnrefSteps
          /\ RecycleStep(e) \in RecycleSteps
      BY <3>1, EventTyped DEF LockStep, LockSteps, UnrefStep, UnrefSteps, RecycleStep, RecycleSteps
    <3>4. PICK a \in LockSteps, b \in UnrefSteps, r \in RecycleSteps : s = <<a, b, r>>
      BY <3>2, <3>3
    <3>5. QED
      BY <3>4, FreeingIsQuiet DEF RecycleSteps
  <2>3. QED
    BY <1>2, <2>1, <2>2
<1>5. HeldBecomes(t, Depth(t), Holds(f))
  BY <1>1, <1>2, <1>3, <1>4, HeldCovered DEF Quiet
<1>6. Holds(f) = Tail(Top(t).todo) /\ Held(t, Depth(t)) = Top(t).todo
  BY <1>1, <1>2, HoldsKinds, HeldTop
<1>7. Top(t).todo \in Seq(Commands) /\ Top(t).todo # <<>>
  BY <1>1 DEF BusySteps
<1>8. Head(Top(t).todo) \in finished
  BY <1>1, TopOK DEF StepOK, PlacesOK
<1>9. HeldBecomes(t, Depth(t), Tail(Top(t).todo))
  BY <1>5, <1>6
<1>10. HomesOK(t)'
  BY <1>1, <1>6, <1>7, <1>8, <1>9, HomesDrop DEF PlacesOK
<1>11. StepOK(f)' /\ f.step \notin OnTop
  BY <1>2 DEF StepOK, OnTop
<1>12. StackOK(t)'
  BY <1>1, <1>2, <1>3, <1>4, <1>11, StackCovered DEF PlacesOK
<1>13. QED
  BY <1>10, <1>12 DEF PlacesOK

\* Steps that hold nothing are put on the stack.
LEMMA PlacesUnder ==
  ASSUME TypeOK, NEW t \in Threads, PlacesOK(t), Later, UNCHANGED <<root, command, finished>>,
         stack[t] = <<>>, NEW s \in Seq(Steps), s # <<>>, Push(t, s), Quiet(s)
  PROVE  PlacesOK(t)'
<1>1. Len(s) \in Nat /\ Len(s) > 0 /\ 1 \in 1..Len(s)
  BY EmptySeq, LenProperties
<1>2. \A i \in 1..Len(s) : Holds(s[i]) = <<>>
  BY DEF Quiet
<1>3. \A i \in 2..Len(s) : i \in 1..Len(s)
  BY <1>1
<1>4. /\ \A l : Held(t, l)' = IF l = Depth(t)' THEN Holds(s[1]) ELSE Held(t, l)
      /\ Held(t, Depth(t)') = <<>>
  BY <1>2, <1>3, HeldAdded
<1>5. \A l : Held(t, l)' = Held(t, l)
  BY <1>1, <1>2, <1>4
<1>6. HomesOK(t)'
  BY <1>5, HomesKept DEF PlacesOK
<1>7. StackOK(t)'
  BY StackAdded DEF PlacesOK, Quiet
<1>8. QED
  BY <1>6, <1>7 DEF PlacesOK

LEMMA CallKeepsPlaces ==
  ASSUME TypeOK, NEW t \in Threads, PlacesOK(t), Later, OtherCall(t)
  PROVE  PlacesOK(t)'
<1>1. stack[t] = <<>> /\ UNCHANGED <<root, command, finished>> /\ ClientPushes(t)
  BY CallView
<1>2. CASE UNCHANGED stack
  <2>1. \A l : Held(t, l)' = Held(t, l)
    BY <1>2 DEF Held, Depth, Level, Holds
  <2>2. UNCHANGED StackOK(t)
    BY <1>1, <1>2 DEF StackOK, Depth, Level, StepOK, OnTop
  <2>3. QED
    BY <1>1, <2>1, <2>2, HomesKept DEF PlacesOK
<1>3. ASSUME NEW f \in LockSteps, NEW g \in UnrefSteps, NEW r \in RecycleSteps, NEW s,
             s = <<f>> \/ s = <<f, g>> \/ s = <<f, g, r>>, Push(t, s)
      PROVE  PlacesOK(t)'
  <2>1. f \in Steps /\ g \in Steps /\ r \in Steps /\ r.step = "recycle"
    BY DEF Steps, RecycleSteps
  <2>2. s \in Seq(Steps) /\ s # <<>>
    <3>1. <<f>> \in Seq(Steps) /\ <<f, g>> \in Seq(Steps) /\ <<f, g, r>> \in Seq(Steps)
      BY <2>1
    <3>2. <<f>> # <<>> /\ <<f, g>> # <<>> /\ <<f, g, r>> # <<>>
      OBVIOUS
    <3>3. QED
      BY <1>3, <3>1, <3>2
  <2>3. Quiet(s)
    BY <1>3, <2>1, FreeingIsQuiet
  <2>4. QED
    BY <1>1, <1>3, <2>2, <2>3, PlacesUnder
<1>4. ASSUME NEW f \in LockSteps
      PROVE  UnrefStep(f.q) \in UnrefSteps
  BY DEF LockSteps, UnrefStep, UnrefSteps
<1>5. ASSUME NEW f \in LockSteps, Push(t, <<f>>) \/ \E g \in UnrefSteps : Push(t, <<f, g>>)
      PROVE  PlacesOK(t)'
  <2>1. PICK s : Push(t, s) /\ (s = <<f>> \/ \E g \in UnrefSteps : s = <<f, g>>)
    BY <1>5
  <2>2. PICK g \in UnrefSteps : s = <<f>> \/ s = <<f, g>>
    BY <1>4, <2>1
  <2>3. g \in Steps /\ f \in Steps
    BY DEF Steps
  <2>4. s \in Seq(Steps) /\ s # <<>>
    <3>1. <<f>> \in Seq(Steps) /\ <<f, g>> \in Seq(Steps)
      BY <2>3
    <3>2. <<f>> # <<>> /\ <<f, g>> # <<>>
      OBVIOUS
    <3>3. QED
      BY <2>2, <3>1, <3>2
  <2>5. Quiet(s)
    <3>1. RecycleStep(t).step = "recycle"
      BY DEF RecycleStep
    <3>2. PICK r : r = RecycleStep(t)
      OBVIOUS
    <3>3. QED
      BY <2>2, <3>1, <3>2, FreeingIsQuiet
  <2>6. QED
    BY <1>1, <2>1, <2>4, <2>5, PlacesUnder
<1>6. QED
  BY <1>1, <1>2, <1>3, <1>5 DEF ClientPushes

LEMMA EnqueueKeepsPlaces ==
  ASSUME TypeOK, TypeOK', NEW t \in Threads, PlacesOK(t), Later, NEW q \in Queues,
         NEW explicit \in BOOLEAN, NEW blocking \in BOOLEAN,
         NEW waits \in WaitLists(t, q), Enqueue(t, q, waits, explicit, blocking)
  PROVE  PlacesOK(t)'
<1> DEFINE c == Len(command) + 1
<1>1. /\ stack[t] = <<>> \/ Top(t).step = "callback"
      /\ c \notin Commands /\ Commands' = Commands \cup {c}
      /\ \A d \in Commands : command'[d] = command[d]
      /\ command'[c].queue = q
  BY EnqueueView
<1>2. PICK a, b \in EnqueueSteps' :
        /\ a = EnqueueStep("append", q, c) /\ b = EnqueueStep("stamp", q, c)
        /\ Push(t, <<a, b>>) \/ \E f \in LockSteps' : Push(t, <<a, b, f>>)
  <2>1. EnqueuePushes(t, q, c, blocking)
    BY EnqueueView
  <2> HIDE DEF c
  <2>2. QED
    BY <2>1 DEF EnqueuePushes
<1> HIDE DEF c
<1>3. UNCHANGED <<root, finished>>
  BY DEF Enqueue
<1>4. PICK s, f : /\ Push(t, s) /\ (s = <<a, b>> \/ s = <<a, b, f>>) /\ f.step = "lock"
                  /\ s \in Seq(Steps')
  <2>1. a \in Steps' /\ b \in Steps'
    BY DEF Steps
  <2>2. CASE Push(t, <<a, b>>)
    <3>1. LockStep(q, {}).step = "lock"
      BY DEF LockStep
    <3>2. <<a, b>> \in Seq(Steps')
      BY <2>1
    <3>3. QED
      BY <2>2, <3>1, <3>2
  <2>3. ASSUME NEW f \in LockSteps', Push(t, <<a, b, f>>)
        PROVE  \E s, g : /\ Push(t, s) /\ (s = <<a, b>> \/ s = <<a, b, g>>) /\ g.step = "lock"
                         /\ s \in Seq(Steps')
    <3>1. f.step = "lock" /\ f \in Steps'
      BY DEF LockSteps, Steps
    <3>2. <<a, b, f>> \in Seq(Steps')
      BY <2>1, <3>1
    <3>3. QED
      BY <2>3, <3>1, <3>2
  <2>4. QED
    BY <1>2, <2>2, <2>3
<1>5. Steps \subseteq Steps'
  <2>1. Events \subseteq Events'
    <3>1. Len(command) + 1 \in Commands' /\ Commands \subseteq Commands'
      BY <1>1 DEF c
    <3>2. CreateEvent(q, Len(command) + 1, explicit)
      BY Zenon DEF Enqueue
    <3>3. QED
      BY <3>1, <3>2, EventCreated
  <2>2. QED
    BY <1>1, <2>1, TypesGrow
<1>6. /\ Len(s) \in {2, 3} /\ s # <<>> /\ s[1] = a
      /\ \A i \in 2..Len(s) : s[i] \in {b, f}
      /\ \A i \in 1..Len(s) : s[i] \in {a, b, f}
  <2>1. CASE s = <<a, b>>
    BY <2>1
  <2>2. CASE s = <<a, b, f>>
    BY <2>2
  <2>3. QED
    BY <1>4, <2>1, <2>2
<1>7. a.step = "append" /\ a.q = q /\ a.c = c /\ b.step = "stamp"
  BY <1>2 DEF EnqueueStep
<1>8. Holds(a) = <<c>> /\ Holds(b) = <<>> /\ Holds(f) = <<>>
  BY <1>4, <1>7, HoldsKinds
<1>9. \A i \in 2..Len(s) : Holds(s[i]) = <<>>
  BY <1>6, <1>8
<1>10. /\ \A l : Held(t, l)' = IF l = Depth(t)' THEN <<c>> ELSE Held(t, l)
       /\ Held(t, Depth(t)') = <<>>
  BY <1>4, <1>5, <1>6, <1>8, <1>9, HeldAdded
<1>11. HomesOK(t)'
  <2>1. PICK k : k = Depth(t)'
    OBVIOUS
  <2>2. \A l : Held(t, l)' = IF l = k THEN <<c>> ELSE Held(t, l)
    BY <1>10, <2>1
  <2>3. Held(t, k) = <<>>
    BY <1>10, <2>1
  <2>4. QED
    BY <1>1, <1>3, <2>2, <2>3, HomesEnter DEF PlacesOK
<1>12. \A i \in 1..Len(s) : (i > 1 => s[i].step \notin OnTop) /\ StepOK(s[i])'
  <2>1. StepOK(a)' /\ StepOK(b)' /\ StepOK(f)'
    BY <1>1, <1>4, <1>7 DEF StepOK
  <2>2. b.step \notin OnTop /\ f.step \notin OnTop
    BY <1>4, <1>7 DEF OnTop
  <2>3. \A i \in 1..Len(s) : i > 1 => i \in 2..Len(s)
    BY <1>6
  <2>4. \A i \in 1..Len(s) : StepOK(s[i])'
    BY <1>6, <2>1
  <2>5. QED
    BY <1>6, <2>2, <2>3, <2>4
<1>13. stack[t] = <<>> \/ Top(t).step \notin OnTop
  BY <1>1 DEF OnTop
<1>14. StackOK(t)'
  BY <1>4, <1>5, <1>12, <1>13, StackAdded DEF PlacesOK
<1>15. QED
  BY <1>11, <1>14 DEF PlacesOK


LEMMA StillPlaces ==
  ASSUME TypeOK, NEW t \in Threads, PlacesOK(t), UNCHANGED vars
  PROVE  PlacesOK(t)'
<1>1. UNCHANGED <<root, command, finished, stack>>
  BY DEF vars
<1>2. \A l : Held(t, l)' = Held(t, l)
  BY <1>1 DEF Held, Depth, Level, Holds
<1>3. UNCHANGED StackOK(t)
  BY <1>1 DEF StackOK, Depth, Level, StepOK, OnTop
<1>4. QED
  BY <1>1, <1>2, <1>3, HomesKept DEF PlacesOK

LEMMA PlacesStep ==
  ASSUME NEW t, Threads = {t}, TypeOK, TypeOK', PlacesOK(t), [Next]_vars
  PROVE  PlacesOK(t)'
<1>1. t \in Threads /\ Later
  BY StepsLater
<1>2. ASSUME ClientCall(t)
      PROVE  PlacesOK(t)'
  <2>1. ASSUME NEW q \in Queues, NEW explicit \in BOOLEAN, NEW blocking \in BOOLEAN,
               NEW waits \in WaitLists(t, q), Enqueue(t, q, waits, explicit, blocking)
        PROVE  PlacesOK(t)'
    BY <1>1, <2>1, EnqueueKeepsPlaces
  <2>2. CASE OtherCall(t)
    BY <1>1, <2>2, CallKeepsPlaces
  <2>3. QED
    BY <1>2, <2>1, <2>2 DEF ClientCall, OtherCall
<1>3. ASSUME RuntimeStep(t)
      PROVE  PlacesOK(t)'
  BY <1>1, <1>3, LeaveKeepsPlaces, AppendKeepsPlaces, LoopKeepsPlaces, SubmitKeepsPlaces,
     CompleteKeepsPlaces, ReleaseKeepsPlaces DEF RuntimeStep
<1>4. CASE UNCHANGED vars
  BY <1>1, <1>4, StillPlaces
<1>5. QED
  BY <1>2, <1>3, <1>4 DEF Next

LEMMA PlacesInit ==
  ASSUME NEW t \in Threads, Init
  PROVE  PlacesOK(t)
<1>1. Commands = {} /\ stack[t] = <<>> /\ \A q \in Queues : root[q] = <<>>
  BY DEF Init, Commands
<1>2. Depth(t) = 0 /\ \A l : Held(t, l) = <<>>
  BY <1>1 DEF Depth, Held
<1>3. \A q \in Queues : /\ Distinct(root[q])
                        /\ \A c : ~Has(root[q], c)
  BY <1>1, HasNothing
<1>4. \A l : Distinct(Held(t, l)) /\ \A c : ~Has(Held(t, l), c)
  BY <1>2, HasNothing
<1>5. HomesOK(t)
  BY <1>1, <1>3, <1>4 DEF HomesOK
<1>6. StackOK(t)
  BY <1>2 DEF StackOK
<1>7. QED
  BY <1>5, <1>6 DEF PlacesOK

\* The places of a command are its positions in the queues and the levels.
LEMMA OneHome ==
  ASSUME NEW t, Threads = {t}, TypeOK, PlacesOK(t), NEW c \in Commands \ finished
  PROVE  \E x : Homes(c) = {x}
<1>0. Homes(c) = QueuePlaces(c) \cup StepPlaces(t, c)
  BY DEF Homes
<1>1. t \in Threads /\ Depth(t) \in Nat /\ DOMAIN stack[t] = 1..Depth(t)
  <2>1. DOMAIN stack[t] = 1..Len(stack[t])
    BY LenProperties DEF TypeOK
  <2>2. QED
    BY <2>1, Levels DEF Depth
<1>2. \A q \in Queues : root[q] \in Seq(Commands) /\ DOMAIN root[q] = 1..Len(root[q])
  BY LenProperties DEF TypeOK
<1>3. \A l : DOMAIN Held(t, l) = 1..Len(Held(t, l))
  BY <1>1, HeldTyped, LenProperties
<1>4. ASSUME NEW y \in Homes(c)
      PROVE  \/ \E q \in Queues : \E i \in 1..Len(root[q]) : y = <<q, i>> /\ root[q][i] = c
             \/ \E l \in 1..Depth(t) : \E i \in 1..Len(Held(t, l)) :
                  y = <<t, (Depth(t) + 1) - l, i>> /\ Held(t, l)[i] = c
  <2>1. CASE y \in QueuePlaces(c)
    <3>1. PICK q \in Queues : y \in {<<q, i>> : i \in Listed(root[q], c)}
      BY <2>1 DEF QueuePlaces
    <3>2. PICK i \in Listed(root[q], c) : y = <<q, i>>
      BY <3>1
    <3>3. i \in 1..Len(root[q]) /\ root[q][i] = c
      BY <1>2, <3>2 DEF Listed
    <3>4. QED
      BY <3>2, <3>3
  <2>2. CASE y \in StepPlaces(t, c)
    <3>1. PICK d \in DOMAIN stack[t] : y \in {<<t, d, i>> : i \in Listed(Holds(stack[t][d]), c)}
      BY <2>2 DEF StepPlaces
    <3>3. PICK i \in Listed(Holds(stack[t][d]), c) : y = <<t, d, i>>
      BY <3>1
    <3> DEFINE l == (Depth(t) + 1) - d
    <3>4. l \in 1..Depth(t) /\ (Depth(t) + 1) - l = d /\ Depth(t) + 1 - l = d
      BY <1>1, <3>1
    <3>5. Held(t, l) = Holds(stack[t][d])
      BY <3>4 DEF Held, Level
    <3> HIDE DEF l
    <3>6. i \in 1..Len(Held(t, l)) /\ Held(t, l)[i] = c
      BY <1>3, <3>3, <3>5 DEF Listed
    <3>7. QED
      BY <3>3, <3>4, <3>6
  <2>3. QED
    BY <1>0, <2>1, <2>2
<1>5. ASSUME NEW q \in Queues, NEW i \in 1..Len(root[q]), root[q][i] = c
      PROVE  <<q, i>> \in Homes(c)
  <2>1. i \in Listed(root[q], c)
    BY <1>2, <1>5 DEF Listed
  <2>2. <<q, i>> \in QueuePlaces(c)
    BY <2>1 DEF QueuePlaces
  <2>3. QED
    BY <1>0, <2>2
<1>6. ASSUME NEW l \in 1..Depth(t), NEW i \in 1..Len(Held(t, l)), Held(t, l)[i] = c
      PROVE  <<t, (Depth(t) + 1) - l, i>> \in Homes(c)
  <2> DEFINE d == (Depth(t) + 1) - l
  <2>1. d \in DOMAIN stack[t] /\ Depth(t) + 1 - l = d
    BY <1>1
  <2>2. Held(t, l) = Holds(stack[t][d])
    BY <2>1 DEF Held, Level
  <2> HIDE DEF d
  <2>3. i \in Listed(Holds(stack[t][d]), c)
    BY <1>3, <1>6, <2>2 DEF Listed
  <2>4. <<t, d, i>> \in StepPlaces(t, c)
    BY <2>1, <2>3 DEF StepPlaces
  <2>5. (Depth(t) + 1) - l = d
    BY <1>1 DEF d
  <2>6. QED
    BY <1>0, <2>4, <2>5
<1>7. ASSUME NEW q \in Queues, Has(root[q], c)
      PROVE  \E x : Homes(c) = {x}
  <2>1. PICK i \in 1..Len(root[q]) : root[q][i] = c
    BY <1>7 DEF Has
  <2>2. ASSUME NEW y \in Homes(c)
        PROVE  y = <<q, i>>
    <3>1. ASSUME NEW p \in Queues, NEW j \in 1..Len(root[p]), y = <<p, j>>, root[p][j] = c
          PROVE  y = <<q, i>>
      <4>1. Has(root[p], c)
        BY <3>1 DEF Has
      <4>2. p = q
        BY <1>7, <4>1 DEF PlacesOK, HomesOK
      <4>3. Distinct(root[q])
        BY DEF PlacesOK, HomesOK
      <4>4. j = i
        BY <2>1, <3>1, <4>2, <4>3 DEF Distinct
      <4>5. QED
        BY <3>1, <4>2, <4>4
    <3>2. ASSUME NEW l \in 1..Depth(t), NEW j \in 1..Len(Held(t, l)), Held(t, l)[j] = c
          PROVE  FALSE
      <4>1. Has(Held(t, l), c)
        BY <3>2 DEF Has
      <4>2. QED
        BY <1>7, <4>1 DEF PlacesOK, HomesOK
    <3>3. QED
      BY <1>4, <3>1, <3>2
  <2>3. <<q, i>> \in Homes(c)
    BY <1>5, <2>1
  <2>4. Homes(c) = {<<q, i>>}
    BY <2>2, <2>3
  <2>5. QED
    BY <2>4
<1>8. ASSUME NEW l, Has(Held(t, l), c)
      PROVE  \E x : Homes(c) = {x}
  <2>1. PICK i \in 1..Len(Held(t, l)) : Held(t, l)[i] = c
    BY <1>8 DEF Has
  <2>2. l \in 1..Depth(t)
    BY <1>8, HasNothing DEF Held
  <2> DEFINE x == <<t, (Depth(t) + 1) - l, i>>
  <2>3. ASSUME NEW y \in Homes(c)
        PROVE  y = x
    <3>1. ASSUME NEW p \in Queues, NEW j \in 1..Len(root[p]), root[p][j] = c
          PROVE  FALSE
      <4>1. Has(root[p], c)
        BY <3>1 DEF Has
      <4>2. QED
        BY <1>8, <4>1 DEF PlacesOK, HomesOK
    <3>2. ASSUME NEW m \in 1..Depth(t), NEW j \in 1..Len(Held(t, m)),
                 y = <<t, (Depth(t) + 1) - m, j>>, Held(t, m)[j] = c
          PROVE  y = x
      <4>1. Has(Held(t, m), c)
        BY <3>2 DEF Has
      <4>2. m = l
        BY <1>8, <4>1 DEF PlacesOK, HomesOK
      <4>3. Distinct(Held(t, l))
        BY DEF PlacesOK, HomesOK
      <4>4. j = i
        BY <2>1, <3>2, <4>2, <4>3 DEF Distinct
      <4>5. QED
        BY <3>2, <4>2, <4>4
    <3>3. QED
      BY <1>4, <3>1, <3>2
  <2>4. x \in Homes(c)
    BY <1>6, <2>1, <2>2
  <2>5. Homes(c) = {x}
    BY <2>3, <2>4
  <2>6. QED
    BY <2>5
<1>9. QED
  BY <1>7, <1>8 DEF PlacesOK, HomesOK

\* In a program with one host thread a command that has not ended is in one
\* place, whatever the client does: no command is lost and none is executed
\* twice, although clFinish takes commands from queues it has not locked, runs
\* other flushes inside the execution of its own list, and calls callbacks that
\* enqueue.
THEOREM CommandsHaveOneHome ==
  ASSUME NEW t, Threads = {t}
  PROVE  Spec => []HeldOnce
<1>1. Init => PlacesOK(t)
  BY PlacesInit
<1>2. TypeOK /\ TypeOK' /\ PlacesOK(t) /\ [Next]_vars => PlacesOK(t)'
  BY PlacesStep
<1>3. TypeOK /\ PlacesOK(t) => HeldOnce
  BY OneHome, FS_Singleton DEF HeldOnce
<1>4. QED
  BY <1>1, <1>2, <1>3, QueueTypes, PTL DEF Spec

-----------------------------------------------------------------------------
(* How the steps of a stack lie on each other, and what a flush still reaches. *)

Flushes == {"lock", "scan", "submit", "run", "complete", "release"}
Enqueues == {"append", "stamp"}

\* Step g may be on top of step f: a flush that has not begun is only below the
\* enqueue call that will block on it.
MayCover(f, g) ==
  /\ f.step = "lock" => g.step = "stamp"
  /\ f.step = "stamp" => g = EnqueueStep("append", f.q, f.c)

\* A command whose status is about to be written is linked.
NestOK(t) ==
  \A l \in 1..Depth(t) :
    /\ l < Depth(t) => MayCover(Level(t, l), Level(t, l + 1))
    /\ l = Depth(t) /\ Level(t, l).step = "stamp" => Has(root[Level(t, l).q], Level(t, l).c)

\* The commands a flush, at step f, will have finished when it returns.
Reaches(t, f, c) ==
  \/ f.step \in {"lock", "scan", "submit"} /\ Has(root[f.q], c)
  \/ f.step = "lock" /\ \E l \in 1..Depth(t) : Level(t, l) = EnqueueStep("append", f.q, c)
  \/ f.step \in {"scan", "submit"} /\ Has(f.ready, c)
  \/ f.step \in {"run", "complete", "release"} /\ Has(f.todo, c)

Covered(t, k, c) == c \in finished \/ (k \in 1..Depth(t) /\ Reaches(t, Level(t, k), c))

\* Below the top there is no flush that has not begun, unless a thread enqueues.
LEMMA NoLockBelow ==
  ASSUME TypeOK, NEW t \in Threads, StackOK(t), NestOK(t), stack[t] # <<>>,
         Top(t).step \notin Enqueues,
         NEW l \in 1..Depth(t), l < Depth(t)
  PROVE  Level(t, l).step \notin {"lock", "stamp"} \cup OnTop
<1>1. /\ Depth(t) \in Nat /\ Depth(t) > 0 /\ Level(t, Depth(t)) = Top(t)
  BY Levels
<1>2. \A m \in 1..Depth(t) : m < Depth(t) => m + 1 \in 1..Depth(t)
  BY <1>1
<1>3. ASSUME NEW m \in 1..Depth(t), m < Depth(t)
      PROVE  Level(t, m).step # "stamp"
  <2>1. Level(t, m).step = "stamp" => Level(t, m + 1).step = "append"
    <3>1. MayCover(Level(t, m), Level(t, m + 1))
      BY <1>2, <1>3 DEF NestOK
    <3>2. \A q, c : EnqueueStep("append", q, c).step = "append"
      BY DEF EnqueueStep
    <3>3. QED
      BY <3>1, <3>2 DEF MayCover
  <2>2. m + 1 < Depth(t) => Level(t, m + 1).step # "append"
    BY <1>2, <1>3 DEF StackOK, OnTop
  <2>3. m + 1 = Depth(t) => Level(t, m + 1) = Top(t)
    BY <1>1
  <2>4. m + 1 < Depth(t) \/ m + 1 = Depth(t)
    BY <1>1, <1>3
  <2>5. QED
    BY <2>1, <2>2, <2>3, <2>4 DEF Enqueues
<1>4. Level(t, l).step = "lock" => Level(t, l + 1).step = "stamp"
  BY <1>2 DEF NestOK, MayCover
<1>5. l + 1 < Depth(t) => Level(t, l + 1).step # "stamp"
  BY <1>2, <1>3
<1>6. l + 1 = Depth(t) => Level(t, l + 1) = Top(t)
  BY <1>1
<1>7. l + 1 < Depth(t) \/ l + 1 = Depth(t)
  BY <1>1
<1>8. Level(t, l).step # "lock"
  BY <1>4, <1>5, <1>6, <1>7 DEF Enqueues
<1>9. Level(t, l).step # "stamp"
  BY <1>3
<1>10. QED
  BY <1>8, <1>9 DEF StackOK

\* The top step leaves and is no part of an enqueue call.
LEMMA NestLeaves ==
  ASSUME TypeOK, NEW t \in Threads, StackOK(t), NestOK(t),
         stack[t] # <<>>, Top(t).step \notin Enqueues, Replace(t, <<>>)
  PROVE  NestOK(t)'
<1>1. /\ Depth(t) \in Nat /\ Depth(t) > 0 /\ Depth(t)' = Depth(t) - 1
      /\ \A l \in 1..Depth(t)' : Level(t, l)' = Level(t, l)
  BY TopLeaves
<1>2. ASSUME NEW l \in 1..Depth(t)'
      PROVE  Level(t, l)'.step \notin {"lock", "stamp"}
  <2>1. l \in 1..Depth(t) /\ l < Depth(t)
    BY <1>1
  <2>2. QED
    BY <1>1, <2>1, NoLockBelow
<1>3. QED
  BY <1>2 DEF NestOK, MayCover

\* The top step becomes f, under steps of which only the first may be a flush.
Freeing(s) ==
  \A i \in 1..Len(s) : \/ s[i].step \in {"callback", "unref", "recycle"}
                       \/ i = 1 /\ s[i].step = "lock" /\ s[i].due = {}

LEMMA NestCovered ==
  ASSUME TypeOK, NEW t \in Threads, StackOK(t), NestOK(t),
         stack[t] # <<>>, Top(t).step \notin Enqueues,
         NEW s \in Seq(Steps), NEW f \in Steps, Replace(t, s \o <<f>>),
         Freeing(s), f.step \notin {"lock", "stamp"}
  PROVE  NestOK(t)'
<1>1. /\ Depth(t) \in Nat /\ Depth(t) > 0 /\ Len(s) \in Nat
      /\ Depth(t)' = Depth(t) + Len(s)
      /\ \A l \in 1..Depth(t)' :
           Level(t, l)' = IF l < Depth(t) THEN Level(t, l)
                          ELSE IF l = Depth(t) THEN f ELSE s[Depth(t)' + 1 - l]
  BY TopCovered
<1>2. ASSUME NEW l \in 1..Depth(t)'
      PROVE  /\ Level(t, l)'.step # "stamp"
             /\ l < Depth(t)' => Level(t, l)'.step # "lock"
  <2>1. CASE l < Depth(t)
    <3>1. l \in 1..Depth(t)
      BY <1>1, <2>1
    <3>2. QED
      BY <1>1, <2>1, <3>1, NoLockBelow
  <2>2. CASE l = Depth(t)
    BY <1>1, <2>2
  <2>3. CASE l > Depth(t)
    <3>1. Depth(t)' + 1 - l \in 1..Len(s) /\ Level(t, l)' = s[Depth(t)' + 1 - l]
          /\ (l < Depth(t)' => Depth(t)' + 1 - l # 1)
      BY <1>1, <2>3
    <3>2. PICK i \in 1..Len(s) : Level(t, l)' = s[i] /\ (l < Depth(t)' => i # 1)
      BY <3>1
    <3>3. QED
      BY <3>2 DEF Freeing
  <2>4. QED
    BY <1>1, <2>1, <2>2, <2>3
<1>3. QED
  BY <1>2 DEF NestOK, MayCover

\* Steps are put on a stack.
LEMMA NestAdded ==
  ASSUME TypeOK, NEW t \in Threads, StackOK(t), NestOK(t),
         stack[t] = <<>> \/ Top(t).step = "callback",
         NEW S, Steps \subseteq S, NEW new \in Seq(S), Push(t, new),
         \A i \in 1..Len(new) : \/ new[i].step \notin {"lock", "stamp"}
                                \/ i = 1 /\ new[i].step = "lock"
                                \/ i > 1 /\ MayCover(new[i], new[i - 1])
  PROVE  NestOK(t)'
<1>1. /\ Depth(t) \in Nat /\ Len(new) \in Nat /\ Depth(t)' = Depth(t) + Len(new)
      /\ \A l \in 1..Depth(t)' :
           Level(t, l)' = IF l <= Depth(t) THEN Level(t, l) ELSE new[Depth(t)' + 1 - l]
  BY StepsAdded
<1>2. ASSUME NEW l \in 1..Depth(t)'
      PROVE  /\ l < Depth(t)' => MayCover(Level(t, l)', Level(t, l + 1)')
             /\ l = Depth(t)' => Level(t, l)'.step # "stamp"
  <2>1. CASE l <= Depth(t)
    <3>1. l \in 1..Depth(t) /\ Level(t, l)' = Level(t, l)
      BY <1>1, <2>1
    <3>2. stack[t] # <<>> /\ Top(t).step = "callback" /\ Level(t, Depth(t)) = Top(t)
      BY <1>1, <3>1, Levels
    <3>3. l < Depth(t) => Level(t, l).step \notin {"lock", "stamp"}
      BY <3>1, <3>2, NoLockBelow DEF Enqueues
    <3>4. l = Depth(t) => Level(t, l).step = "callback"
      BY <3>2
    <3>5. l < Depth(t) \/ l = Depth(t)
      BY <1>1, <3>1, <2>1
    <3>6. QED
      BY <3>1, <3>3, <3>4, <3>5 DEF MayCover
  <2>2. CASE l > Depth(t)
    <3>1. /\ Depth(t)' + 1 - l \in 1..Len(new) /\ Level(t, l)' = new[Depth(t)' + 1 - l]
      BY <1>1, <2>2
    <3>2. PICK i \in 1..Len(new) : i = Depth(t)' + 1 - l /\ Level(t, l)' = new[i]
      BY <3>1
    <3>3. l \in Int /\ Depth(t)' \in Int
      BY <1>1
    <3>4. ASSUME l < Depth(t)'
          PROVE  MayCover(Level(t, l)', Level(t, l + 1)')
      <4>1. PICK k : k = l + 1
        OBVIOUS
      <4>2. i > 1 /\ Depth(t)' + 1 - k = i - 1 /\ ~(k <= Depth(t)) /\ k \in 1..Depth(t)'
        BY <1>1, <2>2, <3>2, <3>3, <3>4, <4>1
      <4>3. Level(t, k)' = new[i - 1]
        BY <1>1, <4>2
      <4>4. MayCover(new[i], new[i - 1])
        BY <4>2 DEF MayCover
      <4>5. QED
        BY <3>2, <4>1, <4>3, <4>4
    <3>5. ASSUME l = Depth(t)'
          PROVE  Level(t, l)'.step # "stamp"
      <4>1. ~(i > 1)
        BY <1>1, <3>2, <3>3, <3>5
      <4>2. QED
        BY <3>2, <4>1
    <3>6. QED
      BY <3>4, <3>5
  <2>3. QED
    BY <1>1, <2>1, <2>2
<1>3. QED
  <2>1. \A l \in 1..Depth(t)' : l < Depth(t)' => MayCover(Level(t, l)', Level(t, l + 1)')
    BY <1>2
  <2>2. \A l \in 1..Depth(t)' : l = Depth(t)' => Level(t, l)'.step # "stamp"
    BY <1>2
  <2>3. QED
    BY <2>1, <2>2 DEF NestOK, MayCover

\* A flush goes on: the top step becomes another step of the same flush, steps
\* that free something may come above it, and what it reached it still reaches.
GoesOn(t) ==
  \E f \in Steps, s \in Seq(Steps) :
    /\ Replace(t, s \o <<f>>) /\ Freeing(s)
    /\ f.step \in Flushes \ {"lock"} /\ f.due = Top(t).due
    /\ \A c : Reaches(t, Top(t), c) => c \in finished \/ Reaches(t, f, c)'

\* The same without steps above it.
LEMMA GoesOnAlone ==
  ASSUME NEW t, NEW f \in Steps, Replace(t, <<f>>),
         f.step \in Flushes \ {"lock"}, f.due = Top(t).due,
         \A c : Reaches(t, Top(t), c) => c \in finished \/ Reaches(t, f, c)'
  PROVE  GoesOn(t)
<1> DEFINE none == <<>>
<1>1. none \in Seq(Steps) /\ Len(none) = 0 /\ <<f>> = none \o <<f>>
  OBVIOUS
<1> HIDE DEF none
<1>2. Replace(t, none \o <<f>>) /\ Freeing(none)
  BY <1>1 DEF Freeing
<1>3. QED
  BY <1>1, <1>2 DEF GoesOn

\* An append step is on top.
LEMMA AppendOnTop ==
  ASSUME TypeOK, NEW t \in Threads, StackOK(t), stack[t] # <<>>,
         NEW l \in 1..Depth(t), Level(t, l).step = "append"
  PROVE  l = Depth(t) /\ Level(t, l) = Top(t)
<1>1. Depth(t) \in Nat /\ Level(t, Depth(t)) = Top(t)
  BY Levels
<1>2. ~(l < Depth(t))
  BY DEF StackOK, OnTop
<1>3. QED
  BY <1>1, <1>2

LEMMA LockGoesOn ==
  ASSUME TypeOK, NEW t \in Threads, PlacesOK(t), LockQueue(t)
  PROVE  GoesOn(t)
<1>1. stack[t] # <<>> /\ Top(t) \in LockSteps /\ UNCHANGED root
  BY LockView DEF LockQueue
<1>2. PICK f \in ScanSteps : Replace(t, <<f>>) /\ f.q = Top(t).q /\ f.due = Top(t).due
  BY LockView
<1>3. Top(t).step = "lock" /\ f.step = "scan" /\ f \in Steps
  BY <1>1, <1>2 DEF LockSteps, ScanSteps, Steps
<1>4. ASSUME NEW c, NEW l \in 1..Depth(t), Level(t, l) = EnqueueStep("append", Top(t).q, c)
      PROVE  FALSE
  <2>1. Level(t, l).step = "append"
    BY <1>4 DEF EnqueueStep
  <2>2. Level(t, l) = Top(t)
    BY <1>1, <2>1, AppendOnTop DEF PlacesOK
  <2>3. QED
    BY <1>3, <2>1, <2>2
<1>5. \A c : Reaches(t, Top(t), c) => Has(root[Top(t).q], c)
  BY <1>3, <1>4 DEF Reaches
<1>6. \A c : Reaches(t, Top(t), c) => Reaches(t, f, c)'
  BY <1>1, <1>2, <1>3, <1>5 DEF Reaches
<1>7. QED
  BY <1>2, <1>3, <1>6, GoesOnAlone DEF Flushes

LEMMA ScanGoesOn ==
  ASSUME TypeOK, NEW t \in Threads, Scan(t)
  PROVE  GoesOn(t)
<1>1. /\ stack[t] # <<>> /\ Top(t) \in ScanSteps /\ Top(t).step = "scan" /\ UNCHANGED root
  BY ScanView DEF Scan, ScanSteps
<1>2. PICK f \in Steps : Replace(t, <<f>>) /\ (Turns(t, f) \/ Takes(t, f))
  BY ScanView
<1>3. /\ f.step \in {"scan", "submit"} /\ f.q = Top(t).q /\ f.due = Top(t).due
      /\ \A c : Has(Top(t).ready, c) => Has(f.ready, c)
  <2>1. CASE Turns(t, f)
    BY <2>1 DEF Turns, ScanSteps
  <2>2. CASE Takes(t, f)
    <3>1. f.ready \in Seq(Commands) /\ f.ready # <<>> /\ Front(f.ready) = Top(t).ready
      BY <2>2 DEF Takes, SubmitSteps
    <3>2. \A c : Has(f.ready, c) <=> Has(Front(f.ready), c) \/ c = Last(f.ready)
      BY <3>1, HasFront
    <3>3. QED
      BY <2>2, <3>1, <3>2 DEF Takes, SubmitSteps
  <2>3. QED
    BY <1>2, <2>1, <2>2
<1>4. \A c : Reaches(t, Top(t), c) => Reaches(t, f, c)'
  BY <1>1, <1>3 DEF Reaches
<1>5. QED
  BY <1>2, <1>3, <1>4, GoesOnAlone DEF Flushes

LEMMA SubmitGoesOn ==
  ASSUME TypeOK, NEW t \in Threads, PlacesOK(t), Submit(t)
  PROVE  UNCHANGED <<root, stack>> \/ GoesOn(t)
<1>1. /\ stack[t] # <<>> /\ Top(t) \in SubmitSteps /\ Top(t).step = "submit"
      /\ root[Top(t).hand] # <<>> /\ Last(Top(t).ready) = Head(root[Top(t).hand])
  BY SubmitView DEF PlacesOK, SubmitSteps
<1>2. ASSUME root' = [root EXCEPT ![Top(t).hand] = Tail(@)],
             NEW f \in ScanSteps, Replace(t, <<f>>), Turns(t, f)
      PROVE  GoesOn(t)
  <2> DEFINE h == Top(t).hand
             r == Top(t).ready
  <2>1. h \in Queues /\ r \in Seq(Commands) /\ r # <<>> /\ Top(t).q \in Queues
    BY <1>1 DEF SubmitSteps
  <2>2. Has(r, Head(root[h]))
    <3>1. Has(r, Last(r))
      BY <2>1, HasFront
    <3>2. QED
      BY <1>1, <3>1
  <2>3. \A c : Has(root[h], c) <=> Has(Tail(root[h]), c) \/ c = Head(root[h])
    BY <1>1, <2>1, HasTail DEF TypeOK
  <2>4. \A c : Has(root[Top(t).q], c) => Has(root'[Top(t).q], c) \/ Has(r, c)
    BY <1>2, <2>1, <2>2, <2>3 DEF TypeOK
  <2>5. f.step = "scan" /\ f.q = Top(t).q /\ f.ready = r /\ f.due = Top(t).due /\ f \in Steps
    BY <1>2 DEF Turns, ScanSteps, Steps
  <2>6. \A c : Reaches(t, Top(t), c) => Reaches(t, f, c)'
    BY <1>1, <2>4, <2>5 DEF Reaches
  <2>7. QED
    BY <1>2, <2>5, <2>6, GoesOnAlone DEF Flushes
<1>3. QED
  <2>1. \/ UNCHANGED <<root, stack>>
        \/ /\ root' = [root EXCEPT ![Top(t).hand] = Tail(@)]
           /\ \E f \in ScanSteps : Replace(t, <<f>>) /\ Turns(t, f)
    BY SubmitView DEF PlacesOK
  <2>2. QED
    BY <1>2, <2>1

LEMMA RunGoesOn ==
  ASSUME TypeOK, NEW t \in Threads, UnlockQueue(t) \/ StartCommand(t)
  PROVE  GoesOn(t)
<1>1. CASE UnlockQueue(t)
  <2>1. /\ stack[t] # <<>> /\ Top(t) \in ScanSteps /\ Top(t).step = "scan"
        /\ root[Top(t).q] = <<>>
    BY <1>1, UnlockView DEF ScanSteps, UnlockQueue
  <2>2. PICK f \in RunSteps : Replace(t, <<f>>) /\ f.todo = Top(t).ready /\ f.due = Top(t).due
    BY <1>1, UnlockView
  <2>3. f.step = "run" /\ f \in Steps
    BY <2>2 DEF RunSteps, Steps
  <2>4. \A c : Reaches(t, Top(t), c) => Reaches(t, f, c)'
    BY <2>1, <2>2, <2>3, HasNothing DEF Reaches
  <2>5. QED
    BY <2>2, <2>3, <2>4, GoesOnAlone DEF Flushes
<1>2. CASE StartCommand(t)
  <2>1. stack[t] # <<>> /\ Top(t) \in RunSteps /\ Top(t).step = "run"
    BY <1>2, StartView DEF RunSteps
  <2>2. PICK f \in BusySteps : /\ Replace(t, <<f>>) /\ f.step = "complete"
                               /\ f.todo = Top(t).todo /\ f.due = Top(t).due
    BY <1>2, StartView
  <2>3. f \in Steps
    BY DEF Steps
  <2>4. \A c : Reaches(t, Top(t), c) => Reaches(t, f, c)'
    BY <2>1, <2>2 DEF Reaches
  <2>5. QED
    BY <2>2, <2>3, <2>4, GoesOnAlone DEF Flushes
<1>3. QED
  BY <1>1, <1>2

LEMMA CompleteGoesOn ==
  ASSUME TypeOK, NEW t \in Threads, CompleteCommand(t)
  PROVE  GoesOn(t)
<1>1. stack[t] # <<>> /\ Top(t) \in BusySteps /\ Top(t).step = "complete"
  BY CompleteView
<1>2. PICK f \in BusySteps, s \in Seq(Steps) :
        /\ Replace(t, s \o <<f>>) /\ f.step = "release" /\ f.todo = Top(t).todo
        /\ f.due = Top(t).due /\ \A i \in 1..Len(s) : s[i] = CallbackStep
  BY CompleteView
<1>3. Freeing(s) /\ f \in Steps
  BY <1>2 DEF Freeing, CallbackStep, Steps
<1>4. \A c : Reaches(t, Top(t), c) => Reaches(t, f, c)'
  BY <1>1, <1>2 DEF Reaches
<1>5. QED
  BY <1>2, <1>3, <1>4 DEF GoesOn, Flushes

LEMMA ReleaseGoesOn ==
  ASSUME TypeOK, NEW t \in Threads, PlacesOK(t), ReleaseImplicitEvent(t)
  PROVE  GoesOn(t)
<1> DEFINE e == command[Head(Top(t).todo)].event
<1>1. /\ stack[t] # <<>> /\ Top(t) \in BusySteps /\ Top(t).step = "release"
      /\ e \in Events
  BY ReleaseView
<1>2. PICK f \in RunSteps, s \in Seq(Steps) :
        /\ Replace(t, s \o <<f>>) /\ f.step = "run" /\ f.todo = Tail(Top(t).todo)
        /\ f.due = Top(t).due /\ (s = <<>> \/ s = FreeEventSteps(e))
  BY ReleaseView
<1> HIDE DEF e
<1>3. Freeing(s)
  <2>1. CASE s = <<>>
    BY <2>1 DEF Freeing
  <2>2. CASE s = FreeEventSteps(e)
    <3>1. s = <<LockStep(event[e].queue, {}), UnrefStep(event[e].queue), RecycleStep(e)>>
      BY <1>1, <2>2, FreeSteps
    <3>2. \A i \in 1..Len(s) : i = 1 \/ i = 2 \/ i = 3
      BY <3>1
    <3>3. s[1].step = "lock" /\ s[1].due = {} /\ s[2].step = "unref" /\ s[3].step = "recycle"
      BY <3>1 DEF LockStep, UnrefStep, RecycleStep
    <3>4. QED
      BY <3>2, <3>3 DEF Freeing
  <2>3. QED
    BY <1>2, <2>1, <2>2
<1>4. \A c : Reaches(t, Top(t), c) => c \in finished \/ Has(Tail(Top(t).todo), c)
  <2>1. \A c : Reaches(t, Top(t), c) => Has(Top(t).todo, c)
    BY <1>1 DEF Reaches
  <2>2. Head(Top(t).todo) \in finished
    BY <1>1, TopOK DEF StepOK, PlacesOK
  <2>3. \A c : Has(Top(t).todo, c) => Has(Tail(Top(t).todo), c) \/ c = Head(Top(t).todo)
    BY <1>1, HasTail DEF BusySteps
  <2>4. QED
    BY <2>1, <2>2, <2>3
<1>5. f \in Steps /\ \A c : Reaches(t, Top(t), c) => c \in finished \/ Reaches(t, f, c)'
  BY <1>2, <1>4 DEF Reaches, Steps
<1>6. QED
  BY <1>2, <1>3, <1>5 DEF GoesOn, Flushes

\* What a step of the runtime does to the stack, other than an enqueue call.
LEMMA LoopShape ==
  ASSUME TypeOK, NEW t \in Threads, PlacesOK(t), RuntimeStep(t)
  PROVE  /\ stack[t] # <<>>
         /\ \/ AppendCommand(t) \/ StampQueued(t)
            \/ Top(t).step \notin Enqueues /\ UNCHANGED <<root, stack>>
            \/ Top(t).step \in Flushes /\ GoesOn(t)
            \/ /\ Replace(t, <<>>)
               /\ \/ Top(t).step \in {"callback", "unref", "recycle"}
                  \/ Top(t).step = "run" /\ Top(t).todo = <<>>
<1>1. stack[t] # <<>>
  BY DEF RuntimeStep, AppendCommand, StampQueued, CallbackReturns, LockQueue, Scan, Submit,
     UnlockQueue, StartCommand, CompleteCommand, ReleaseImplicitEvent, Return, UnrefQueue,
     RecycleEvent, At
<1>2. CASE CallbackReturns(t) \/ Return(t) \/ UnrefQueue(t) \/ RecycleEvent(t)
  BY <1>1, <1>2 DEF CallbackReturns, Return, UnrefQueue, RecycleEvent, At, Top
<1>3. CASE Submit(t)
  <2>1. Top(t).step = "submit"
    BY <1>3 DEF Submit, At, Top
  <2>2. QED
    BY <1>1, <1>3, <2>1, SubmitGoesOn DEF Flushes, Enqueues
<1>4. CASE LockQueue(t) \/ Scan(t) \/ UnlockQueue(t) \/ StartCommand(t) \/ CompleteCommand(t)
           \/ ReleaseImplicitEvent(t)
  <2>1. Top(t).step \in Flushes
    BY <1>4 DEF LockQueue, Scan, UnlockQueue, StartCommand, CompleteCommand,
       ReleaseImplicitEvent, At, Top, Flushes
  <2>2. GoesOn(t)
    BY <1>4, LockGoesOn, ScanGoesOn, RunGoesOn, CompleteGoesOn, ReleaseGoesOn
  <2>3. QED
    BY <1>1, <2>1, <2>2
<1>5. QED
  BY <1>1, <1>2, <1>3, <1>4 DEF RuntimeStep

\* An enqueue call links its command, then its status is written.
LEMMA EnqueueEnds ==
  ASSUME TypeOK, NEW t \in Threads, AppendCommand(t) \/ StampQueued(t)
  PROVE  /\ stack[t] # <<>> /\ Replace(t, <<>>) /\ UNCHANGED <<command, finished>>
         /\ Top(t) \in EnqueueSteps /\ Top(t).q \in Queues /\ Top(t).c \in Commands
         /\ \A q \in Queues : \A c : Has(root[q], c) => Has(root'[q], c)
         /\ \/ Top(t).step = "append" /\ Has(root'[Top(t).q], Top(t).c)
            \/ Top(t).step = "stamp" /\ UNCHANGED root
<1>1. /\ stack[t] # <<>> /\ Replace(t, <<>>) /\ UNCHANGED <<command, finished>>
      /\ Top(t) \in EnqueueSteps /\ Top(t).q \in Queues /\ Top(t).c \in Commands
  BY AtTyped, StepKinds DEF AppendCommand, StampQueued, EnqueueSteps
<1>2. CASE AppendCommand(t)
  <2>1. root' = [root EXCEPT ![Top(t).q] = Append(@, Top(t).c)] /\ Top(t).step = "append"
    BY <1>2 DEF AppendCommand, At, Top
  <2>2. \A c : Has(Append(root[Top(t).q], Top(t).c), c) <=> Has(root[Top(t).q], c) \/ c = Top(t).c
    BY <1>1, HasAppended DEF TypeOK
  <2>3. root'[Top(t).q] = Append(root[Top(t).q], Top(t).c)
        /\ \A q \in Queues : q # Top(t).q => root'[q] = root[q]
    BY <1>1, <2>1 DEF TypeOK
  <2>4. QED
    BY <1>1, <2>1, <2>2, <2>3
<1>3. CASE StampQueued(t)
  <2>1. root' = root /\ Top(t).step = "stamp"
    BY <1>3 DEF StampQueued, At, Top
  <2>2. QED
    BY <1>1, <2>1
<1>4. QED
  BY <1>2, <1>3

LEMMA EnqueueEndsKeepsNest ==
  ASSUME TypeOK, NEW t \in Threads, PlacesOK(t), NestOK(t), AppendCommand(t) \/ StampQueued(t)
  PROVE  NestOK(t)'
<1>1. /\ stack[t] # <<>> /\ Replace(t, <<>>)
      /\ \/ Top(t).step = "append" /\ Has(root'[Top(t).q], Top(t).c)
         \/ Top(t).step = "stamp"
  BY EnqueueEnds
<1>2. /\ Depth(t) \in Nat /\ Depth(t) > 0 /\ Depth(t)' = Depth(t) - 1
      /\ \A l \in 1..Depth(t)' : Level(t, l)' = Level(t, l)
      /\ Level(t, Depth(t)) = Top(t)
  BY <1>1, TopLeaves, Levels
<1>3. ASSUME NEW l \in 1..Depth(t)', l < Depth(t)'
      PROVE  MayCover(Level(t, l)', Level(t, l + 1)')
  <2>1. l \in 1..Depth(t) /\ l < Depth(t)
    BY <1>2
  <2>2. MayCover(Level(t, l), Level(t, l + 1))
    BY <2>1 DEF NestOK
  <2>3. PICK k : k = l + 1
    OBVIOUS
  <2>4. k \in 1..Depth(t)'
    BY <1>2, <1>3, <2>3
  <2>5. Level(t, l)' = Level(t, l) /\ Level(t, k)' = Level(t, k)
    BY <1>2, <2>4
  <2>6. QED
    BY <2>2, <2>3, <2>5 DEF MayCover
<1>4. ASSUME NEW l \in 1..Depth(t)', l = Depth(t)', Level(t, l)'.step = "stamp"
      PROVE  Has(root'[Level(t, l)'.q], Level(t, l)'.c)
  <2>1. l \in 1..Depth(t) /\ l < Depth(t) /\ l + 1 = Depth(t)
    BY <1>2, <1>4
  <2>2. MayCover(Level(t, l), Top(t))
    BY <1>2, <2>1 DEF NestOK
  <2>3. PICK f : f = Level(t, l)
    OBVIOUS
  <2>4. Level(t, l)' = f
    BY <1>2, <2>3
  <2>5. Top(t) = EnqueueStep("append", f.q, f.c)
    BY <1>4, <2>2, <2>3, <2>4 DEF MayCover
  <2>6. Top(t).step = "append" /\ Top(t).q = f.q /\ Top(t).c = f.c
    BY <2>5 DEF EnqueueStep
  <2>7. QED
    BY <1>1, <2>4, <2>6
<1>5. QED
  BY <1>3, <1>4 DEF NestOK, Has, MayCover

\* Nothing changes in the stack and the queues.
LEMMA NestStays ==
  ASSUME NEW t, NestOK(t), UNCHANGED <<root, stack>>
  PROVE  NestOK(t)'
BY DEF NestOK, Has, Level, Depth, MayCover

LEMMA RuntimeKeepsNest ==
  ASSUME TypeOK, NEW t \in Threads, PlacesOK(t), NestOK(t), RuntimeStep(t)
  PROVE  NestOK(t)'
<1>1. stack[t] # <<>> /\ StackOK(t)
  BY LoopShape DEF PlacesOK
<1>2. CASE AppendCommand(t) \/ StampQueued(t)
  BY <1>2, EnqueueEndsKeepsNest
<1>3. CASE UNCHANGED <<root, stack>>
  BY <1>3, NestStays
<1>4. CASE Top(t).step \in Flushes /\ GoesOn(t)
  <2>1. PICK f \in Steps, s \in Seq(Steps) :
          Replace(t, s \o <<f>>) /\ Freeing(s) /\ f.step \in Flushes \ {"lock"}
    BY <1>4 DEF GoesOn
  <2>2. Top(t).step \notin Enqueues /\ f.step \notin {"lock", "stamp"}
    BY <1>4, <2>1 DEF Flushes, Enqueues
  <2>3. QED
    BY <1>1, <2>1, <2>2, NestCovered
<1>5. CASE Replace(t, <<>>) /\ Top(t).step \in {"callback", "unref", "recycle", "run"}
  BY <1>1, <1>5, NestLeaves DEF Enqueues
<1>6. QED
  BY <1>2, <1>3, <1>4, <1>5, LoopShape

LEMMA CallKeepsNest ==
  ASSUME TypeOK, NEW t \in Threads, PlacesOK(t), NestOK(t), OtherCall(t)
  PROVE  NestOK(t)'
<1>1. stack[t] = <<>> /\ UNCHANGED root /\ ClientPushes(t)
  BY CallView
<1>2. ASSUME NEW f \in LockSteps, NEW g \in UnrefSteps, NEW r \in RecycleSteps, NEW s,
             s = <<f>> \/ s = <<f, g>> \/ s = <<f, g, r>>, Push(t, s)
      PROVE  NestOK(t)'
  <2>1. /\ f \in Steps /\ g \in Steps /\ r \in Steps
        /\ f.step = "lock" /\ g.step = "unref" /\ r.step = "recycle"
    BY DEF Steps, LockSteps, UnrefSteps, RecycleSteps
  <2>2. /\ s \in Seq(Steps)
        /\ \A i \in 1..Len(s) : s[i].step \notin {"lock", "stamp"} \/ (i = 1 /\ s[i].step = "lock")
    <3>1. CASE s = <<f>>
      BY <2>1, <3>1
    <3>2. CASE s = <<f, g>>
      BY <2>1, <3>2
    <3>3. CASE s = <<f, g, r>>
      BY <2>1, <3>3
    <3>4. QED
      BY <1>2, <3>1, <3>2, <3>3
  <2>3. QED
    BY <1>1, <1>2, <2>2, NestAdded DEF PlacesOK
<1>3. ASSUME NEW f \in LockSteps
      PROVE  UnrefStep(f.q) \in UnrefSteps
  BY DEF LockSteps, UnrefStep, UnrefSteps
<1>4. ASSUME NEW f \in LockSteps, NEW g \in UnrefSteps, Push(t, <<f>>) \/ Push(t, <<f, g>>)
      PROVE  NestOK(t)'
  <2>1. PICK s : Push(t, s) /\ (s = <<f>> \/ s = <<f, g>>)
    BY <1>4
  <2>2. /\ f \in Steps /\ g \in Steps /\ f.step = "lock" /\ g.step = "unref"
    BY DEF Steps, LockSteps, UnrefSteps
  <2>3. /\ s \in Seq(Steps)
        /\ \A i \in 1..Len(s) : s[i].step \notin {"lock", "stamp"} \/ (i = 1 /\ s[i].step = "lock")
    <3>1. CASE s = <<f>>
      BY <2>2, <3>1
    <3>2. CASE s = <<f, g>>
      BY <2>2, <3>2
    <3>3. QED
      BY <2>1, <3>1, <3>2
  <2>4. QED
    BY <1>1, <2>1, <2>3, NestAdded DEF PlacesOK
<1>5. CASE UNCHANGED stack
  BY <1>1, <1>5, NestStays
<1>6. QED
  BY <1>1, <1>2, <1>3, <1>4, <1>5 DEF ClientPushes

\* The steps of an enqueue call, first to last.
EnqueueAdds(t, q, c) ==
  \E s \in Seq(Steps') :
    /\ Push(t, s) /\ Len(s) \in {2, 3}
    /\ s[1] = EnqueueStep("append", q, c) /\ s[2] = EnqueueStep("stamp", q, c)
    /\ Len(s) = 3 => s[3] = LockStep(q, Linked(q) \cup {c}) /\ stack[t] = <<>>

LEMMA EnqueueShape ==
  ASSUME TypeOK, NEW t \in Threads, NEW q \in Queues,
         NEW explicit \in BOOLEAN, NEW blocking \in BOOLEAN,
         NEW waits \in WaitLists(t, q), Enqueue(t, q, waits, explicit, blocking)
  PROVE  /\ stack[t] = <<>> \/ Top(t).step = "callback"
         /\ UNCHANGED <<root, finished>> /\ Steps \subseteq Steps'
         /\ EnqueueAdds(t, q, Len(command) + 1)
<1> DEFINE c == Len(command) + 1
<1>1. /\ stack[t] = <<>> \/ (Top(t).step = "callback" /\ ~blocking)
      /\ Commands' = Commands \cup {c}
      /\ EnqueuePushes(t, q, c, blocking)
  BY EnqueueView
<1>2. UNCHANGED <<root, finished>>
  BY DEF Enqueue
<1>3. Steps \subseteq Steps'
  <2>1. Len(command) + 1 \in Commands' /\ Commands \subseteq Commands'
    BY <1>1
  <2>2. CreateEvent(q, Len(command) + 1, explicit)
    BY Zenon DEF Enqueue
  <2>3. Events \subseteq Events'
    BY <2>1, <2>2, EventCreated
  <2>4. QED
    BY <2>1, <2>3, TypesGrow
<1> HIDE DEF c
<1>4. PICK a, b \in EnqueueSteps' :
        /\ a = EnqueueStep("append", q, c) /\ b = EnqueueStep("stamp", q, c)
        /\ \/ ~blocking /\ Push(t, <<a, b>>)
           \/ \E f \in LockSteps' : /\ blocking /\ f = LockStep(q, Linked(q) \cup {c})
                                    /\ Push(t, <<a, b, f>>)
  BY <1>1 DEF EnqueuePushes
<1>5. a \in Steps' /\ b \in Steps' /\ \A f \in LockSteps' : f \in Steps'
  BY DEF Steps
<1>6. CASE Push(t, <<a, b>>)
  <2>1. <<a, b>> \in Seq(Steps') /\ Len(<<a, b>>) = 2 /\ <<a, b>>[1] = a /\ <<a, b>>[2] = b
    BY <1>5
  <2>2. PICK s : s = <<a, b>>
    OBVIOUS
  <2>3. s \in Seq(Steps') /\ Len(s) = 2 /\ s[1] = a /\ s[2] = b /\ Push(t, s)
    BY <1>6, <2>1, <2>2
  <2>4. QED
    <3>1. EnqueueAdds(t, q, c)
      BY <1>4, <2>3 DEF EnqueueAdds
    <3>2. QED
      BY <1>1, <1>2, <1>3, <3>1 DEF c
<1>7. ASSUME NEW f \in LockSteps', blocking, f = LockStep(q, Linked(q) \cup {c}),
             Push(t, <<a, b, f>>)
      PROVE  EnqueueAdds(t, q, c)
  <2>1. /\ <<a, b, f>> \in Seq(Steps') /\ Len(<<a, b, f>>) = 3
        /\ <<a, b, f>>[1] = a /\ <<a, b, f>>[2] = b /\ <<a, b, f>>[3] = f
    BY <1>5
  <2>2. PICK s : s = <<a, b, f>>
    OBVIOUS
  <2>3. s \in Seq(Steps') /\ Len(s) = 3 /\ s[1] = a /\ s[2] = b /\ s[3] = f /\ Push(t, s)
    BY <1>7, <2>1, <2>2
  <2>4. QED
    BY <1>1, <1>4, <1>7, <2>3 DEF EnqueueAdds
<1>8. QED
  BY <1>1, <1>2, <1>3, <1>4, <1>6, <1>7 DEF c

LEMMA EnqueueKeepsNest ==
  ASSUME TypeOK, NEW t \in Threads, PlacesOK(t), NestOK(t), NEW q \in Queues,
         NEW explicit \in BOOLEAN, NEW blocking \in BOOLEAN,
         NEW waits \in WaitLists(t, q), Enqueue(t, q, waits, explicit, blocking)
  PROVE  NestOK(t)'
<1>1. /\ stack[t] = <<>> \/ Top(t).step = "callback"
      /\ Steps \subseteq Steps' /\ EnqueueAdds(t, q, Len(command) + 1)
  BY EnqueueShape
<1>2. PICK c : c = Len(command) + 1
  OBVIOUS
<1>3. PICK s \in Seq(Steps') :
        /\ Push(t, s) /\ Len(s) \in {2, 3}
        /\ s[1] = EnqueueStep("append", q, c) /\ s[2] = EnqueueStep("stamp", q, c)
        /\ Len(s) = 3 => s[3] = LockStep(q, Linked(q) \cup {c})
  BY <1>1, <1>2 DEF EnqueueAdds
<1>4. /\ s[1].step = "append" /\ MayCover(s[2], s[1])
      /\ Len(s) = 3 => MayCover(s[3], s[2])
  BY <1>3 DEF EnqueueStep, LockStep, MayCover
<1>5. \A i \in 1..Len(s) : \/ s[i].step \notin {"lock", "stamp"}
                           \/ i = 1 /\ s[i].step = "lock"
                           \/ i > 1 /\ MayCover(s[i], s[i - 1])
  <2> SUFFICES ASSUME NEW i \in 1..Len(s)
               PROVE  s[i].step \notin {"lock", "stamp"} \/ (i > 1 /\ MayCover(s[i], s[i - 1]))
    OBVIOUS
  <2>1. i = 1 \/ (i = 2 /\ i - 1 = 1) \/ (i = 3 /\ Len(s) = 3 /\ i - 1 = 2)
    <3>1. Len(s) = 2 \/ Len(s) = 3
      BY <1>3
    <3>2. PICK n \in {2, 3} : n = Len(s)
      BY <3>1
    <3>3. i \in 1..n
      BY <3>2
    <3>4. QED
      BY <3>2, <3>3
  <2>2. QED
    BY <1>4, <2>1
<1>6. QED
  BY <1>1, <1>3, <1>5, NestAdded DEF PlacesOK

LEMMA NestStep ==
  ASSUME NEW t, Threads = {t}, TypeOK, PlacesOK(t), NestOK(t), [Next]_vars
  PROVE  NestOK(t)'
<1>1. t \in Threads
  OBVIOUS
<1>2. ASSUME ClientCall(t)
      PROVE  NestOK(t)'
  <2>1. ASSUME NEW q \in Queues, NEW explicit \in BOOLEAN, NEW blocking \in BOOLEAN,
               NEW waits \in WaitLists(t, q), Enqueue(t, q, waits, explicit, blocking)
        PROVE  NestOK(t)'
    BY <1>1, <2>1, EnqueueKeepsNest
  <2>2. CASE OtherCall(t)
    BY <1>1, <2>2, CallKeepsNest
  <2>3. QED
    BY <1>2, <2>1, <2>2 DEF ClientCall, OtherCall
<1>3. CASE UNCHANGED vars
  BY <1>3, NestStays DEF vars
<1>4. QED
  BY <1>1, <1>2, <1>3, RuntimeKeepsNest DEF Next

-----------------------------------------------------------------------------
(* What a flush reaches stays in its reach until it has ended.                 *)

\* An execution below the top keeps what it has still to do.
LEMMA CoverBelow ==
  ASSUME NEW t, NEW k \in 1..Depth(t), k \in 1..Depth(t)', Level(t, k)' = Level(t, k),
         Level(t, k).step \notin {"lock", "scan", "submit"}, NEW c, Reaches(t, Level(t, k), c)
  PROVE  Covered(t, k, c)'
<1>1. PICK f : f = Level(t, k)
  OBVIOUS
<1>2. Reaches(t, f, c)'
  BY <1>1 DEF Reaches
<1>3. QED
  BY <1>1, <1>2 DEF Covered, Reaches

LEMMA RuntimeKeepsCover ==
  ASSUME TypeOK, NEW t \in Threads, PlacesOK(t), NestOK(t), Later, RuntimeStep(t),
         NEW k \in 1..Depth(t), NEW c, Reaches(t, Level(t, k), c)
  PROVE  Covered(t, k, c)'
<1>1. /\ stack[t] # <<>> /\ StackOK(t)
      /\ Depth(t) \in Nat /\ Depth(t) > 0 /\ Level(t, Depth(t)) = Top(t)
  BY LoopShape, Levels DEF PlacesOK
<1>2. CASE AppendCommand(t) \/ StampQueued(t)
  <2>1. /\ Replace(t, <<>>) /\ Top(t).step \in Enqueues
        /\ \A q \in Queues : \A d : Has(root[q], d) => Has(root'[q], d)
        /\ Top(t).step = "append" => Has(root'[Top(t).q], Top(t).c)
    BY <1>2, EnqueueEnds DEF Enqueues
  <2>2. /\ Depth(t)' = Depth(t) - 1
        /\ \A l \in 1..Depth(t)' : Level(t, l)' = Level(t, l)
    BY <1>1, <2>1, TopLeaves
  <2>3. k # Depth(t)
    BY <1>1, <2>1 DEF Reaches, Enqueues
  <2>4. k \in 1..Depth(t)' /\ k < Depth(t)
    BY <1>1, <2>2, <2>3
  <2>5. PICK f \in Steps : f = Level(t, k)
    BY Levels
  <2>6. f.step \notin OnTop
    BY <1>1, <2>4, <2>5 DEF StackOK
  <2>7. CASE f.step = "lock"
    <3>1. f.q \in Queues
      BY <2>7, StepKinds DEF LockSteps
    <3>2. ASSUME NEW l \in 1..Depth(t), Level(t, l) = EnqueueStep("append", f.q, c)
          PROVE  Has(root'[f.q], c)
      <4>1. Level(t, l).step = "append" /\ Level(t, l).q = f.q /\ Level(t, l).c = c
        BY <3>2 DEF EnqueueStep
      <4>2. Level(t, l) = Top(t)
        BY <1>1, <4>1, AppendOnTop
      <4>3. QED
        BY <2>1, <4>1, <4>2
    <3>3. Has(root'[f.q], c)
      BY <2>1, <2>5, <2>7, <3>1, <3>2 DEF Reaches
    <3>4. Reaches(t, f, c)'
      BY <2>7, <3>3 DEF Reaches
    <3>5. QED
      BY <2>2, <2>4, <2>5, <3>4 DEF Covered, Reaches
  <2>8. CASE f.step # "lock"
    BY <2>2, <2>4, <2>5, <2>6, <2>8, CoverBelow DEF OnTop
  <2>9. QED
    BY <2>7, <2>8
<1>3. CASE UNCHANGED <<root, stack>>
  <2>1. PICK f : f = Level(t, k)
    OBVIOUS
  <2>2. Reaches(t, f, c)'
    BY <1>3, <2>1 DEF Reaches, Level, Depth
  <2>3. Level(t, k)' = f /\ Depth(t)' = Depth(t)
    BY <1>3, <2>1 DEF Level, Depth
  <2>4. QED
    BY <2>2, <2>3 DEF Covered, Reaches
<1>4. CASE Top(t).step \in Flushes /\ GoesOn(t)
  <2>1. PICK f \in Steps, s \in Seq(Steps) :
          /\ Replace(t, s \o <<f>>)
          /\ \A d : Reaches(t, Top(t), d) => d \in finished \/ Reaches(t, f, d)'
    BY <1>4 DEF GoesOn
  <2>2. /\ Len(s) \in Nat /\ Depth(t)' = Depth(t) + Len(s)
        /\ \A l \in 1..Depth(t)' :
             Level(t, l)' = IF l < Depth(t) THEN Level(t, l)
                            ELSE IF l = Depth(t) THEN f ELSE s[Depth(t)' + 1 - l]
    BY <1>1, <2>1, TopCovered
  <2>3. k \in 1..Depth(t)'
    BY <1>1, <2>2
  <2>4. CASE k = Depth(t)
    <3>1. Level(t, k)' = f
      BY <2>2, <2>3, <2>4
    <3>2. Reaches(t, Top(t), c)
      BY <1>1, <2>4
    <3>3. c \in finished' \/ Reaches(t, f, c)'
      BY <2>1, <3>2 DEF Later
    <3>4. QED
      BY <2>3, <3>1, <3>3 DEF Covered, Reaches
  <2>5. CASE k < Depth(t)
    <3>1. Level(t, k).step \notin {"lock", "stamp"} \cup OnTop
      BY <1>1, <1>4, <2>5, NoLockBelow DEF Flushes, Enqueues
    <3>2. Level(t, k)' = Level(t, k)
      BY <2>2, <2>3, <2>5
    <3>3. QED
      BY <2>3, <3>1, <3>2, CoverBelow DEF OnTop
  <2>6. QED
    BY <1>1, <2>4, <2>5
<1>5. CASE /\ Replace(t, <<>>)
           /\ \/ Top(t).step \in {"callback", "unref", "recycle"}
              \/ Top(t).step = "run" /\ Top(t).todo = <<>>
  <2>1. /\ Depth(t)' = Depth(t) - 1
        /\ \A l \in 1..Depth(t)' : Level(t, l)' = Level(t, l)
    BY <1>1, <1>5, TopLeaves
  <2>2. ~Reaches(t, Top(t), c)
    BY <1>5, HasNothing DEF Reaches
  <2>3. k \in 1..Depth(t)' /\ k < Depth(t)
    BY <1>1, <2>1, <2>2
  <2>4. Level(t, k).step \notin {"lock", "stamp"} \cup OnTop
    BY <1>1, <1>5, <2>3, NoLockBelow DEF Enqueues
  <2>5. QED
    BY <2>1, <2>3, <2>4, CoverBelow DEF OnTop
<1>6. QED
  BY <1>2, <1>3, <1>4, <1>5, LoopShape

LEMMA CoverStep ==
  ASSUME NEW t, Threads = {t}, TypeOK, PlacesOK(t), NestOK(t), [Next]_vars,
         NEW k, NEW c, Covered(t, k, c)
  PROVE  Covered(t, k, c)'
<1>1. t \in Threads /\ Later
  BY StepsLater
<1>2. CASE c \in finished
  BY <1>1, <1>2 DEF Covered, Later
<1>3. ASSUME k \in 1..Depth(t), Reaches(t, Level(t, k), c)
      PROVE  Covered(t, k, c)'
  <2>1. ASSUME UNCHANGED root, Depth(t)' \in Nat, Depth(t) <= Depth(t)',
               \A l \in 1..Depth(t) : Level(t, l)' = Level(t, l)
        PROVE  Covered(t, k, c)'
    <3>1. Depth(t) \in Nat /\ \A l \in 1..Depth(t) : l \in 1..Depth(t)'
      BY <1>1, <2>1, Levels
    <3>2. PICK f : f = Level(t, k)
      OBVIOUS
    <3>3. Reaches(t, f, c)'
      <4>1. ASSUME NEW l \in 1..Depth(t), Level(t, l) = EnqueueStep("append", f.q, c)
            PROVE  l \in 1..Depth(t)' /\ Level(t, l)' = EnqueueStep("append", f.q, c)
        BY <2>1, <3>1, <4>1
      <4>2. QED
        BY <1>3, <2>1, <3>2, <4>1 DEF Reaches
    <3>4. Level(t, k)' = f /\ k \in 1..Depth(t)'
      BY <1>3, <2>1, <3>1, <3>2
    <3>5. QED
      BY <3>3, <3>4 DEF Covered, Reaches
  <2>2. ASSUME NEW q \in Queues, NEW explicit \in BOOLEAN, NEW blocking \in BOOLEAN,
               NEW waits \in WaitLists(t, q), Enqueue(t, q, waits, explicit, blocking)
        PROVE  Covered(t, k, c)'
    <3>1. UNCHANGED root /\ Steps \subseteq Steps' /\ EnqueueAdds(t, q, Len(command) + 1)
      BY <1>1, <2>2, EnqueueShape
    <3>2. PICK s \in Seq(Steps') : Push(t, s)
      BY <3>1 DEF EnqueueAdds
    <3>3. /\ Depth(t) \in Nat /\ Len(s) \in Nat /\ Depth(t)' = Depth(t) + Len(s)
          /\ \A l \in 1..Depth(t)' :
               Level(t, l)' = IF l <= Depth(t) THEN Level(t, l) ELSE s[Depth(t)' + 1 - l]
      BY <1>1, <3>1, <3>2, StepsAdded
    <3>4. Depth(t)' \in Nat /\ Depth(t) <= Depth(t)'
      BY <3>3
    <3>5. \A l \in 1..Depth(t) : Level(t, l)' = Level(t, l)
      BY <3>3
    <3>6. QED
      BY <2>1, <3>1, <3>4, <3>5
  <2>3. CASE OtherCall(t)
    <3>1. stack[t] = <<>>
      BY <1>1, <2>3, CallView
    <3>2. QED
      BY <1>1, <1>3, <3>1, Levels
  <2>4. CASE UNCHANGED vars
    <3>1. UNCHANGED <<root, stack>>
      BY <2>4 DEF vars
    <3>2. /\ Depth(t)' = Depth(t) /\ Depth(t) \in Nat
          /\ \A l \in 1..Depth(t) : Level(t, l)' = Level(t, l)
      BY <1>1, <3>1, Levels DEF Level, Depth
    <3>3. QED
      BY <2>1, <3>1, <3>2
  <2>5. CASE RuntimeStep(t)
    BY <1>1, <1>3, <2>5, RuntimeKeepsCover
  <2>6. QED
    BY <2>2, <2>3, <2>4, <2>5 DEF Next, ClientCall, OtherCall
<1>4. QED
  BY <1>2, <1>3 DEF Covered

-----------------------------------------------------------------------------
(* What the actions write in the event cells.                                  *)

\* Nothing but the status and the counts of cells is written.
OwnersKept == Events' = Events /\ \A e \in Events : event'[e].queue = event[e].queue
                                                    /\ event'[e].cmd = event[e].cmd
CountsKept == \A e \in Events : event'[e].refs = event[e].refs /\ event'[e].user = event[e].user
StatusKept == \A e \in Events : event'[e].status = event[e].status

LEMMA CellWritten ==
  ASSUME TypeOK, NEW x \in Events, NEW r, event' = [event EXCEPT ![x] = r]
  PROVE  Events' = Events /\ \A e \in Events : event'[e] = IF e = x THEN r ELSE event[e]
BY DEF Events

LEMMA StatusWritten ==
  ASSUME TypeOK, NEW x \in Events, NEW s, event' = [event EXCEPT ![x].status = s]
  PROVE  /\ OwnersKept /\ CountsKept
         /\ \A e \in Events : event'[e].status = IF e = x THEN s ELSE event[e].status
<1>1. event[x] \in EventRecords
  BY EventTyped
<1>2. PICK r : r = [event[x] EXCEPT !.status = s]
  OBVIOUS
<1>3. /\ r.status = s /\ r.queue = event[x].queue /\ r.cmd = event[x].cmd
      /\ r.refs = event[x].refs /\ r.user = event[x].user
  BY <1>1, <1>2 DEF EventRecords
<1>4. event' = [event EXCEPT ![x] = r]
  BY <1>2
<1>5. Events' = Events /\ \A e \in Events : event'[e] = IF e = x THEN r ELSE event[e]
  BY <1>4, CellWritten
<1>6. QED
  BY <1>3, <1>5 DEF OwnersKept, CountsKept

LEMMA RefsWritten ==
  ASSUME TypeOK, NEW x \in Events, NEW n, event' = [event EXCEPT ![x].refs = n]
  PROVE  /\ OwnersKept /\ StatusKept
         /\ \A e \in Events : /\ event'[e].refs = IF e = x THEN n ELSE event[e].refs
                              /\ event'[e].user = event[e].user
<1>1. event[x] \in EventRecords
  BY EventTyped
<1>2. PICK r : r = [event[x] EXCEPT !.refs = n]
  OBVIOUS
<1>3. /\ r.status = event[x].status /\ r.queue = event[x].queue /\ r.cmd = event[x].cmd
      /\ r.refs = n /\ r.user = event[x].user
  BY <1>1, <1>2 DEF EventRecords
<1>4. event' = [event EXCEPT ![x] = r]
  BY <1>2
<1>5. Events' = Events /\ \A e \in Events : event'[e] = IF e = x THEN r ELSE event[e]
  BY <1>4, CellWritten
<1>6. QED
  BY <1>3, <1>5 DEF OwnersKept, StatusKept

LEMMA CountsWritten ==
  ASSUME TypeOK, NEW x \in Events, NEW n, NEW m,
         event' = [event EXCEPT ![x].refs = n, ![x].user = m]
  PROVE  /\ OwnersKept /\ StatusKept
         /\ \A e \in Events : /\ event'[e].refs = IF e = x THEN n ELSE event[e].refs
                              /\ event'[e].user = IF e = x THEN m ELSE event[e].user
<1>1. event[x] \in EventRecords
  BY EventTyped
<1>2. PICK r : r = [event[x] EXCEPT !.refs = n, !.user = m]
  OBVIOUS
<1>3. /\ r.status = event[x].status /\ r.queue = event[x].queue /\ r.cmd = event[x].cmd
      /\ r.refs = n /\ r.user = m
  BY <1>1, <1>2 DEF EventRecords
<1>4. event' = [event EXCEPT ![x] = r]
  BY <1>2 DEF Events
<1>5. Events' = Events /\ \A e \in Events : event'[e] = IF e = x THEN r ELSE event[e]
  BY <1>4, CellWritten
<1>6. OwnersKept /\ StatusKept
  BY <1>3, <1>5 DEF OwnersKept, StatusKept
<1>7. ASSUME NEW e \in Events
      PROVE  /\ event'[e].refs = IF e = x THEN n ELSE event[e].refs
             /\ event'[e].user = IF e = x THEN m ELSE event[e].user
  <2>1. event'[e] = IF e = x THEN r ELSE event[e]
    BY <1>5
  <2>2. CASE e = x
    BY <1>3, <2>1, <2>2
  <2>3. CASE e # x
    BY <2>1, <2>3
  <2>4. QED
    BY <2>2, <2>3
<1>8. QED
  BY <1>6, <1>7

LEMMA CallbacksWritten ==
  ASSUME TypeOK, NEW x \in Events, NEW n, event' = [event EXCEPT ![x].callbacks = n]
  PROVE  OwnersKept /\ StatusKept /\ CountsKept
<1>1. event[x] \in EventRecords
  BY EventTyped
<1>2. PICK r : r = [event[x] EXCEPT !.callbacks = n]
  OBVIOUS
<1>3. /\ r.status = event[x].status /\ r.queue = event[x].queue /\ r.cmd = event[x].cmd
      /\ r.refs = event[x].refs /\ r.user = event[x].user
  BY <1>1, <1>2 DEF EventRecords
<1>4. event' = [event EXCEPT ![x] = r]
  BY <1>2
<1>5. Events' = Events /\ \A e \in Events : event'[e] = IF e = x THEN r ELSE event[e]
  BY <1>4, CellWritten
<1>6. QED
  BY <1>3, <1>5 DEF OwnersKept, StatusKept, CountsKept

\* A new event: its cell is the first of the free list, or a new one.
LEMMA EventEntered ==
  ASSUME TypeOK, NEW q \in Queues, NEW c, NEW explicit \in BOOLEAN, CreateEvent(q, c, explicit)
  PROVE  LET x == NewEvent
         IN  /\ Events' = Events \cup {x}
             /\ event'[x].queue = q /\ event'[x].cmd = c /\ event'[x].refs = 1
             /\ event'[x].user = (IF explicit THEN 1 ELSE 0)
             /\ \A e \in Events : e # x => event'[e] = event[e]
             /\ \/ x \notin Events /\ pool = <<>> /\ UNCHANGED pool
                \/ pool # <<>> /\ x = Head(pool) /\ pool' = Tail(pool)
<1> DEFINE ev == [status |-> NewStatus, queue |-> q, refs |-> 1, cmd |-> c,
                  user |-> IF explicit THEN 1 ELSE 0, callbacks |-> 0]
<1>1. /\ ev.queue = q /\ ev.cmd = c /\ ev.refs = 1 /\ ev.user = (IF explicit THEN 1 ELSE 0)
  OBVIOUS
<1> HIDE DEF ev
<1>2. CASE pool # <<>>
  <2>1. Head(pool) \in Events
    BY <1>2, HeadTailProperties DEF TypeOK
  <2>2. event' = [event EXCEPT ![Head(pool)] = ev] /\ pool' = Tail(pool)
    BY <1>2 DEF CreateEvent, ev
  <2>3. Events' = Events /\ \A e \in Events : event'[e] = IF e = Head(pool) THEN ev ELSE event[e]
    BY <2>1, <2>2, CellWritten
  <2>4. NewEvent = Head(pool)
    BY <1>2 DEF NewEvent
  <2>5. QED
    BY <1>1, <1>2, <2>1, <2>2, <2>3, <2>4
<1>3. CASE pool = <<>>
  <2>1. event' = Append(event, ev) /\ pool' = pool /\ NewEvent = Len(event) + 1
    BY <1>3 DEF CreateEvent, ev, NewEvent
  <2>2. event \in Seq(EventRecords \cup {ev}) /\ ev \in EventRecords \cup {ev}
    BY SeqMonotonic DEF TypeOK
  <2>3. /\ event' \in Seq(EventRecords \cup {ev}) /\ Len(event') = Len(event) + 1
        /\ \A e \in 1..Len(event) : event'[e] = event[e]
        /\ event'[Len(event) + 1] = ev
    BY <2>1, <2>2, AppendProperties
  <2>4. Len(event) \in Nat /\ Events = 1..Len(event) /\ Events' = 1..Len(event')
    BY <2>2, <2>3, LenProperties DEF Events
  <2> DEFINE n == Len(event)
  <2>5. n \in Nat /\ Events = 1..n /\ Events' = 1..(n + 1)
    BY <2>3, <2>4
  <2> HIDE DEF n
  <2>6. n + 1 \notin 1..n /\ 1..(n + 1) = (1..n) \cup {n + 1}
    BY <2>5
  <2>7. QED
    BY <1>1, <1>3, <2>1, <2>3, <2>5, <2>6 DEF n
<1>4. QED
  BY <1>2, <1>3

\* The command of an event is of the event's queue.
OwnersOK == \A e \in Events : event[e].cmd \in Commands /\ command[event[e].cmd].queue = event[e].queue

\* The steps that create no event.
LEMMA OwnersStay ==
  ASSUME TypeOK, NEW t \in Threads, OtherCall(t) \/ RuntimeStep(t) \/ UNCHANGED vars
  PROVE  OwnersKept
<1>1. CASE UNCHANGED event
  BY <1>1 DEF OwnersKept, Events
<1>2. ASSUME NEW e \in Events,
             RetainEvent(t, e) \/ ReleaseEvent(t, e) \/ SetEventCallback(t, e)
      PROVE  OwnersKept
  <2>1. CASE RetainEvent(t, e)
    BY <2>1, CountsWritten DEF RetainEvent
  <2>2. CASE ReleaseEvent(t, e)
    BY <2>2, CountsWritten DEF ReleaseEvent
  <2>3. CASE SetEventCallback(t, e)
    BY <2>3, CallbacksWritten DEF SetEventCallback
  <2>4. QED
    BY <1>2, <2>1, <2>2, <2>3
<1>3. CASE OtherCall(t)
  BY <1>1, <1>2, <1>3 DEF OtherCall, Finish, RetainQueue, ReleaseQueue, WaitForEvent
<1>4. ASSUME NEW c \in Commands, NEW s, event' = [event EXCEPT ![command[c].event].status = s]
      PROVE  OwnersKept
  BY <1>4, CommandTyped, StatusWritten
<1>5. CASE StampQueued(t)
  <2>1. Top(t).c \in Commands
    BY <1>5, EnqueueEnds
  <2>2. QED
    BY <1>4, <1>5, <2>1 DEF StampQueued
<1>6. CASE Submit(t)
  <2>1. Top(t) \in SubmitSteps
    BY <1>6, AtTyped, StepKinds DEF Submit
  <2>2. Last(Top(t).ready) \in Commands
    BY <2>1, FrontAndLast DEF SubmitSteps
  <2>3. \/ UNCHANGED event
        \/ event' = [event EXCEPT ![command[Last(Top(t).ready)].event].status = "SUBMITTED"]
    BY <1>6 DEF Submit, Last
  <2>4. QED
    BY <1>1, <1>4, <2>2, <2>3
<1>7. CASE StartCommand(t) \/ CompleteCommand(t)
  <2>1. Top(t).todo \in Seq(Commands) /\ Top(t).todo # <<>>
    BY <1>7, StartView, CompleteView DEF RunSteps, BusySteps
  <2>2. Head(Top(t).todo) \in Commands
    BY <2>1, HeadTailProperties
  <2>3. \/ UNCHANGED event
        \/ \E s : event' = [event EXCEPT ![command[Head(Top(t).todo)].event].status = s]
    BY <1>7 DEF StartCommand, CompleteCommand, MoveStatus
  <2>4. QED
    BY <1>1, <1>4, <2>2, <2>3
<1>8. CASE ReleaseImplicitEvent(t)
  <2>1. command[Head(Top(t).todo)].event \in Events
    BY <1>8, ReleaseView
  <2>2. \/ UNCHANGED event
        \/ \E n : event' = [event EXCEPT ![command[Head(Top(t).todo)].event].refs = n]
    BY <1>8, ReleaseView
  <2>3. QED
    BY <1>1, <2>1, <2>2, RefsWritten
<1>9. CASE AppendCommand(t) \/ CallbackReturns(t) \/ LockQueue(t) \/ Scan(t) \/ UnlockQueue(t)
           \/ Return(t) \/ UnrefQueue(t) \/ RecycleEvent(t)
  BY <1>1, <1>9 DEF AppendCommand, CallbackReturns, LockQueue, Scan, UnlockQueue, Return,
     UnrefQueue, RecycleEvent
<1>10. CASE UNCHANGED vars
  BY <1>1, <1>10 DEF vars
<1>11. QED
  BY <1>3, <1>5, <1>6, <1>7, <1>8, <1>9, <1>10 DEF RuntimeStep

LEMMA OwnersStep ==
  ASSUME TypeOK, OwnersOK, [Next]_vars
  PROVE  OwnersOK'
<1>1. Later
  BY StepsLater
<1>2. CASE OwnersKept
  BY <1>1, <1>2 DEF OwnersOK, OwnersKept, Later
<1>3. ASSUME NEW t \in Threads, NEW q \in Queues, NEW explicit \in BOOLEAN, NEW blocking \in BOOLEAN,
             NEW waits \in WaitLists(t, q), Enqueue(t, q, waits, explicit, blocking)
      PROVE  OwnersOK'
  <2> DEFINE c == Len(command) + 1
  <2>1. c \in Commands' /\ command'[c].queue = q
    BY <1>3, EnqueueView
  <2>2. CreateEvent(q, c, explicit)
    BY <1>3, Zenon DEF Enqueue
  <2> HIDE DEF c
  <2>3. /\ Events' = Events \cup {NewEvent}
        /\ event'[NewEvent].queue = q /\ event'[NewEvent].cmd = c
        /\ \A e \in Events : e # NewEvent => event'[e] = event[e]
    BY <2>2, EventEntered
  <2>4. QED
    BY <1>1, <2>1, <2>3 DEF OwnersOK, Later
<1>4. ASSUME NEW t \in Threads, OtherCall(t) \/ RuntimeStep(t) \/ UNCHANGED vars
      PROVE  OwnersOK'
  BY <1>2, <1>4, OwnersStay
<1>5. ASSUME NEW t \in Threads, ClientCall(t)
      PROVE  OwnersOK'
  BY <1>3, <1>4, <1>5 DEF ClientCall, OtherCall
<1>6. CASE UNCHANGED vars
  <2>1. OwnersKept
    BY <1>6 DEF vars, OwnersKept, Events
  <2>2. QED
    BY <1>2, <2>1
<1>7. QED
  BY <1>4, <1>5, <1>6 DEF Next

-----------------------------------------------------------------------------
(* A flush finishes what was due when it was called.                           *)

DueOK(t) ==
  \A l \in 1..Depth(t) :
    Level(t, l).step \in Flushes => \A c \in Level(t, l).due : Covered(t, l, c)

\* A flush that goes on at its level.
LEMMA DueKept ==
  ASSUME NEW t, Threads = {t}, TypeOK, PlacesOK(t), NestOK(t), DueOK(t), [Next]_vars,
         NEW l \in 1..Depth(t), Level(t, l).step \in Flushes,
         NEW f, f.due = Level(t, l).due
  PROVE  \A c \in f.due : Covered(t, l, c)'
BY CoverStep DEF DueOK

LEMMA RuntimeKeepsDue ==
  ASSUME NEW t, Threads = {t}, TypeOK, PlacesOK(t), NestOK(t), DueOK(t), RuntimeStep(t)
  PROVE  DueOK(t)'
<1>1. /\ t \in Threads /\ [Next]_vars
  BY DEF Next
<1>2. /\ stack[t] # <<>> /\ Depth(t) \in Nat /\ Depth(t) > 0 /\ Level(t, Depth(t)) = Top(t)
  BY <1>1, LoopShape, Levels
<1>3. ASSUME Depth(t)' <= Depth(t), Depth(t)' \in Nat,
             \A l \in 1..Depth(t)' : Level(t, l)' = Level(t, l)
      PROVE  DueOK(t)'
  <2>1. ASSUME NEW l \in 1..Depth(t)', Level(t, l)'.step \in Flushes, NEW c \in Level(t, l)'.due
        PROVE  Covered(t, l, c)'
    <3>1. l \in 1..Depth(t) /\ Level(t, l)' = Level(t, l)
      BY <1>2, <1>3
    <3>2. PICK f : f = Level(t, l)
      OBVIOUS
    <3>3. \A d \in f.due : Covered(t, l, d)'
      BY <1>1, <2>1, <3>1, <3>2, DueKept
    <3>4. QED
      BY <2>1, <3>1, <3>2, <3>3
  <2>2. QED
    BY <2>1 DEF DueOK, Flushes, Covered, Reaches
<1>4. CASE Replace(t, <<>>)
  <2>1. /\ Depth(t)' = Depth(t) - 1
        /\ \A l \in 1..Depth(t)' : Level(t, l)' = Level(t, l)
    BY <1>1, <1>2, <1>4, TopLeaves
  <2>2. QED
    BY <1>2, <1>3, <2>1
<1>5. CASE UNCHANGED stack
  <2>1. Depth(t)' = Depth(t) /\ \A l \in 1..Depth(t)' : Level(t, l)' = Level(t, l)
    BY <1>5 DEF Depth, Level
  <2>2. QED
    BY <1>2, <1>3, <2>1
<1>6. CASE Top(t).step \in Flushes /\ GoesOn(t)
  <2>1. PICK f \in Steps, s \in Seq(Steps) :
          Replace(t, s \o <<f>>) /\ Freeing(s) /\ f.due = Top(t).due
    BY <1>6 DEF GoesOn
  <2>2. /\ Len(s) \in Nat /\ Depth(t)' = Depth(t) + Len(s)
        /\ \A l \in 1..Depth(t)' :
             Level(t, l)' = IF l < Depth(t) THEN Level(t, l)
                            ELSE IF l = Depth(t) THEN f ELSE s[Depth(t)' + 1 - l]
    BY <1>1, <1>2, <2>1, TopCovered
  <2>3. ASSUME NEW l \in 1..Depth(t)', Level(t, l)'.step \in Flushes, NEW c \in Level(t, l)'.due
        PROVE  Covered(t, l, c)'
    <3>1. CASE l <= Depth(t)
      <4>1. PICK g : g = Level(t, l)'
        OBVIOUS
      <4>2. l \in 1..Depth(t) /\ Level(t, l).step \in Flushes /\ g.due = Level(t, l).due
        BY <1>2, <1>6, <2>1, <2>2, <2>3, <3>1, <4>1
      <4>3. \A d \in g.due : Covered(t, l, d)'
        BY <1>1, <4>2, DueKept
      <4>4. QED
        BY <2>3, <4>1, <4>3
    <3>2. CASE l > Depth(t)
      <4>1. Depth(t)' + 1 - l \in 1..Len(s) /\ Level(t, l)' = s[Depth(t)' + 1 - l]
        BY <1>2, <2>2, <3>2
      <4>2. PICK i \in 1..Len(s) : Level(t, l)' = s[i]
        BY <4>1
      <4>3. s[i].step \notin Flushes \/ s[i].due = {}
        BY <2>1 DEF Freeing, Flushes
      <4>4. QED
        BY <2>3, <4>2, <4>3
    <3>3. QED
      BY <1>2, <2>2, <3>1, <3>2
  <2>4. QED
    BY <2>3 DEF DueOK, Flushes, Covered, Reaches
<1>7. CASE AppendCommand(t) \/ StampQueued(t)
  BY <1>1, <1>4, <1>7, EnqueueEnds
<1>8. QED
  BY <1>1, <1>4, <1>5, <1>6, <1>7, LoopShape

\* A call puts steps on the stack that reach what is due.
LEMMA DueAdded ==
  ASSUME NEW t, Threads = {t}, TypeOK, PlacesOK(t), NestOK(t), DueOK(t), [Next]_vars,
         NEW S, Steps \subseteq S, NEW new \in Seq(S), Push(t, new),
         \A i \in 1..Len(new) :
           new[i].step \in Flushes =>
             \A c \in new[i].due : c \in finished' \/ Reaches(t, new[i], c)'
  PROVE  DueOK(t)'
<1>1. /\ t \in Threads
      /\ Depth(t) \in Nat /\ Len(new) \in Nat /\ Depth(t)' = Depth(t) + Len(new)
      /\ \A l \in 1..Depth(t)' :
           Level(t, l)' = IF l <= Depth(t) THEN Level(t, l) ELSE new[Depth(t)' + 1 - l]
  BY StepsAdded
<1>2. ASSUME NEW l \in 1..Depth(t)', Level(t, l)'.step \in Flushes, NEW c \in Level(t, l)'.due
      PROVE  Covered(t, l, c)'
  <2>1. CASE l <= Depth(t)
    <3>1. PICK g : g = Level(t, l)'
      OBVIOUS
    <3>2. l \in 1..Depth(t) /\ Level(t, l).step \in Flushes /\ g.due = Level(t, l).due
      BY <1>1, <1>2, <2>1, <3>1
    <3>3. \A d \in g.due : Covered(t, l, d)'
      BY <1>1, <3>2, DueKept
    <3>4. QED
      BY <1>2, <3>1, <3>3
  <2>2. CASE l > Depth(t)
    <3>1. Depth(t)' + 1 - l \in 1..Len(new) /\ Level(t, l)' = new[Depth(t)' + 1 - l]
      BY <1>1, <2>2
    <3>2. PICK i \in 1..Len(new) : Level(t, l)' = new[i]
      BY <3>1
    <3>3. c \in finished' \/ Reaches(t, new[i], c)'
      BY <1>2, <3>2
    <3>4. QED
      BY <3>2, <3>3 DEF Covered, Reaches
  <2>3. QED
    BY <1>1, <2>1, <2>2
<1>3. QED
  BY <1>2 DEF DueOK, Flushes, Covered, Reaches

\* Every command of an idle program that has not ended is in its queue.
LEMMA IdleRoots ==
  ASSUME TypeOK, NEW t \in Threads, PlacesOK(t), stack[t] = <<>>
  PROVE  \A c \in Commands \ finished : Has(root[command[c].queue], c)
<1>1. \A l, c : ~Has(Held(t, l), c)
  <2>1. Depth(t) = 0
    BY Levels
  <2>2. QED
    BY <2>1, HasNothing DEF Held
<1>2. QED
  BY <1>1 DEF PlacesOK, HomesOK

LEMMA CallKeepsDue ==
  ASSUME NEW t, Threads = {t}, TypeOK, OwnersOK, PlacesOK(t), NestOK(t), DueOK(t), OtherCall(t)
  PROVE  DueOK(t)'
<1>1. t \in Threads /\ [Next]_vars
  BY DEF Next, OtherCall, ClientCall
<1>2. stack[t] = <<>> /\ UNCHANGED <<root, command, finished>> /\ ClientPushes(t)
  BY <1>1, CallView
<1>3. ASSUME NEW f \in LockSteps, f.due \subseteq Linked(f.q)
      PROVE  \A c \in f.due : c \in finished' \/ Reaches(t, f, c)'
  <2>1. f.step = "lock"
    BY DEF LockSteps
  <2>2. \A c \in f.due \ finished : Has(root[f.q], c)
    BY <1>1, <1>2, <1>3, IdleRoots DEF Linked
  <2>3. QED
    BY <1>2, <2>1, <2>2 DEF Reaches
<1>4. ASSUME NEW f \in LockSteps, f.due \subseteq Linked(f.q),
             NEW g \in UnrefSteps, NEW r \in RecycleSteps, NEW s,
             s = <<f>> \/ s = <<f, g>> \/ s = <<f, g, r>>, Push(t, s)
      PROVE  DueOK(t)'
  <2>1. f \in Steps /\ g \in Steps /\ r \in Steps /\ g.step = "unref" /\ r.step = "recycle"
    BY DEF Steps, UnrefSteps, RecycleSteps
  <2>2. s \in Seq(Steps) /\ \A i \in 1..Len(s) : s[i] = f \/ s[i].step \notin Flushes
    <3>1. CASE s = <<f>>
      BY <2>1, <3>1
    <3>2. CASE s = <<f, g>>
      BY <2>1, <3>2 DEF Flushes
    <3>3. CASE s = <<f, g, r>>
      BY <2>1, <3>3 DEF Flushes
    <3>4. QED
      BY <1>4, <3>1, <3>2, <3>3
  <2>3. \A c \in f.due : c \in finished' \/ Reaches(t, f, c)'
    BY <1>3, <1>4
  <2>4. \A i \in 1..Len(s) :
          s[i].step \in Flushes => \A c \in s[i].due : c \in finished' \/ Reaches(t, s[i], c)'
    BY <2>2, <2>3 DEF Reaches
  <2>5. QED
    BY <1>1, <1>4, <2>2, <2>4, DueAdded
<1>5. CASE UNCHANGED stack
  <2>1. Depth(t) = 0 /\ Depth(t)' = Depth(t)
    BY <1>1, <1>2, <1>5, Levels DEF Depth
  <2>2. QED
    BY <2>1 DEF DueOK
<1>6. ASSUME NEW f \in LockSteps, Push(t, <<f>>),
             \/ f.due = Linked(f.q)
             \/ \E e \in Events : f.q = event[e].queue /\ f.due = {event[e].cmd}
      PROVE  DueOK(t)'
  <2>1. f.due \subseteq Linked(f.q)
    BY <1>6 DEF OwnersOK, Linked
  <2>2. PICK g \in UnrefSteps : g = UnrefStep(f.q)
    BY DEF LockSteps, UnrefStep, UnrefSteps
  <2>3. PICK s : s = <<f>>
    OBVIOUS
  <2>4. s \in Seq(Steps) /\ \A i \in 1..Len(s) : s[i] = f
    <3>1. f \in Steps
      BY DEF Steps
    <3>2. QED
      BY <2>3, <3>1
  <2>5. \A c \in f.due : c \in finished' \/ Reaches(t, f, c)'
    BY <1>3, <2>1
  <2>6. \A i \in 1..Len(s) :
          s[i].step \in Flushes => \A c \in s[i].due : c \in finished' \/ Reaches(t, s[i], c)'
    BY <2>4, <2>5 DEF Reaches
  <2>7. QED
    BY <1>1, <1>6, <2>3, <2>4, <2>6, DueAdded
<1>7. ASSUME NEW f \in LockSteps, NEW g \in UnrefSteps, Push(t, <<f, g>>), f.due = {}
      PROVE  DueOK(t)'
  <2>1. PICK s : s = <<f, g>>
    OBVIOUS
  <2>2. s \in Seq(Steps) /\ \A i \in 1..Len(s) : s[i] = f \/ s[i].step \notin Flushes
    <3>1. f \in Steps /\ g \in Steps /\ g.step = "unref"
      BY DEF Steps, UnrefSteps
    <3>2. QED
      BY <2>1, <3>1 DEF Flushes
  <2>3. \A i \in 1..Len(s) :
          s[i].step \in Flushes => \A c \in s[i].due : c \in finished' \/ Reaches(t, s[i], c)'
    BY <1>7, <2>2
  <2>4. QED
    BY <1>1, <1>7, <2>1, <2>2, <2>3, DueAdded
<1>8. QED
  <2>1. \A f \in LockSteps : f.due = {} => f.due \subseteq Linked(f.q)
    OBVIOUS
  <2>2. QED
    BY <1>2, <1>4, <1>5, <1>6, <1>7, <2>1 DEF ClientPushes

LEMMA EnqueueKeepsDue ==
  ASSUME NEW t, Threads = {t}, TypeOK, PlacesOK(t), NestOK(t), DueOK(t), NEW q \in Queues,
         NEW explicit \in BOOLEAN, NEW blocking \in BOOLEAN,
         NEW waits \in WaitLists(t, q), Enqueue(t, q, waits, explicit, blocking)
  PROVE  DueOK(t)'
<1>1. t \in Threads /\ [Next]_vars
  BY DEF Next, ClientCall
<1>2. /\ UNCHANGED <<root, finished>> /\ Steps \subseteq Steps'
      /\ EnqueueAdds(t, q, Len(command) + 1)
  BY <1>1, EnqueueShape
<1>3. PICK c : c = Len(command) + 1
  OBVIOUS
<1>4. PICK s \in Seq(Steps') :
        /\ Push(t, s) /\ Len(s) \in {2, 3}
        /\ s[1] = EnqueueStep("append", q, c) /\ s[2] = EnqueueStep("stamp", q, c)
        /\ Len(s) = 3 => s[3] = LockStep(q, Linked(q) \cup {c}) /\ stack[t] = <<>>
  BY <1>2, <1>3 DEF EnqueueAdds
<1>5. s[1].step \notin Flushes /\ s[2].step \notin Flushes
  BY <1>4 DEF EnqueueStep, Flushes
<1>6. ASSUME Len(s) = 3, NEW d \in s[3].due
      PROVE  d \in finished' \/ Reaches(t, s[3], d)'
  <2>1. s[3].step = "lock" /\ s[3].q = q /\ s[3].due = Linked(q) \cup {c}
    BY <1>4, <1>6 DEF LockStep
  <2>2. CASE d \in Linked(q)
    <3>1. d \in finished \/ Has(root[q], d)
      BY <1>1, <1>4, <1>6, <2>2, IdleRoots DEF Linked
    <3>2. QED
      BY <1>2, <2>1, <3>1 DEF Reaches
  <2>3. CASE d = c
    <3>1. /\ Depth(t) \in Nat /\ Len(s) \in Nat /\ Depth(t)' = Depth(t) + Len(s)
          /\ \A l \in 1..Depth(t)' :
               Level(t, l)' = IF l <= Depth(t) THEN Level(t, l) ELSE s[Depth(t)' + 1 - l]
      BY <1>1, <1>2, <1>4, StepsAdded
    <3>2. PICK k : k = Depth(t)'
      OBVIOUS
    <3>3. k \in 1..Depth(t)' /\ ~(k <= Depth(t)) /\ Depth(t)' + 1 - k = 1
      BY <1>6, <3>1, <3>2
    <3>4. Level(t, k)' = EnqueueStep("append", q, c)
      BY <1>4, <3>1, <3>3
    <3>5. QED
      BY <2>1, <2>3, <3>3, <3>4 DEF Reaches
  <2>4. QED
    BY <1>6, <2>1, <2>2, <2>3
<1>7. \A i \in 1..Len(s) :
        s[i].step \in Flushes => \A d \in s[i].due : d \in finished' \/ Reaches(t, s[i], d)'
  <2> SUFFICES ASSUME NEW i \in 1..Len(s), s[i].step \in Flushes, NEW d \in s[i].due
               PROVE  d \in finished' \/ Reaches(t, s[i], d)'
    OBVIOUS
  <2>1. i = 1 \/ i = 2 \/ (i = 3 /\ Len(s) = 3)
    <3>1. PICK n \in {2, 3} : n = Len(s)
      BY <1>4
    <3>2. i \in 1..n
      BY <3>1
    <3>3. QED
      BY <3>1, <3>2
  <2>2. i = 3 /\ Len(s) = 3
    BY <1>5, <2>1
  <2>3. QED
    BY <1>6, <2>2
<1>8. QED
  BY <1>1, <1>2, <1>4, <1>7, DueAdded

LEMMA DueStep ==
  ASSUME NEW t, Threads = {t}, TypeOK, OwnersOK, PlacesOK(t), NestOK(t), DueOK(t), [Next]_vars
  PROVE  DueOK(t)'
<1>1. ASSUME ClientCall(t)
      PROVE  DueOK(t)'
  <2>1. ASSUME NEW q \in Queues, NEW explicit \in BOOLEAN, NEW blocking \in BOOLEAN,
               NEW waits \in WaitLists(t, q), Enqueue(t, q, waits, explicit, blocking)
        PROVE  DueOK(t)'
    BY <2>1, EnqueueKeepsDue
  <2>2. CASE OtherCall(t)
    BY <2>2, CallKeepsDue
  <2>3. QED
    BY <1>1, <2>1, <2>2 DEF ClientCall, OtherCall
<1>2. CASE UNCHANGED vars
  <2>1. UNCHANGED <<stack, root, finished>>
    BY <1>2 DEF vars
  <2>2. QED
    BY <2>1 DEF DueOK, Covered, Reaches, Level, Depth
<1>3. QED
  BY <1>1, <1>2, RuntimeKeepsDue DEF Next

LEMMA DueInit ==
  ASSUME NEW t \in Threads, Init
  PROVE  OwnersOK /\ NestOK(t) /\ DueOK(t)
<1>1. Events = {} /\ Depth(t) = 0
  BY DEF Init, Events, Depth
<1>2. QED
  BY <1>1 DEF OwnersOK, NestOK, DueOK

\* In a program with one host thread clFinish, clWaitForEvents and a blocking
\* call return when the commands they were to wait for have ended, whatever the
\* client does: although the queue at hand changes in the loop, and an execution
\* releases events, flushes again and calls callbacks that enqueue.
THEOREM FlushesFinishWhatIsDue ==
  ASSUME NEW t, Threads = {t}
  PROVE  Spec => []FinishDrains
<1> DEFINE Inv == OwnersOK /\ PlacesOK(t) /\ NestOK(t) /\ DueOK(t)
<1>1. Init => Inv
  BY PlacesInit, DueInit
<1>2. TypeOK /\ TypeOK' /\ Inv /\ [Next]_vars => Inv'
  BY PlacesStep, OwnersStep, NestStep, DueStep
<1>3. TypeOK /\ Inv => FinishDrains
  <2> SUFFICES ASSUME TypeOK, Inv, At(t, "run"), Top(t).todo = <<>>
               PROVE  Top(t).due \subseteq finished
    BY DEF FinishDrains
  <2>1. Top(t).step = "run" /\ Depth(t) \in 1..Depth(t) /\ Level(t, Depth(t)) = Top(t)
    BY Levels DEF At, Top
  <2>2. \A c \in Top(t).due : Covered(t, Depth(t), c)
    BY <2>1 DEF DueOK, Flushes
  <2>3. \A c : ~Reaches(t, Top(t), c)
    BY <2>1, HasNothing DEF Reaches
  <2>4. QED
    BY <2>1, <2>2, <2>3 DEF Covered
<1> HIDE DEF Inv
<1>4. QED
  BY <1>1, <1>2, <1>3, QueueTypes, PTL DEF Spec

-----------------------------------------------------------------------------
(* Event cells: an unfinished command keeps its cell to itself.                *)

\* A command is live until its execution has released it.
Releasing(t, c) ==
  \E l \in 1..Depth(t) : Level(t, l).step = "release" /\ Head(Level(t, l).todo) = c
Live(t, c) == c \notin finished \/ Releasing(t, c)

\* The cell e whose command is c: the client owns the references of an event it
\* asked for, the runtime one reference of an event it did not, while c is live.
CellOK(t, e, c) ==
  /\ command[c].event = e
  /\ command[c].explicit => event[e].refs = event[e].user
  /\ ~command[c].explicit => event[e].user = 0 /\ event[e].refs = IF Live(t, c) THEN 1 ELSE 0
CellsOK(t) ==
  /\ \A c \in Commands : Live(t, c) => event[command[c].event].cmd = c
  /\ \A e \in Events, c \in Commands : event[e].cmd = c => CellOK(t, e, c)

\* Cell e is recycled at level l, once the flush two levels above has returned.
RecycleAt(t, l, e) == Level(t, l).step = "recycle" /\ Level(t, l).e = e
RecycleOK(t, l, e, c) ==
  /\ event[e].refs = 0 /\ ~Has(pool, e)
  /\ Covered(t, l + 2, c)
  /\ \A m \in 1..Depth(t) : m < l => ~(Level(t, m).step = "release" /\ Head(Level(t, m).todo) = c)
  /\ \A m \in 1..Depth(t) : RecycleAt(t, m, e) => m = l
PoolOK(t) ==
  /\ Distinct(pool)
  /\ \A e \in Events, c \in Commands :
       Has(pool, e) /\ event[e].cmd = c => event[e].refs = 0 /\ ~Live(t, c)
  /\ \A l \in 1..Depth(t), e \in Events, c \in Commands :
       RecycleAt(t, l, e) /\ event[e].cmd = c => RecycleOK(t, l, e, c)

\* No command comes to life again; one that is released has an event the client
\* asked for.
LiveStays(t) ==
  \A c \in Commands : /\ Live(t, c)' => Live(t, c)
                      /\ Live(t, c) /\ ~command[c].explicit => Live(t, c)'
\* No cell comes to be recycled.
RecyclesStay(t) ==
  \A l \in 1..Depth(t)' : Level(t, l)'.step = "recycle" =>
    l \in 1..Depth(t) /\ \A m \in 1..l : Level(t, m)' = Level(t, m)

LEMMA RecycleStays ==
  ASSUME NEW t, Threads = {t}, TypeOK, PlacesOK(t), NestOK(t), [Next]_vars,
         NEW l \in 1..Depth(t)', NEW e \in Events, NEW c \in Commands,
         \A m \in 1..Depth(t)' : Level(t, m)'.step = "recycle" /\ (m = l \/ Level(t, m)'.e = e) =>
           m \in 1..Depth(t) /\ \A n \in 1..m : Level(t, n)' = Level(t, n),
         Has(pool', e) => Has(pool, e),
         event'[e].refs = event[e].refs, Depth(t) \in Nat, Depth(t)' \in Nat,
         Level(t, l)'.step = "recycle", Level(t, l)'.e = e,
         l \in 1..Depth(t) => RecycleOK(t, l, e, c)
  PROVE  RecycleOK(t, l, e, c)'
<1>1. l \in 1..Depth(t) /\ \A m \in 1..l : Level(t, m)' = Level(t, m)
  OBVIOUS
<1>2. RecycleOK(t, l, e, c)
  BY <1>1
<1>3. Covered(t, l + 2, c)'
  BY <1>2, CoverStep DEF RecycleOK
<1>4. ASSUME NEW m \in 1..Depth(t)', m < l
      PROVE  ~(Level(t, m)'.step = "release" /\ Head(Level(t, m)'.todo) = c)
  <2>1. m \in 1..Depth(t) /\ Level(t, m)' = Level(t, m)
    BY <1>1, <1>4
  <2>2. QED
    BY <1>2, <1>4, <2>1 DEF RecycleOK
<1>5. ASSUME NEW m \in 1..Depth(t)', Level(t, m)'.step = "recycle", Level(t, m)'.e = e
      PROVE  m = l
  <2>1. m \in 1..Depth(t) /\ Level(t, m)' = Level(t, m)
    BY <1>5
  <2>2. QED
    BY <1>2, <1>5, <2>1 DEF RecycleOK, RecycleAt
<1>6. event'[e].refs = 0 /\ ~Has(pool', e)
  BY <1>2 DEF RecycleOK
<1>7. QED
  BY <1>3, <1>4, <1>5, <1>6, Zenon DEF RecycleOK, RecycleAt, Has

\* The steps that create no event, free none, and write no count.
LEMMA QuietKeepsCells ==
  ASSUME NEW t, Threads = {t}, TypeOK, PlacesOK(t), NestOK(t), Later, [Next]_vars,
         Commands' = Commands, LiveStays(t), RecyclesStay(t), OwnersKept, CountsKept, pool' = pool,
         CellsOK(t), PoolOK(t), Depth(t)' \in Nat
  PROVE  CellsOK(t)' /\ PoolOK(t)'
<1>1. /\ Events' = Events /\ \A c \in Commands : command'[c] = command[c]
      /\ \A e \in Events : /\ event'[e].cmd = event[e].cmd /\ event'[e].refs = event[e].refs
                           /\ event'[e].user = event[e].user
  BY DEF OwnersKept, CountsKept, Later
<1>2. \A c \in Commands : command[c].event \in Events
  BY CommandTyped
<1>3. ASSUME NEW c \in Commands, Live(t, c)'
      PROVE  event'[command'[c].event].cmd = c
  BY <1>1, <1>2, <1>3 DEF LiveStays, CellsOK
<1>4. ASSUME NEW e \in Events, NEW c \in Commands, event'[e].cmd = c
      PROVE  CellOK(t, e, c)'
  <2>1. CellOK(t, e, c)
    BY <1>1, <1>4 DEF CellsOK
  <2>2. ~command[c].explicit => (Live(t, c)' <=> Live(t, c))
    BY DEF LiveStays
  <2>3. QED
    BY <1>1, <2>1, <2>2 DEF CellOK
<1>5. CellsOK(t)'
  BY <1>1, <1>3, <1>4 DEF CellsOK
<1>6. Distinct(pool')
  BY DEF PoolOK
<1>7. ASSUME NEW e \in Events, NEW c \in Commands, Has(pool', e), event'[e].cmd = c
      PROVE  event'[e].refs = 0 /\ ~Live(t, c)'
  BY <1>1, <1>7 DEF PoolOK, LiveStays, Has
<1>8. ASSUME NEW l \in 1..Depth(t)', NEW e \in Events, NEW c \in Commands,
             Level(t, l)'.step = "recycle", Level(t, l)'.e = e, event'[e].cmd = c
      PROVE  RecycleOK(t, l, e, c)'
  <2>1. l \in 1..Depth(t) => RecycleAt(t, l, e)
    BY <1>8 DEF RecyclesStay, RecycleAt
  <2>2. l \in 1..Depth(t) => RecycleOK(t, l, e, c)
    BY <1>1, <1>8, <2>1 DEF PoolOK
  <2>3. Depth(t) \in Nat
    BY Levels
  <2>4. QED
    BY <1>1, <1>8, <2>2, <2>3, RecycleStays DEF RecyclesStay
<1>9. PoolOK(t)'
  BY <1>1, <1>6, <1>7, <1>8 DEF PoolOK, RecycleAt, Distinct, Has
<1>10. QED
  BY <1>5, <1>9

\* Steps that neither release a command nor recycle a cell come and go.
LEMMA LiveOnto ==
  ASSUME TypeOK, NEW t \in Threads, NEW k, NEW new, Len(new) \in Nat, Onto(t, k, new),
         k = Depth(t) \/ (stack[t] # <<>> /\ k = Depth(t) - 1 /\ Top(t).step # "release"),
         UNCHANGED finished, \A i \in 1..Len(new) : new[i].step \notin {"release", "recycle"}
  PROVE  LiveStays(t) /\ RecyclesStay(t) /\ Depth(t)' \in Nat
<1>1. Depth(t) \in Nat /\ k \in Nat /\ k <= Depth(t) /\ Depth(t)' = k + Len(new) /\ Depth(t)' \in Nat
  BY Levels DEF Onto
<1>2. /\ \A l \in 1..k : l \in 1..Depth(t) /\ l \in 1..Depth(t)' /\ Level(t, l)' = Level(t, l)
      /\ \A l \in 1..Depth(t)' : l > k => Level(t, l)'.step \notin {"release", "recycle"}
  <2>1. ASSUME NEW l \in 1..Depth(t)', l > k
        PROVE  Level(t, l)'.step \notin {"release", "recycle"}
    <3>1. Depth(t)' + 1 - l \in 1..Len(new) /\ Level(t, l)' = new[Depth(t)' + 1 - l]
      BY <1>1, <2>1 DEF Onto
    <3>2. QED
      BY <3>1
  <2>2. QED
    BY <1>1, <2>1 DEF Onto
<1>3. \A l \in 1..Depth(t) : Level(t, l).step = "release" => l \in 1..k
  BY <1>1, Levels
<1>4. RecyclesStay(t)
  <2>1. ASSUME NEW l \in 1..Depth(t)', Level(t, l)'.step = "recycle"
        PROVE  l \in 1..Depth(t) /\ \A m \in 1..l : Level(t, m)' = Level(t, m)
    <3>1. l \in 1..k
      BY <1>1, <1>2, <2>1
    <3>2. \A m \in 1..l : m \in 1..k
      BY <1>1, <3>1
    <3>3. QED
      BY <1>2, <3>1, <3>2
  <2>2. QED
    BY <2>1, Zenon DEF RecyclesStay
<1>5. ASSUME NEW c \in Commands
      PROVE  Releasing(t, c)' <=> Releasing(t, c)
  <2>1. ASSUME NEW l \in 1..Depth(t)', Level(t, l)'.step = "release", Head(Level(t, l)'.todo) = c
        PROVE  Releasing(t, c)
    <3>1. l \in 1..k
      BY <1>1, <1>2, <2>1
    <3>2. QED
      BY <1>2, <2>1, <3>1 DEF Releasing
  <2>2. ASSUME NEW l \in 1..Depth(t), Level(t, l).step = "release", Head(Level(t, l).todo) = c
        PROVE  \E m \in 1..Depth(t)' : Level(t, m)'.step = "release" /\ Head(Level(t, m)'.todo) = c
    BY <1>2, <1>3, <2>2
  <2>3. QED
    BY <2>1, <2>2, Zenon DEF Releasing
<1>6. QED
  BY <1>1, <1>4, <1>5 DEF LiveStays, Live

\* The stack after a step that neither completes nor releases a command.
LEMMA QuietStack ==
  ASSUME TypeOK, NEW t \in Threads, PlacesOK(t), RuntimeStep(t),
         ~CompleteCommand(t), ~ReleaseImplicitEvent(t)
  PROVE  LiveStays(t) /\ RecyclesStay(t) /\ Depth(t)' \in Nat /\ UNCHANGED <<command, finished>>
<1>1. stack[t] # <<>> /\ UNCHANGED <<command, finished>>
  BY LoopShape DEF RuntimeStep, AppendCommand, StampQueued, CallbackReturns, LockQueue, Scan, Submit,
     UnlockQueue, StartCommand, Return, UnrefQueue, RecycleEvent
<1>2. ASSUME UNCHANGED stack
      PROVE  LiveStays(t) /\ RecyclesStay(t) /\ Depth(t)' \in Nat
  <2>1. Depth(t)' = Depth(t) /\ Depth(t) \in Nat /\ \A l : Level(t, l)' = Level(t, l)
    BY <1>2, Levels DEF Depth, Level
  <2>2. \A l \in 1..Depth(t) : Level(t, l)' = Level(t, l)
    BY <2>1
  <2>3. \A c : Releasing(t, c)' <=> Releasing(t, c)
    BY <2>1, <2>2 DEF Releasing
  <2>4. RecyclesStay(t)
    BY <2>1 DEF RecyclesStay
  <2>5. QED
    BY <1>1, <2>1, <2>3, <2>4 DEF LiveStays, Live
<1>3. ASSUME Replace(t, <<>>), Top(t).step # "release"
      PROVE  LiveStays(t) /\ RecyclesStay(t) /\ Depth(t)' \in Nat
  <2>1. PICK s : s = <<>>
    OBVIOUS
  <2>2. s \in Seq(Steps) /\ Len(s) = 0 /\ 1..Len(s) = {}
    BY <2>1, EmptySeq
  <2>3. Onto(t, Depth(t) - 1, s)
    BY <1>1, <1>3, <2>1, <2>2, Replaced
  <2>4. QED
    BY <1>1, <1>3, <2>2, <2>3, LiveOnto
<1>4. ASSUME NEW f \in Steps, Replace(t, <<f>>), f.step \notin {"release", "recycle"},
             Top(t).step # "release"
      PROVE  LiveStays(t) /\ RecyclesStay(t) /\ Depth(t)' \in Nat
  <2>1. PICK s : s = <<f>>
    OBVIOUS
  <2>2. s \in Seq(Steps) /\ Len(s) = 1 /\ \A i \in 1..Len(s) : s[i] = f
    BY <2>1
  <2>3. Onto(t, Depth(t) - 1, s)
    BY <1>1, <1>4, <2>1, <2>2, Replaced
  <2>4. QED
    BY <1>1, <1>4, <2>2, <2>3, LiveOnto
<1>5. CASE AppendCommand(t) \/ StampQueued(t) \/ CallbackReturns(t) \/ Return(t) \/ UnrefQueue(t)
           \/ RecycleEvent(t)
  BY <1>3, <1>5 DEF AppendCommand, StampQueued, CallbackReturns, Return, UnrefQueue, RecycleEvent, At, Top
<1>6. ASSUME NEW f, f \in ScanSteps \cup SubmitSteps \cup RunSteps \/ (f \in BusySteps /\ f.step = "complete")
      PROVE  f.step \notin {"release", "recycle"} /\ f \in Steps
  BY <1>6 DEF ScanSteps, SubmitSteps, RunSteps, BusySteps, Steps
<1>7. CASE LockQueue(t)
  <2>1. Top(t) \in LockSteps /\ \E f \in ScanSteps : Replace(t, <<f>>)
    BY <1>7, LockView
  <2>2. Top(t).step # "release"
    BY <2>1 DEF LockSteps
  <2>3. QED
    BY <1>1, <1>4, <1>6, <2>1, <2>2
<1>8. CASE Scan(t)
  <2>1. Top(t) \in ScanSteps
    BY <1>8, ScanView
  <2>2. PICK f \in Steps : Replace(t, <<f>>) /\ (Turns(t, f) \/ Takes(t, f))
    BY <1>8, ScanView
  <2>3. f \in ScanSteps \cup SubmitSteps
    BY <2>2 DEF Turns, Takes
  <2>4. QED
    BY <1>1, <1>4, <1>6, <2>1, <2>2, <2>3
<1>9. CASE Submit(t)
  <2>1. Top(t) \in SubmitSteps /\ (UNCHANGED stack \/ \E f \in ScanSteps : Replace(t, <<f>>))
    BY <1>9, SubmitView DEF PlacesOK
  <2>2. QED
    BY <1>1, <1>2, <1>4, <1>6, <2>1
<1>10. CASE UnlockQueue(t)
  <2>1. Top(t) \in ScanSteps /\ \E f \in RunSteps : Replace(t, <<f>>)
    BY <1>10, UnlockView
  <2>2. QED
    BY <1>1, <1>4, <1>6, <2>1
<1>11. CASE StartCommand(t)
  <2>1. Top(t) \in RunSteps /\ \E f \in BusySteps : Replace(t, <<f>>) /\ f.step = "complete"
    BY <1>11, StartView
  <2>2. QED
    BY <1>1, <1>4, <1>6, <2>1
<1>12. QED
  BY <1>1, <1>5, <1>7, <1>8, <1>9, <1>10, <1>11 DEF RuntimeStep

\* A command that completes goes on to be released.
LEMMA CompletesLive ==
  ASSUME TypeOK, NEW t \in Threads, CompleteCommand(t), Head(Top(t).todo) \notin finished
  PROVE  LiveStays(t) /\ RecyclesStay(t) /\ Depth(t)' \in Nat /\ UNCHANGED command
<1>1. /\ stack[t] # <<>> /\ Top(t).step = "complete" /\ UNCHANGED command
      /\ finished' = finished \cup {Head(Top(t).todo)}
  BY CompleteView DEF CompleteCommand
<1>2. PICK f \in BusySteps, s \in Seq(Steps) :
        /\ Replace(t, s \o <<f>>) /\ f.step = "release" /\ f.todo = Top(t).todo
        /\ \A i \in 1..Len(s) : s[i] = CallbackStep
  BY CompleteView
<1>3. f \in Steps /\ Level(t, Depth(t)) = Top(t) /\ CallbackStep.step = "callback"
  BY <1>1, Levels DEF Steps, CallbackStep
<1>4. /\ Depth(t) \in Nat /\ Depth(t) > 0 /\ Len(s) \in Nat /\ Depth(t)' = Depth(t) + Len(s)
      /\ \A l \in 1..Depth(t)' :
           Level(t, l)' = IF l < Depth(t) THEN Level(t, l)
                          ELSE IF l = Depth(t) THEN f ELSE s[Depth(t)' + 1 - l]
  BY <1>1, <1>2, <1>3, TopCovered
<1>5. ASSUME NEW l \in 1..Depth(t)', l > Depth(t)
      PROVE  Level(t, l)'.step = "callback"
  <2>1. Depth(t)' + 1 - l \in 1..Len(s) /\ Level(t, l)' = s[Depth(t)' + 1 - l]
    BY <1>4, <1>5
  <2>2. QED
    BY <1>2, <1>3, <2>1
<1>6. RecyclesStay(t)
  <2>1. ASSUME NEW l \in 1..Depth(t)', Level(t, l)'.step = "recycle"
        PROVE  l \in 1..Depth(t) /\ \A m \in 1..l : Level(t, m)' = Level(t, m)
    <3>1. l < Depth(t)
      BY <1>2, <1>4, <1>5, <2>1
    <3>2. \A m \in 1..l : m \in 1..Depth(t)' /\ m < Depth(t)
      BY <1>4, <2>1, <3>1
    <3>3. QED
      BY <1>4, <3>1, <3>2
  <2>2. QED
    BY <2>1, Zenon DEF RecyclesStay
<1>7. ASSUME NEW c \in Commands
      PROVE  Releasing(t, c)' <=> Releasing(t, c) \/ c = Head(Top(t).todo)
  <2>1. ASSUME NEW l \in 1..Depth(t)', Level(t, l)'.step = "release", Head(Level(t, l)'.todo) = c
        PROVE  Releasing(t, c) \/ c = Head(Top(t).todo)
    <3>1. l <= Depth(t)
      BY <1>4, <1>5, <2>1
    <3>2. CASE l = Depth(t)
      BY <1>2, <1>4, <2>1, <3>2
    <3>3. CASE l < Depth(t)
      BY <1>4, <2>1, <3>3 DEF Releasing
    <3>4. QED
      BY <1>4, <3>1, <3>2, <3>3
  <2>2. ASSUME NEW l \in 1..Depth(t), Level(t, l).step = "release", Head(Level(t, l).todo) = c
        PROVE  \E m \in 1..Depth(t)' : Level(t, m)'.step = "release" /\ Head(Level(t, m)'.todo) = c
    <3>1. l < Depth(t) /\ l \in 1..Depth(t)'
      BY <1>1, <1>3, <1>4, <2>2
    <3>2. QED
      BY <1>4, <2>2, <3>1
  <2>3. c = Head(Top(t).todo) =>
          \E m \in 1..Depth(t)' : Level(t, m)'.step = "release" /\ Head(Level(t, m)'.todo) = c
    <3>1. PICK k : k = Depth(t)
      OBVIOUS
    <3>2. k \in 1..Depth(t)' /\ Level(t, k)' = f
      BY <1>4, <3>1
    <3>3. QED
      BY <1>2, <3>2
  <2>4. QED
    BY <2>1, <2>2, <2>3, Zenon DEF Releasing
<1>8. QED
  BY <1>1, <1>4, <1>6, <1>7 DEF LiveStays, Live

\* The runtime writes the counts of a cell only when it releases an event.
LEMMA RuntimeWrites ==
  ASSUME TypeOK, NEW t \in Threads, RuntimeStep(t)
  PROVE  /\ OwnersKept /\ (CountsKept \/ ReleaseImplicitEvent(t))
         /\ pool' = pool \/ RecycleEvent(t)
<1>1. OwnersKept
  BY OwnersStay
<1>2. ASSUME UNCHANGED event
      PROVE  CountsKept
  BY <1>2 DEF CountsKept
<1>3. ASSUME NEW c \in Commands, NEW s, event' = [event EXCEPT ![command[c].event].status = s]
      PROVE  CountsKept
  BY <1>3, CommandTyped, StatusWritten
<1>4. CASE StampQueued(t)
  <2>1. Top(t).c \in Commands
    BY <1>4, EnqueueEnds
  <2>2. QED
    BY <1>1, <1>3, <1>4, <2>1 DEF StampQueued
<1>5. CASE Submit(t)
  <2>1. Top(t) \in SubmitSteps
    BY <1>5, AtTyped, StepKinds DEF Submit
  <2>2. Last(Top(t).ready) \in Commands
    BY <2>1, FrontAndLast DEF SubmitSteps
  <2>3. /\ \/ UNCHANGED event
           \/ event' = [event EXCEPT ![command[Last(Top(t).ready)].event].status = "SUBMITTED"]
        /\ pool' = pool
    BY <1>5 DEF Submit, Last
  <2>4. QED
    BY <1>1, <1>2, <1>3, <2>2, <2>3
<1>6. CASE StartCommand(t) \/ CompleteCommand(t)
  <2>1. Top(t).todo \in Seq(Commands) /\ Top(t).todo # <<>>
    BY <1>6, StartView, CompleteView DEF RunSteps, BusySteps
  <2>2. Head(Top(t).todo) \in Commands
    BY <2>1, HeadTailProperties
  <2>3. /\ \/ UNCHANGED event
           \/ \E s : event' = [event EXCEPT ![command[Head(Top(t).todo)].event].status = s]
        /\ pool' = pool
    BY <1>6 DEF StartCommand, CompleteCommand, MoveStatus
  <2>4. QED
    BY <1>1, <1>2, <1>3, <2>2, <2>3
<1>7. CASE ReleaseImplicitEvent(t)
  BY <1>1, <1>7 DEF ReleaseImplicitEvent
<1>8. CASE AppendCommand(t) \/ CallbackReturns(t) \/ LockQueue(t) \/ Scan(t) \/ UnlockQueue(t)
           \/ Return(t) \/ UnrefQueue(t) \/ RecycleEvent(t)
  BY <1>1, <1>2, <1>8 DEF AppendCommand, CallbackReturns, LockQueue, Scan, UnlockQueue, Return,
     UnrefQueue, RecycleEvent
<1>9. QED
  BY <1>4, <1>5, <1>6, <1>7, <1>8 DEF RuntimeStep

LEMMA HasPut ==
  ASSUME NEW S, NEW s \in Seq(S), NEW d \in S
  PROVE  /\ \A c : Has(<<d>> \o s, c) <=> c = d \/ Has(s, c)
         /\ Distinct(s) /\ ~Has(s, d) => Distinct(<<d>> \o s)
<1> DEFINE a == <<d>> \o s
           n == Len(s)
<1>1. PICK o : o = <<d>>
  OBVIOUS
<1>2. o \in Seq(S) /\ Len(o) = 1 /\ o[1] = d
  BY <1>1
<1>3. /\ n \in Nat /\ Len(a) = 1 + n
      /\ \A i \in 1..1 + n : a[i] = IF i <= 1 THEN o[i] ELSE s[i - 1]
  BY <1>1, <1>2, ConcatProperties, LenProperties
<1> HIDE DEF a
<1>4. 1 \in 1..Len(a) /\ a[1] = d /\ \A i \in 1..Len(a) : i # 1 => i - 1 \in 1..Len(s) /\ a[i] = s[i - 1]
  BY <1>2, <1>3
<1>5. \A i \in 1..Len(s) : i + 1 \in 1..Len(a) /\ i + 1 # 1 /\ a[i + 1] = s[i]
  <2>1. ASSUME NEW i \in 1..Len(s)
        PROVE  i + 1 \in 1..Len(a) /\ i + 1 # 1 /\ a[i + 1] = s[i]
    <3>1. i + 1 \in 1..Len(a) /\ i + 1 # 1 /\ (i + 1) - 1 = i
      BY <1>3
    <3>2. QED
      BY <1>4, <3>1
  <2>2. QED
    BY <2>1
<1>6. ASSUME NEW c
      PROVE  Has(a, c) <=> c = d \/ Has(s, c)
  <2>1. ASSUME NEW i \in 1..Len(a), a[i] = c
        PROVE  c = d \/ \E j \in 1..Len(s) : s[j] = c
    BY <1>4, <2>1
  <2>2. ASSUME NEW i \in 1..Len(s), s[i] = c
        PROVE  \E j \in 1..Len(a) : a[j] = c
    BY <1>5, <2>2
  <2>3. QED
    BY <1>4, <2>1, <2>2 DEF Has
<1>7. ASSUME Distinct(s), ~Has(s, d)
      PROVE  Distinct(a)
  <2>1. ASSUME NEW i \in 1..Len(a), NEW j \in 1..Len(a), a[i] = a[j]
        PROVE  i = j
    <3>1. CASE i = 1 \/ j = 1
      BY <1>4, <1>7, <2>1, <3>1 DEF Has
    <3>2. CASE i # 1 /\ j # 1
      <4>1. i - 1 = j - 1
        BY <1>4, <1>7, <2>1, <3>2 DEF Distinct
      <4>2. QED
        BY <1>3, <4>1
    <3>3. QED
      BY <3>1, <3>2
  <2>2. QED
    BY <2>1 DEF Distinct
<1>8. QED
  BY <1>6, <1>7 DEF a

\* A cell is recycled: its command has been released.
LEMMA RecycleKeepsCells ==
  ASSUME NEW t, Threads = {t}, TypeOK, PlacesOK(t), NestOK(t), Later, RecycleEvent(t),
         CellsOK(t), PoolOK(t)
  PROVE  CellsOK(t)' /\ PoolOK(t)'
<1>1. /\ t \in Threads /\ RuntimeStep(t) /\ [Next]_vars
      /\ ~CompleteCommand(t) /\ ~ReleaseImplicitEvent(t)
  BY DEF RuntimeStep, Next, RecycleEvent, CompleteCommand, ReleaseImplicitEvent, At
<1>2. /\ LiveStays(t) /\ RecyclesStay(t) /\ Depth(t)' \in Nat /\ UNCHANGED <<command, finished>>
      /\ OwnersKept /\ CountsKept
  BY <1>1, QuietStack, RuntimeWrites
<1> DEFINE e == Top(t).e
<1>3. /\ stack[t] # <<>> /\ Top(t) \in RecycleSteps /\ Replace(t, <<>>) /\ pool' = <<e>> \o pool
  BY AtTyped, StepKinds DEF RecycleEvent, At, Top
<1>4. e \in Events /\ Top(t).step = "recycle"
  BY <1>3 DEF RecycleSteps
<1>5. /\ Depth(t) \in 1..Depth(t) /\ Depth(t) \in Nat /\ Level(t, Depth(t)) = Top(t)
      /\ Depth(t)' = Depth(t) - 1
  BY <1>1, <1>3, Levels, TopLeaves
<1> HIDE DEF e
<1>6. RecycleAt(t, Depth(t), e)
  BY <1>4, <1>5 DEF RecycleAt, e
<1>7. \A c \in Commands : event[e].cmd = c => RecycleOK(t, Depth(t), e, c)
  BY <1>4, <1>5, <1>6 DEF PoolOK
<1>8. ASSUME NEW c \in Commands, event[e].cmd = c
      PROVE  event[e].refs = 0 /\ ~Has(pool, e) /\ ~Live(t, c)
  <2>1. RecycleOK(t, Depth(t), e, c)
    BY <1>7, <1>8
  <2>2. c \in finished
    BY <1>5, <2>1 DEF RecycleOK, Covered
  <2>3. ASSUME NEW m \in 1..Depth(t), Level(t, m).step = "release", Head(Level(t, m).todo) = c
        PROVE  FALSE
    <3>1. m < Depth(t)
      BY <1>4, <1>5, <2>3
    <3>2. QED
      BY <2>1, <2>3, <3>1 DEF RecycleOK
  <2>4. QED
    BY <2>1, <2>2, <2>3 DEF RecycleOK, Live, Releasing
<1>9. event[e].cmd \in Commands
  BY <1>4, EventTyped
<1>10. ~Has(pool, e)
  BY <1>8, <1>9
<1>11. (\A x : Has(pool', x) <=> x = e \/ Has(pool, x)) /\ Distinct(pool')
  <2>1. pool \in Seq(Events) /\ Distinct(pool)
    BY DEF TypeOK, PoolOK
  <2>2. QED
    BY <1>3, <1>4, <1>10, <2>1, HasPut
<1>12. /\ Events' = Events /\ Commands' = Commands /\ \A c \in Commands : command'[c] = command[c]
       /\ \A x \in Events : /\ event'[x].cmd = event[x].cmd /\ event'[x].refs = event[x].refs
                            /\ event'[x].user = event[x].user
  BY <1>2 DEF OwnersKept, CountsKept, Commands
<1>13. CellsOK(t)'
  <2>1. ASSUME NEW c \in Commands, Live(t, c)'
        PROVE  event'[command'[c].event].cmd = c
    BY <1>2, <1>12, <2>1, CommandTyped DEF LiveStays, CellsOK
  <2>2. ASSUME NEW x \in Events, NEW c \in Commands, event'[x].cmd = c
        PROVE  CellOK(t, x, c)'
    <3>1. CellOK(t, x, c)
      BY <1>12, <2>2 DEF CellsOK
    <3>2. ~command[c].explicit => (Live(t, c)' <=> Live(t, c))
      BY <1>2 DEF LiveStays
    <3>3. QED
      BY <1>12, <3>1, <3>2 DEF CellOK
  <2>3. QED
    BY <1>12, <2>1, <2>2 DEF CellsOK
<1>14. ASSUME NEW x \in Events, NEW c \in Commands, Has(pool', x), event'[x].cmd = c
       PROVE  event'[x].refs = 0 /\ ~Live(t, c)'
  <2>1. CASE x = e
    BY <1>2, <1>8, <1>12, <1>14, <2>1 DEF LiveStays
  <2>2. CASE x # e
    BY <1>2, <1>11, <1>12, <1>14, <2>2 DEF LiveStays, PoolOK
  <2>3. QED
    BY <2>1, <2>2
<1>15. ASSUME NEW l \in 1..Depth(t)', NEW x \in Events, NEW c \in Commands,
              Level(t, l)'.step = "recycle", Level(t, l)'.e = x, event'[x].cmd = c
       PROVE  RecycleOK(t, l, x, c)'
  <2>1. l \in 1..Depth(t) /\ Level(t, l)' = Level(t, l) /\ l # Depth(t)
    BY <1>2, <1>5, <1>15 DEF RecyclesStay
  <2>2. RecycleAt(t, l, x) /\ RecycleOK(t, l, x, c)
    BY <1>12, <1>15, <2>1 DEF RecycleAt, PoolOK
  <2>3. x # e
    <3>1. x = e => RecycleOK(t, Depth(t), e, c)
      BY <1>7, <1>12, <1>15
    <3>2. QED
      BY <2>1, <2>2, <3>1 DEF RecycleOK
  <2>4. \A m \in 1..Depth(t)' : Level(t, m)'.step = "recycle" =>
          m \in 1..Depth(t) /\ \A n \in 1..m : Level(t, n)' = Level(t, n)
    BY <1>2 DEF RecyclesStay
  <2>5. QED
    BY <1>1, <1>2, <1>5, <1>11, <1>12, <1>15, <2>2, <2>3, <2>4, RecycleStays
<1>16. PoolOK(t)'
  BY <1>11, <1>12, <1>14, <1>15 DEF PoolOK, RecycleAt
<1>17. QED
  BY <1>13, <1>16

\* The last reference of cell e is given up; it will be recycled at level k + 1.
LEMMA FreeKeepsCells ==
  ASSUME NEW t, Threads = {t}, TypeOK, PlacesOK(t), NestOK(t), Later, [Next]_vars,
         CellsOK(t), PoolOK(t), Commands' = Commands, OwnersKept, pool' = pool,
         NEW e \in Events, NEW c \in Commands, event[e].cmd = c,
         event[e].refs # 0, event'[e].refs = 0, event'[e].user = 0,
         \A x \in Events : x # e => event'[x].refs = event[x].refs /\ event'[x].user = event[x].user,
         \A d \in Commands : (Live(t, d)' => Live(t, d)) /\ (Live(t, d) /\ d # c => Live(t, d)'),
         ~command[c].explicit => ~Live(t, c)',
         NEW k \in Nat, Depth(t)' \in Nat,
         \A l \in 1..Depth(t)' : Level(t, l)'.step = "recycle" =>
           \/ l = k + 1 /\ Level(t, l)'.e = e
           \/ l \in 1..Depth(t) /\ \A n \in 1..l : Level(t, n)' = Level(t, n),
         Covered(t, k + 3, c)',
         \A m \in 1..Depth(t)' : m <= k => ~(Level(t, m)'.step = "release" /\ Head(Level(t, m)'.todo) = c)
  PROVE  CellsOK(t)' /\ PoolOK(t)'
<1>1. /\ Events' = Events /\ Depth(t) \in Nat /\ \A d \in Commands : command'[d] = command[d]
      /\ \A x \in Events : event'[x].cmd = event[x].cmd
  BY Levels DEF OwnersKept, Later
<1>2. \A x \in Events : CellOK(t, x, c) /\ event[x].cmd = c => x = e
  BY DEF CellsOK, CellOK
<1>3. CellsOK(t)'
  <2>1. ASSUME NEW d \in Commands, Live(t, d)'
        PROVE  event'[command'[d].event].cmd = d
    BY <1>1, <2>1, CommandTyped DEF CellsOK
  <2>2. ASSUME NEW x \in Events, NEW d \in Commands, event'[x].cmd = d
        PROVE  CellOK(t, x, d)'
    <3>1. CellOK(t, x, d)
      BY <1>1, <2>2 DEF CellsOK
    <3>2. CASE x = e
      BY <1>1, <2>2, <3>1, <3>2 DEF CellOK
    <3>3. CASE x # e
      <4>1. d # c
        BY <1>1, <1>2, <2>2, <3>1, <3>3
      <4>2. Live(t, d)' <=> Live(t, d)
        BY <4>1
      <4>3. QED
        BY <1>1, <3>1, <3>3, <4>2 DEF CellOK
    <3>4. QED
      BY <3>2, <3>3
  <2>3. QED
    BY <1>1, <2>1, <2>2 DEF CellsOK
<1>4. ~Has(pool, e) /\ \A l \in 1..Depth(t) : ~RecycleAt(t, l, e)
  BY DEF PoolOK, RecycleOK
<1>5. ASSUME NEW x \in Events, NEW d \in Commands, Has(pool', x), event'[x].cmd = d
      PROVE  event'[x].refs = 0 /\ ~Live(t, d)'
  <2>1. Has(pool, x) /\ x # e
    BY <1>4, <1>5
  <2>2. QED
    BY <1>1, <1>5, <2>1 DEF PoolOK
<1>6. ASSUME NEW m \in 1..Depth(t)', Level(t, m)'.step = "recycle", Level(t, m)'.e = e
      PROVE  m = k + 1
  <2>1. ASSUME m \in 1..Depth(t), \A n \in 1..m : Level(t, n)' = Level(t, n)
        PROVE  FALSE
    <3>1. Level(t, m)' = Level(t, m)
      BY <2>1
    <3>2. QED
      BY <1>4, <1>6, <2>1, <3>1 DEF RecycleAt
  <2>2. QED
    BY <1>6, <2>1
<1>7. ASSUME NEW l \in 1..Depth(t)', NEW x \in Events, NEW d \in Commands,
             Level(t, l)'.step = "recycle", Level(t, l)'.e = x, event'[x].cmd = d
      PROVE  RecycleOK(t, l, x, d)'
  <2>1. CASE x = e
    <3>1. l = k + 1 /\ d = c /\ l + 2 = k + 3
      BY <1>1, <1>6, <1>7, <2>1
    <3>2. Covered(t, l + 2, d)'
      BY <3>1
    <3>3. \A m \in 1..Depth(t)' : m < l => ~(Level(t, m)'.step = "release" /\ Head(Level(t, m)'.todo) = d)
      BY <3>1
    <3>4. \A m \in 1..Depth(t)' : Level(t, m)'.step = "recycle" /\ Level(t, m)'.e = x => m = l
      BY <1>6, <2>1, <3>1
    <3>5. event'[x].refs = 0 /\ ~Has(pool', x)
      BY <1>4, <2>1
    <3>6. QED
      BY <3>2, <3>3, <3>4, <3>5, Zenon DEF RecycleOK, RecycleAt, Has
  <2>2. CASE x # e
    <3>1. \A m \in 1..Depth(t)' : Level(t, m)'.step = "recycle" /\ (m = l \/ Level(t, m)'.e = x) =>
            m \in 1..Depth(t) /\ \A n \in 1..m : Level(t, n)' = Level(t, n)
      BY <1>7, <2>2
    <3>2. l \in 1..Depth(t) /\ Level(t, l)' = Level(t, l)
      BY <1>7, <3>1
    <3>3. RecycleOK(t, l, x, d)
      BY <1>1, <1>7, <3>2 DEF RecycleAt, PoolOK
    <3>4. event'[x].refs = event[x].refs
      BY <2>2
    <3>5. Has(pool', x) => Has(pool, x)
      OBVIOUS
    <3>6. QED
      BY <1>1, <1>7, <3>1, <3>3, <3>4, <3>5, RecycleStays
  <2>3. QED
    BY <2>1, <2>2
<1>8. Distinct(pool')
  BY DEF PoolOK
<1>9. PoolOK(t)'
  BY <1>1, <1>5, <1>7, <1>8 DEF PoolOK, RecycleAt, Distinct, Has
<1>10. QED
  BY <1>3, <1>9

\* Above level k, up to level d, are the steps s that free event e of queue p.
FreesAbove(t, e, p, s, k, d) ==
  /\ e \in Events /\ p = event[e].queue /\ s = FreeEventSteps(e)
  /\ k \in Nat /\ d = k + Len(s) /\ \A l \in 1..d : l > k => Level(t, l)' = s[d + 1 - l]

\* The levels of the steps that free an event.
LEMMA FreeLevels ==
  ASSUME TypeOK, NEW t, NEW e, NEW p, NEW s, NEW k, NEW d, FreesAbove(t, e, p, s, k, d)
  PROVE  /\ d = k + 3 /\ k + 1 \in 1..d /\ k + 2 \in 1..d /\ k + 3 \in 1..d
         /\ Level(t, k + 1)' = RecycleStep(e) /\ Level(t, k + 2)' = UnrefStep(p)
         /\ Level(t, k + 3)' = LockStep(p, {})
<1>0. /\ e \in Events /\ p = event[e].queue /\ s = FreeEventSteps(e)
      /\ k \in Nat /\ d = k + Len(s) /\ \A l \in 1..d : l > k => Level(t, l)' = s[d + 1 - l]
  BY DEF FreesAbove
<1>1. s = <<LockStep(p, {}), UnrefStep(p), RecycleStep(e)>>
  BY <1>0, FreeSteps
<1>2. Len(s) = 3 /\ s[1] = LockStep(p, {}) /\ s[2] = UnrefStep(p) /\ s[3] = RecycleStep(e)
  BY <1>1
<1>3. d = k + 3
  BY <1>0, <1>2
<1>4. /\ k + 1 \in 1..d /\ k + 2 \in 1..d /\ k + 3 \in 1..d
      /\ d + 1 - (k + 1) = 3 /\ d + 1 - (k + 2) = 2 /\ d + 1 - (k + 3) = 1
  BY <1>0, <1>3
<1>5. \A l \in {k + 1, k + 2, k + 3} : Level(t, l)' = s[d + 1 - l]
  BY <1>0, <1>4
<1>6. Level(t, k + 1)' = s[3]
  <2>1. \A l : l = k + 1 => Level(t, l)' = s[3]
    BY <1>4, <1>5
  <2>2. QED
    BY <2>1
<1>7. Level(t, k + 2)' = s[2]
  <2>1. \A l : l = k + 2 => Level(t, l)' = s[2]
    BY <1>4, <1>5
  <2>2. QED
    BY <2>1
<1>8. Level(t, k + 3)' = s[1]
  <2>1. \A l : l = k + 3 => Level(t, l)' = s[1]
    BY <1>4, <1>5
  <2>2. QED
    BY <2>1
<1>9. QED
  BY <1>2, <1>3, <1>4, <1>6, <1>7, <1>8

\* A command is released by one step.
LEMMA OneRelease ==
  ASSUME TypeOK, NEW t \in Threads, PlacesOK(t), stack[t] # <<>>, Top(t) \in BusySteps,
         Top(t).step = "release",
         NEW l \in 1..Depth(t), Level(t, l).step = "release", Head(Level(t, l).todo) = Head(Top(t).todo)
  PROVE  l = Depth(t)
<1>1. Depth(t) \in 1..Depth(t) /\ Level(t, Depth(t)) = Top(t) /\ Level(t, l) \in Steps
  BY Levels
<1>2. Level(t, l) \in BusySteps
  BY <1>1, StepKinds
<1>3. \A f \in BusySteps : f.step = "release" => Has(Holds(f), Head(f.todo))
  <2>1. \A f \in BusySteps : f.step = "release" => Holds(f) = f.todo
    BY HoldsKinds
  <2>2. \A f \in BusySteps : f.todo \in Seq(Commands) /\ f.todo # <<>>
    BY DEF BusySteps
  <2>3. \A f \in BusySteps : Has(f.todo, Head(f.todo))
    BY <2>2, HasTail
  <2>4. QED
    BY <2>1, <2>3
<1>4. Has(Held(t, l), Head(Top(t).todo)) /\ Has(Held(t, Depth(t)), Head(Top(t).todo))
  BY <1>1, <1>2, <1>3 DEF Held
<1>5. QED
  BY <1>4 DEF PlacesOK, HomesOK

\* After its release a command is not live.
LEMMA ReleaseKeepsCells ==
  ASSUME NEW t, Threads = {t}, TypeOK, PlacesOK(t), NestOK(t), Later, ReleaseImplicitEvent(t),
         CellsOK(t), PoolOK(t)
  PROVE  CellsOK(t)' /\ PoolOK(t)'
<1>0. PICK c, e, k : c = Head(Top(t).todo) /\ e = command[c].event /\ k = Depth(t)
  OBVIOUS
<1>1. t \in Threads /\ RuntimeStep(t) /\ [Next]_vars
  BY DEF RuntimeStep, Next
<1>2. /\ stack[t] # <<>> /\ Top(t) \in BusySteps /\ Top(t).step = "release"
      /\ c \in Commands /\ e \in Events
  BY <1>0, <1>1, ReleaseView
<1>3. PICK f \in RunSteps, s \in Seq(Steps) :
        /\ Replace(t, s \o <<f>>) /\ f.step = "run"
        /\ \/ command[c].explicit /\ s = <<>> /\ UNCHANGED event
           \/ /\ ~command[c].explicit /\ event' = [event EXCEPT ![e].refs = @ - 1]
              /\ s = IF event[e].refs = 1 THEN FreeEventSteps(e) ELSE <<>>
  BY <1>0, <1>1, ReleaseView
<1>4. UNCHANGED <<command, finished, pool>> /\ Commands' = Commands /\ c \in finished /\ OwnersKept
  <2>1. c \in finished
    BY <1>0, <1>1, <1>2, TopOK DEF StepOK, PlacesOK
  <2>2. QED
    BY <1>1, <2>1, RuntimeWrites DEF ReleaseImplicitEvent, Commands
<1>5. /\ f \in Steps /\ Depth(t) \in 1..Depth(t) /\ Level(t, Depth(t)) = Top(t)
  BY <1>1, <1>2, Levels DEF Steps
<1>6. /\ k \in Nat /\ k > 0 /\ Len(s) \in Nat /\ Depth(t)' = k + Len(s) /\ Depth(t)' \in Nat
      /\ \A l \in 1..Depth(t)' :
           Level(t, l)' = IF l < k THEN Level(t, l) ELSE IF l = k THEN f ELSE s[Depth(t)' + 1 - l]
  BY <1>0, <1>1, <1>2, <1>3, <1>5, TopCovered
<1>7. k \in 1..Depth(t) /\ Level(t, k) = Top(t)
  BY <1>0, <1>5
<1>8. Releasing(t, c) /\ \A l \in 1..Depth(t) :
                          Level(t, l).step = "release" /\ Head(Level(t, l).todo) = c => l = k
  BY <1>0, <1>1, <1>2, <1>7, OneRelease DEF Releasing
<1>9. event[e].cmd = c /\ CellOK(t, e, c) /\ Live(t, c)
  BY <1>0, <1>2, <1>8 DEF CellsOK, Live
<1>10. ASSUME \A l \in 1..Depth(t)' : l > k => Level(t, l)'.step # "release"
       PROVE  /\ \A d \in Commands : Live(t, d)' <=> Live(t, d) /\ d # c
              /\ \A m \in 1..Depth(t)' : ~(Level(t, m)'.step = "release" /\ Head(Level(t, m)'.todo) = c)
  <2>1. ASSUME NEW l \in 1..Depth(t)', Level(t, l)'.step = "release"
        PROVE  l < k /\ l \in 1..Depth(t) /\ Level(t, l)' = Level(t, l)
    <3>1. l # k /\ ~(l > k)
      BY <1>3, <1>6, <1>10, <2>1
    <3>2. l < k
      BY <1>6, <3>1
    <3>3. QED
      BY <1>0, <1>6, <2>1, <3>2
  <2>2. ASSUME NEW l \in 1..Depth(t), l < k
        PROVE  l \in 1..Depth(t)' /\ Level(t, l)' = Level(t, l)
    BY <1>6, <1>7, <2>2
  <2>3. \A l \in 1..Depth(t) : l # k => l < k
    BY <1>0, <1>6
  <2>4. \A m \in 1..Depth(t)' : ~(Level(t, m)'.step = "release" /\ Head(Level(t, m)'.todo) = c)
    BY <1>6, <1>8, <2>1
  <2>5. ASSUME NEW d \in Commands
        PROVE  Releasing(t, d)' <=> Releasing(t, d) /\ d # c
    <3>1. ASSUME NEW l \in 1..Depth(t)', Level(t, l)'.step = "release", Head(Level(t, l)'.todo) = d
          PROVE  Releasing(t, d) /\ d # c
      BY <2>1, <2>4, <3>1 DEF Releasing
    <3>2. ASSUME NEW l \in 1..Depth(t), Level(t, l).step = "release", Head(Level(t, l).todo) = d, d # c
          PROVE  \E m \in 1..Depth(t)' : Level(t, m)'.step = "release" /\ Head(Level(t, m)'.todo) = d
      <4>1. l # k
        BY <1>0, <1>2, <1>7, <3>2
      <4>2. QED
        BY <2>2, <2>3, <3>2, <4>1
    <3>3. QED
      BY <3>1, <3>2, Zenon DEF Releasing
  <2>6. QED
    BY <1>4, <2>4, <2>5 DEF Live
<1>11. ASSUME NEW l \in 1..Depth(t)', Level(t, l)'.step = "recycle", l <= k
       PROVE  l \in 1..Depth(t) /\ \A n \in 1..l : Level(t, n)' = Level(t, n)
  <2>1. l < k /\ \A n \in 1..l : n \in 1..Depth(t)' /\ n < k
    BY <1>3, <1>6, <1>11
  <2>2. QED
    BY <1>0, <1>6, <2>1
<1>12. CASE command[c].explicit
  <2>1. s = <<>> /\ UNCHANGED event /\ Depth(t)' = k
    BY <1>3, <1>6, <1>12, EmptySeq
  <2>2. \A l \in 1..Depth(t)' : l <= k
    BY <1>6, <2>1
  <2>3. \A d \in Commands : Live(t, d)' <=> Live(t, d) /\ d # c
    BY <1>6, <1>10, <2>1, <2>2
  <2>4. LiveStays(t) /\ RecyclesStay(t)
    BY <1>11, <1>12, <2>2, <2>3 DEF LiveStays, RecyclesStay
  <2>5. CountsKept
    BY <2>1 DEF CountsKept
  <2>6. QED
    BY <1>1, <1>4, <1>6, <2>4, <2>5, QuietKeepsCells
<1>13. CASE ~command[c].explicit
  <2>1. event[e].refs = 1 /\ event[e].user = 0
    BY <1>9, <1>13 DEF CellOK
  <2>2. s = FreeEventSteps(e) /\ event' = [event EXCEPT ![e].refs = @ - 1]
    BY <1>3, <1>13, <2>1
  <2>3. /\ \A x \in Events : /\ event'[x].refs = IF x = e THEN event[e].refs - 1 ELSE event[x].refs
                             /\ event'[x].user = event[x].user
    BY <1>2, <2>2, RefsWritten
  <2>4. /\ event'[e].refs = 0 /\ event'[e].user = 0
        /\ \A x \in Events : x # e => event'[x].refs = event[x].refs /\ event'[x].user = event[x].user
    BY <1>2, <2>1, <2>3
  <2>5. \A l \in 1..Depth(t)' : l > k => Level(t, l)' = s[Depth(t)' + 1 - l]
    BY <1>6
  <2>6. /\ Depth(t)' = k + 3
        /\ Level(t, k + 1)' = RecycleStep(e) /\ Level(t, k + 2)' = UnrefStep(event[e].queue)
        /\ Level(t, k + 3)' = LockStep(event[e].queue, {})
    <3>1. PICK d, p : d = Depth(t)' /\ p = event[e].queue
      OBVIOUS
    <3>2. e \in Events /\ k \in Nat /\ s = FreeEventSteps(e)
      BY <1>2, <1>6, <2>2
    <3>3. FreesAbove(t, e, p, s, k, d)
      BY <1>6, <2>5, <3>1, <3>2 DEF FreesAbove
    <3>4. /\ d = k + 3 /\ Level(t, k + 1)' = RecycleStep(e) /\ Level(t, k + 2)' = UnrefStep(p)
          /\ Level(t, k + 3)' = LockStep(p, {})
      BY <3>3, FreeLevels
    <3>5. QED
      BY <3>1, <3>4
  <2>7. \A l \in 1..Depth(t)' : l > k => /\ Level(t, l)'.step # "release"
                                         /\ Level(t, l)'.step = "recycle" => l = k + 1 /\ Level(t, l)'.e = e
    <3>1. ASSUME NEW l \in 1..Depth(t)', l > k
          PROVE  l = k + 1 \/ l = k + 2 \/ l = k + 3
      BY <1>6, <2>6, <3>1
    <3>2. \A l : l = k + 1 => Level(t, l)' = RecycleStep(e)
      BY <2>6
    <3>3. \A l : l = k + 2 => Level(t, l)' = UnrefStep(event[e].queue)
      BY <2>6
    <3>4. \A l : l = k + 3 => Level(t, l)' = LockStep(event[e].queue, {})
      BY <2>6
    <3>5. QED
      BY <1>6, <3>1, <3>2, <3>3, <3>4 DEF RecycleStep, UnrefStep, LockStep
  <2>8. /\ \A d \in Commands : Live(t, d)' <=> Live(t, d) /\ d # c
        /\ \A m \in 1..Depth(t)' : ~(Level(t, m)'.step = "release" /\ Head(Level(t, m)'.todo) = c)
    BY <1>10, <2>7
  <2>9. \A l \in 1..Depth(t)' : Level(t, l)'.step = "recycle" =>
          \/ l = k + 1 /\ Level(t, l)'.e = e
          \/ l \in 1..Depth(t) /\ \A n \in 1..l : Level(t, n)' = Level(t, n)
    BY <1>6, <1>11, <2>7
  <2>10. Covered(t, k + 3, c)'
    BY <1>4 DEF Covered
  <2>11. e \in Events /\ c \in Commands /\ ~Live(t, c)'
    BY <1>2, <2>8
  <2>12. QED
    BY <1>1, <1>4, <1>6, <1>9, <2>1, <2>4, <2>8, <2>9, <2>10, <2>11, FreeKeepsCells
<1>14. QED
  BY <1>12, <1>13

\* A call that only moves the references of an event the client owns.
LEMMA CountsMoved ==
  ASSUME TypeOK, NEW t \in Threads, Depth(t) = 0, UNCHANGED <<stack, command, finished, pool>>,
         CellsOK(t), PoolOK(t), OwnersKept, NEW e \in Events, event[e].user > 0,
         event'[e].user = event[e].user + (event'[e].refs - event[e].refs),
         event'[e].refs \in Int,
         \A x \in Events : x # e => event'[x].refs = event[x].refs /\ event'[x].user = event[x].user
  PROVE  CellsOK(t)' /\ PoolOK(t)'
<1>1. /\ Events' = Events /\ Commands' = Commands /\ Depth(t)' = 0
      /\ \A c \in Commands : command'[c] = command[c]
      /\ \A x \in Events : event'[x].cmd = event[x].cmd
  BY DEF OwnersKept, Commands, Depth
<1>2. 1..0 = {} /\ \A c : (Live(t, c)' <=> Live(t, c))
  BY <1>1 DEF Live, Releasing
<1>3. event[e].cmd \in Commands /\ event[e].refs \in Int /\ event[e].user \in Nat
  BY EventTyped
<1>4. CellOK(t, e, event[e].cmd)
  BY <1>3 DEF CellsOK
<1>5. command[event[e].cmd].explicit /\ event[e].refs = event[e].user /\ event[e].refs # 0
  BY <1>3, <1>4 DEF CellOK
<1>6. event'[e].refs = event'[e].user
  BY <1>3, <1>5
<1>7. CellsOK(t)'
  <2>1. ASSUME NEW d \in Commands, Live(t, d)'
        PROVE  event'[command'[d].event].cmd = d
    BY <1>1, <1>2, <2>1, CommandTyped DEF CellsOK
  <2>2. ASSUME NEW x \in Events, NEW d \in Commands, event'[x].cmd = d
        PROVE  CellOK(t, x, d)'
    <3>1. CellOK(t, x, d)
      BY <1>1, <2>2 DEF CellsOK
    <3>2. CASE x = e
      <4>1. d = event[e].cmd
        BY <1>1, <2>2, <3>2
      <4>2. QED
        BY <1>1, <1>5, <1>6, <3>1, <3>2, <4>1 DEF CellOK
    <3>3. CASE x # e
      BY <1>1, <1>2, <3>1, <3>3 DEF CellOK
    <3>4. QED
      BY <3>2, <3>3
  <2>3. QED
    BY <1>1, <2>1, <2>2 DEF CellsOK
<1>8. ASSUME NEW x \in Events, NEW d \in Commands, Has(pool', x), event'[x].cmd = d
      PROVE  event'[x].refs = 0 /\ ~Live(t, d)'
  <2>1. Has(pool, x) /\ event[x].cmd = d
    BY <1>1, <1>8
  <2>2. event[x].refs = 0 /\ ~Live(t, d)
    BY <2>1 DEF PoolOK
  <2>3. x # e
    BY <1>5, <2>2
  <2>4. QED
    BY <1>2, <2>2, <2>3
<1>9. Distinct(pool')
  BY DEF PoolOK
<1>10. PoolOK(t)'
  BY <1>1, <1>2, <1>8, <1>9 DEF PoolOK, Distinct, Has
<1>11. QED
  BY <1>7, <1>10

\* The client retains or releases event e, whose counts become n and m.
Counts(t, e, n, m) ==
  \/ RetainEvent(t, e) /\ n = event[e].refs + 1 /\ m = event[e].user + 1
  \/ ReleaseEvent(t, e) /\ n = event[e].refs - 1 /\ m = event[e].user - 1

LEMMA ReferencesWritten ==
  ASSUME TypeOK, NEW t, NEW e \in Events, NEW n, NEW m, Counts(t, e, n, m)
  PROVE  /\ OwnersKept /\ StatusKept /\ event'[e].refs = n /\ event'[e].user = m
         /\ \A x \in Events : x # e => event'[x].refs = event[x].refs /\ event'[x].user = event[x].user
<1>1. event[e] \in EventRecords
  BY EventTyped
<1>2. PICK r : r = [event[e] EXCEPT !.refs = n, !.user = m]
  OBVIOUS
<1>3. /\ r.status = event[e].status /\ r.queue = event[e].queue /\ r.cmd = event[e].cmd
      /\ r.refs = n /\ r.user = m
  BY <1>1, <1>2 DEF EventRecords
<1>4. event' = [event EXCEPT ![e] = r]
  BY <1>1, <1>2 DEF Events, EventRecords, Counts, RetainEvent, ReleaseEvent
<1>5. Events' = Events /\ \A x \in Events : event'[x] = IF x = e THEN r ELSE event[x]
  BY <1>4, CellWritten
<1>6. QED
  BY <1>3, <1>5 DEF OwnersKept, StatusKept

\* The client gives up its last reference of an event.
LEMMA LastReference ==
  ASSUME NEW t, Threads = {t}, TypeOK, OwnersOK, PlacesOK(t), NestOK(t), Later, [Next]_vars,
         CellsOK(t), PoolOK(t), NEW e \in Events, ReleaseEvent(t, e), event[e].refs = 1
  PROVE  CellsOK(t)' /\ PoolOK(t)'
<1>1. /\ stack[t] = <<>> /\ event[e].user > 0 /\ Push(t, FreeEventSteps(e))
      /\ event' = [event EXCEPT ![e].refs = @ - 1, ![e].user = @ - 1]
      /\ UNCHANGED <<root, lock, pool, command, finished>>
  BY DEF ReleaseEvent, Idle, OwnsEvent
<1>2. PICK c, s, k : c = event[e].cmd /\ s = FreeEventSteps(e) /\ k = 0
  OBVIOUS
<1>3. /\ c \in Commands /\ CellOK(t, e, c) /\ command[c].queue = event[e].queue /\ event[e].cmd = c
      /\ event[e].queue \in Queues
  BY <1>2, EventTyped DEF CellsOK, OwnersOK
<1>4. command[c].explicit /\ event[e].user = 1 /\ event[e].refs - 1 = 0 /\ event[e].user - 1 = 0
  BY <1>1, <1>3 DEF CellOK
<1>5. /\ OwnersKept /\ Events' = Events /\ Commands' = Commands
      /\ event'[e].refs = 0 /\ event'[e].user = 0
      /\ \A x \in Events : x # e => event'[x].refs = event[x].refs /\ event'[x].user = event[x].user
  <2>1. /\ OwnersKept /\ event'[e].refs = 0 /\ event'[e].user = 0
        /\ \A x \in Events : x # e => event'[x].refs = event[x].refs /\ event'[x].user = event[x].user
    <3>1. PICK n, m : n = event[e].refs - 1 /\ m = event[e].user - 1
      OBVIOUS
    <3>2. /\ OwnersKept /\ event'[e].refs = n /\ event'[e].user = m
          /\ \A x \in Events : x # e => event'[x].refs = event[x].refs /\ event'[x].user = event[x].user
      BY <3>1, ReferencesWritten DEF Counts
    <3>3. QED
      BY <1>4, <3>1, <3>2
  <2>2. QED
    BY <1>1, <1>4, <2>1 DEF OwnersKept, Commands
<1>6. Depth(t) = 0
  BY <1>1, Levels
<1>7. s \in Seq(Steps)
  BY <1>2, ReleaseStepsTyped
<1>8. /\ Len(s) \in Nat /\ Depth(t)' = Depth(t) + Len(s)
      /\ \A l \in 1..Depth(t)' :
           Level(t, l)' = IF l <= Depth(t) THEN Level(t, l) ELSE s[Depth(t)' + 1 - l]
  BY <1>1, <1>2, <1>7, StepsAdded
<1>9. /\ Depth(t)' = k + Len(s) /\ k \in Nat /\ s = FreeEventSteps(e)
      /\ \A l \in 1..Depth(t)' : l > k => Level(t, l)' = s[Depth(t)' + 1 - l]
  BY <1>2, <1>6, <1>8
<1>10. /\ Depth(t)' = k + 3 /\ Level(t, k + 1)' = RecycleStep(e)
       /\ Level(t, k + 2)' = UnrefStep(event[e].queue) /\ Level(t, k + 3)' = LockStep(event[e].queue, {})
       /\ k + 3 \in 1..Depth(t)'
  <2>1. PICK d, p : d = Depth(t)' /\ p = event[e].queue
    OBVIOUS
  <2>2. FreesAbove(t, e, p, s, k, d)
    BY <1>9, <2>1 DEF FreesAbove
  <2>3. /\ d = k + 3 /\ k + 3 \in 1..d /\ Level(t, k + 1)' = RecycleStep(e)
        /\ Level(t, k + 2)' = UnrefStep(p) /\ Level(t, k + 3)' = LockStep(p, {})
    BY <2>2, FreeLevels
  <2>4. QED
    BY <2>1, <2>3
<1>11. \A l \in 1..Depth(t)' : /\ Level(t, l)'.step # "release"
                               /\ Level(t, l)'.step = "recycle" => l = k + 1 /\ Level(t, l)'.e = e
  <2>1. \A l \in 1..Depth(t)' : l = k + 1 \/ l = k + 2 \/ l = k + 3
    BY <1>2, <1>10
  <2>2. \A l : l = k + 1 => Level(t, l)' = RecycleStep(e)
    BY <1>10
  <2>3. \A l : l = k + 2 => Level(t, l)' = UnrefStep(event[e].queue)
    BY <1>10
  <2>4. \A l : l = k + 3 => Level(t, l)' = LockStep(event[e].queue, {})
    BY <1>10
  <2>5. QED
    BY <2>1, <2>2, <2>3, <2>4 DEF RecycleStep, UnrefStep, LockStep
<1>12. \A d : Live(t, d)' <=> Live(t, d)
  <2>1. \A d : ~Releasing(t, d)
    BY <1>6 DEF Releasing
  <2>2. \A d : ~Releasing(t, d)'
    BY <1>11, Zenon DEF Releasing
  <2>3. QED
    BY <1>1, <2>1, <2>2 DEF Live
<1>13. Covered(t, k + 3, c)'
  <2>1. CASE c \in finished
    BY <1>1, <2>1 DEF Covered
  <2>2. CASE c \notin finished
    <3>1. PICK q \in Queues : Has(root[q], c)
      <4>1. \A l : Held(t, l) = <<>>
        BY <1>6 DEF Held
      <4>2. QED
        BY <1>3, <2>2, <4>1, HasNothing DEF PlacesOK, HomesOK
    <3>2. Has(root[event[e].queue], c)
      BY <1>3, <3>1 DEF PlacesOK, HomesOK
    <3>3. PICK f : f = LockStep(event[e].queue, {})
      OBVIOUS
    <3>4. f.step = "lock" /\ f.q = event[e].queue
      BY <3>3 DEF LockStep
    <3>5. Has(root'[f.q], c)
      BY <1>1, <3>2, <3>4
    <3>6. Level(t, k + 3)' = f /\ k + 3 \in 1..Depth(t)'
      BY <1>10, <3>3
    <3>7. Reaches(t, f, c)'
      BY <3>4, <3>5 DEF Reaches
    <3>8. QED
      BY <3>6, <3>7 DEF Covered
  <2>3. QED
    BY <2>1, <2>2
<1>14. \A l \in 1..Depth(t)' : Level(t, l)'.step = "recycle" =>
         \/ l = k + 1 /\ Level(t, l)'.e = e
         \/ l \in 1..Depth(t) /\ \A n \in 1..l : Level(t, n)' = Level(t, n)
  BY <1>11
<1>15. Depth(t)' \in Nat /\ event[e].refs # 0 /\ pool' = pool
  BY <1>1, <1>8, <1>6
<1>16. \A m \in 1..Depth(t)' : m <= k => ~(Level(t, m)'.step = "release" /\ Head(Level(t, m)'.todo) = c)
  BY <1>11
<1>17. QED
  BY <1>3, <1>4, <1>5, <1>9, <1>12, <1>13, <1>14, <1>15, <1>16, FreeKeepsCells

\* A call of the client.
LEMMA CallKeepsCells ==
  ASSUME NEW t, Threads = {t}, TypeOK, OwnersOK, PlacesOK(t), NestOK(t), Later, OtherCall(t),
         CellsOK(t), PoolOK(t)
  PROVE  CellsOK(t)' /\ PoolOK(t)'
<1>1. /\ t \in Threads /\ [Next]_vars
      /\ stack[t] = <<>> /\ UNCHANGED <<root, pool, command, finished>> /\ Commands' = Commands
      /\ Depth(t) = 0 /\ OwnersKept
  <2>1. ClientCall(t)
    BY DEF OtherCall, ClientCall
  <2>2. [Next]_vars
    BY <2>1 DEF Next
  <2>3. t \in Threads
    OBVIOUS
  <2>4. QED
    BY <2>2, <2>3, CallView, OwnersStay, Levels DEF Commands
<1>2. ASSUME CountsKept, NEW s \in Seq(Steps), Push(t, s),
             \A i \in 1..Len(s) : s[i].step \notin {"release", "recycle"}
      PROVE  CellsOK(t)' /\ PoolOK(t)'
  <2>1. Onto(t, Depth(t), s) /\ Len(s) \in Nat
    BY <1>1, <1>2, Pushed, LenProperties
  <2>2. LiveStays(t) /\ RecyclesStay(t) /\ Depth(t)' \in Nat
    BY <1>1, <1>2, <2>1, LiveOnto
  <2>3. QED
    BY <1>1, <1>2, <2>2, QuietKeepsCells
<1>3. ASSUME CountsKept, NEW q \in Queues, NEW due \in SUBSET Commands, Push(t, <<LockStep(q, due)>>)
      PROVE  CellsOK(t)' /\ PoolOK(t)'
  <2>1. PICK s : s = <<LockStep(q, due)>>
    OBVIOUS
  <2>2. LockStep(q, due) \in Steps /\ LockStep(q, due).step = "lock"
    BY DEF LockStep, LockSteps, Steps
  <2>3. s \in Seq(Steps) /\ \A i \in 1..Len(s) : s[i].step = "lock"
    BY <2>1, <2>2
  <2>4. QED
    BY <1>2, <1>3, <2>1, <2>3
<1>4. ASSUME UNCHANGED event
      PROVE  CountsKept
  BY <1>4 DEF CountsKept
<1>5. ASSUME UNCHANGED stack, CountsKept
      PROVE  CellsOK(t)' /\ PoolOK(t)'
  <2>1. Depth(t)' = 0 /\ 1..0 = {}
    BY <1>1, <1>5 DEF Depth
  <2>2. LiveStays(t) /\ RecyclesStay(t)
    BY <1>1, <2>1 DEF LiveStays, Live, Releasing, RecyclesStay
  <2>3. QED
    BY <1>1, <1>5, <2>1, <2>2, QuietKeepsCells
<1>6. ASSUME NEW q \in Queues, Finish(t, q) \/ RetainQueue(t, q) \/ ReleaseQueue(t, q)
      PROVE  CellsOK(t)' /\ PoolOK(t)'
  <2>1. CASE Finish(t, q)
    BY <1>3, <1>4, <2>1 DEF Finish, Linked
  <2>2. CASE RetainQueue(t, q)
    BY <1>4, <1>5, <2>2 DEF RetainQueue
  <2>3. CASE ReleaseQueue(t, q)
    <3>1. PICK s : s = ReleaseQueueSteps(q)
      OBVIOUS
    <3>2. /\ LockStep(q, {}).step = "lock" /\ UnrefStep(q).step = "unref"
      BY DEF LockStep, UnrefStep
    <3>3. s \in Seq(Steps) /\ s = <<LockStep(q, {}), UnrefStep(q)>>
      BY <3>1, ReleaseStepsTyped DEF ReleaseQueueSteps
    <3>4. \A i \in 1..Len(s) : s[i].step \in {"lock", "unref"}
      BY <3>2, <3>3
    <3>5. Push(t, s) /\ UNCHANGED event
      BY <2>3, <3>1 DEF ReleaseQueue
    <3>6. QED
      BY <1>2, <1>4, <3>3, <3>4, <3>5
  <2>4. QED
    BY <1>6, <2>1, <2>2, <2>3
<1>7. ASSUME NEW e \in Events, WaitForEvent(t, e) \/ SetEventCallback(t, e)
      PROVE  CellsOK(t)' /\ PoolOK(t)'
  <2>1. CASE WaitForEvent(t, e)
    BY <1>3, <1>4, <2>1, EventTyped DEF WaitForEvent
  <2>2. CASE SetEventCallback(t, e)
    BY <1>5, <2>2, CallbacksWritten DEF SetEventCallback
  <2>3. QED
    BY <1>7, <2>1, <2>2
<1>8. ASSUME NEW e \in Events, NEW n \in Int, NEW m, UNCHANGED stack, event[e].user > 0,
             Counts(t, e, n, m)
      PROVE  CellsOK(t)' /\ PoolOK(t)'
  <2>1. /\ event'[e].refs = n /\ event'[e].user = m
        /\ \A x \in Events : x # e => event'[x].refs = event[x].refs /\ event'[x].user = event[x].user
    BY <1>8, ReferencesWritten
  <2>2. m = event[e].user + (n - event[e].refs)
    BY <1>8, EventTyped DEF Counts
  <2>3. event'[e].user = event[e].user + (event'[e].refs - event[e].refs) /\ event'[e].refs \in Int
    BY <1>8, <2>1, <2>2
  <2>4. QED
    BY <1>1, <1>8, <2>1, <2>3, CountsMoved
<1>9. ASSUME NEW e \in Events, RetainEvent(t, e) \/ ReleaseEvent(t, e)
      PROVE  CellsOK(t)' /\ PoolOK(t)'
  <2>1. event[e].user > 0 /\ event[e].refs \in Int
    BY <1>9, EventTyped DEF RetainEvent, ReleaseEvent, OwnsEvent
  <2>2. PICK n, m, i, j : /\ n = event[e].refs + 1 /\ m = event[e].user + 1
                          /\ i = event[e].refs - 1 /\ j = event[e].user - 1
    OBVIOUS
  <2>3. n \in Int /\ i \in Int
    BY <2>1, <2>2
  <2>4. CASE RetainEvent(t, e)
    <3>1. UNCHANGED stack
      BY <2>4 DEF RetainEvent
    <3>2. QED
      BY <1>8, <2>1, <2>2, <2>3, <2>4, <3>1 DEF Counts
  <2>5. CASE ReleaseEvent(t, e) /\ event[e].refs = 1
    BY <1>1, <2>5, LastReference
  <2>6. CASE ReleaseEvent(t, e) /\ event[e].refs # 1
    <3>1. UNCHANGED stack
      BY <2>6 DEF ReleaseEvent
    <3>2. QED
      BY <1>8, <2>1, <2>2, <2>3, <2>6, <3>1 DEF Counts
  <2>7. QED
    BY <1>9, <2>4, <2>5, <2>6
<1>10. QED
  BY <1>6, <1>7, <1>9 DEF OtherCall

\* A new command gets a cell that no live command has.
LEMMA EnqueueKeepsCells ==
  ASSUME NEW t, Threads = {t}, TypeOK, TypeOK', PlacesOK(t), NestOK(t), Later, NEW q \in Queues,
         NEW explicit \in BOOLEAN, NEW blocking \in BOOLEAN,
         NEW waits \in WaitLists(t, q), Enqueue(t, q, waits, explicit, blocking),
         CellsOK(t), PoolOK(t)
  PROVE  CellsOK(t)' /\ PoolOK(t)'
<1>1. PICK c, x : c = Len(command) + 1 /\ x = NewEvent
  OBVIOUS
<1>2. t \in Threads /\ [Next]_vars
  <2>1. ClientCall(t)
    BY DEF ClientCall
  <2>2. QED
    BY <2>1 DEF Next
<1>3. /\ c \notin Commands /\ Commands' = Commands \cup {c}
      /\ \A d \in Commands : command'[d] = command[d]
      /\ command'[c].event = x /\ command'[c].explicit = explicit
  BY <1>1, <1>2, EnqueueView
<1>4. UNCHANGED <<root, finished>> /\ Steps \subseteq Steps' /\ EnqueueAdds(t, q, c)
  BY <1>1, <1>2, EnqueueShape
<1>5. CreateEvent(q, c, explicit)
  BY <1>1, Zenon DEF Enqueue
<1>6. /\ Events' = Events \cup {x}
      /\ event'[x].cmd = c /\ event'[x].refs = 1
      /\ event'[x].user = (IF explicit THEN 1 ELSE 0)
      /\ \A e \in Events : e # x => event'[e] = event[e]
      /\ \/ x \notin Events /\ pool = <<>> /\ pool' = pool
         \/ pool # <<>> /\ x = Head(pool) /\ pool' = Tail(pool)
  BY <1>1, <1>5, EventEntered
<1>7. PICK s \in Seq(Steps') :
        /\ Push(t, s) /\ Len(s) \in {2, 3}
        /\ s[1] = EnqueueStep("append", q, c) /\ s[2] = EnqueueStep("stamp", q, c)
        /\ Len(s) = 3 => s[3] = LockStep(q, Linked(q) \cup {c})
  BY <1>4 DEF EnqueueAdds
<1>8. /\ \A i \in 1..Len(s) : s[i].step \notin {"release", "recycle"}
      /\ Len(s) \in Nat
  <2>1. \A i \in 1..Len(s) : i = 1 \/ i = 2 \/ (i = 3 /\ Len(s) = 3)
    <3>1. PICK n \in {2, 3} : n = Len(s)
      BY <1>7
    <3>2. QED
      BY <3>1
  <2>2. QED
    BY <1>7, <2>1 DEF EnqueueStep, LockStep
<1>9. Onto(t, Depth(t), s)
  BY <1>2, <1>4, <1>7, Pushed
<1>10. LiveStays(t) /\ RecyclesStay(t) /\ Depth(t)' \in Nat /\ Depth(t) \in Nat
  BY <1>2, <1>4, <1>8, <1>9, LiveOnto, Levels
<1>11. /\ Distinct(pool') /\ ~Has(pool', x)
       /\ \A e : Has(pool', e) => Has(pool, e)
       /\ Has(pool, x) \/ x \notin Events
  <2>1. pool \in Seq(Events) /\ Distinct(pool)
    BY DEF TypeOK, PoolOK
  <2>2. CASE pool = <<>>
    BY <1>6, <2>2, HasNothing
  <2>3. CASE pool # <<>>
    <3>1. /\ \A e : Has(pool, e) <=> Has(Tail(pool), e) \/ e = Head(pool)
          /\ Distinct(Tail(pool)) /\ ~Has(Tail(pool), Head(pool))
      BY <2>1, <2>3, HasTail
    <3>2. QED
      BY <1>6, <2>3, <3>1
  <2>4. QED
    BY <2>2, <2>3
<1>12. ASSUME NEW d \in Commands, Live(t, d)
       PROVE  command[d].event # x
  <2>1. command[d].event \in Events /\ event[command[d].event].cmd = d
    BY <1>12, CommandTyped DEF CellsOK
  <2>2. QED
    BY <1>11, <1>12, <2>1 DEF PoolOK
<1>13. Live(t, c)'
  <2>1. c \notin finished'
    BY <1>3, <1>4 DEF TypeOK
  <2>2. QED
    BY <2>1 DEF Live
<1>14. ASSUME NEW d \in Commands', Live(t, d)'
       PROVE  event'[command'[d].event].cmd = d
  <2>1. CASE d = c
    BY <1>3, <1>6, <2>1
  <2>2. CASE d # c
    <3>1. d \in Commands /\ Live(t, d)
      BY <1>3, <1>10, <1>14, <2>2 DEF LiveStays
    <3>2. command[d].event # x /\ command[d].event \in Events /\ event[command[d].event].cmd = d
      BY <1>12, <3>1, CommandTyped DEF CellsOK
    <3>3. QED
      BY <1>3, <1>6, <3>1, <3>2
  <2>3. QED
    BY <2>1, <2>2
<1>15. ASSUME NEW e \in Events', NEW d \in Commands', event'[e].cmd = d
       PROVE  CellOK(t, e, d)'
  <2>1. CASE e = x
    BY <1>3, <1>6, <1>13, <1>15, <2>1 DEF CellOK
  <2>2. CASE e # x
    <3>1. e \in Events /\ event'[e] = event[e] /\ event[e].cmd \in Commands
      BY <1>6, <2>2, EventTyped
    <3>2. d \in Commands /\ CellOK(t, e, d) /\ command'[d] = command[d]
      BY <1>3, <1>15, <3>1 DEF CellsOK
    <3>3. ~command[d].explicit => (Live(t, d)' <=> Live(t, d))
      BY <1>10, <3>2 DEF LiveStays
    <3>4. QED
      BY <3>1, <3>2, <3>3 DEF CellOK
  <2>3. QED
    BY <2>1, <2>2
<1>16. CellsOK(t)'
  BY <1>14, <1>15 DEF CellsOK
<1>17. ASSUME NEW e \in Events', NEW d \in Commands', Has(pool', e), event'[e].cmd = d
       PROVE  event'[e].refs = 0 /\ ~Live(t, d)'
  <2>1. e \in Events /\ Has(pool, e) /\ event'[e] = event[e] /\ event[e].cmd \in Commands
    BY <1>6, <1>11, <1>17, EventTyped
  <2>2. QED
    BY <1>10, <1>17, <2>1 DEF PoolOK, LiveStays
<1>18. ASSUME NEW l \in 1..Depth(t)', NEW e \in Events', NEW d \in Commands',
              Level(t, l)'.step = "recycle", Level(t, l)'.e = e, event'[e].cmd = d
       PROVE  RecycleOK(t, l, e, d)'
  <2>1. l \in 1..Depth(t) /\ Level(t, l)' = Level(t, l)
    BY <1>10, <1>18 DEF RecyclesStay
  <2>2. Level(t, l) \in RecycleSteps
    BY <1>2, <1>18, <2>1, Levels, StepKinds
  <2>3. e \in Events /\ RecycleAt(t, l, e)
    BY <1>18, <2>1, <2>2 DEF RecycleSteps, RecycleAt
  <2>4. event[e].cmd \in Commands /\ ~Has(pool, e)
    BY <2>1, <2>3, EventTyped DEF PoolOK, RecycleOK
  <2>5. event'[e] = event[e] /\ d \in Commands
    BY <1>6, <1>11, <1>18, <2>3, <2>4
  <2>6. RecycleOK(t, l, e, d)
    BY <1>18, <2>1, <2>3, <2>5 DEF PoolOK
  <2>7. \A m \in 1..Depth(t)' : Level(t, m)'.step = "recycle" =>
          m \in 1..Depth(t) /\ \A n \in 1..m : Level(t, n)' = Level(t, n)
    BY <1>10 DEF RecyclesStay
  <2>8. QED
    BY <1>2, <1>10, <1>11, <1>18, <2>3, <2>5, <2>6, <2>7, RecycleStays
<1>19. PoolOK(t)'
  BY <1>11, <1>17, <1>18 DEF PoolOK, RecycleAt
<1>20. QED
  BY <1>16, <1>19

-----------------------------------------------------------------------------
(* The statuses of the commands, by the place where they are.                  *)

Status(c) == event[command[c].event].status
\* An enqueue call is about to write the status of c.
Stamps(t, c) == \E l \in 1..Depth(t) : Level(t, l).step = "stamp" /\ Level(t, l).c = c

RootsOK(t) ==
  \A q \in Queues, c \in Commands :
    Has(root[q], c) => c \notin finished /\ (Status(c) = "QUEUED" \/ Stamps(t, c))
\* A command that step f holds has not ended, unless f is about to release it.
Stage(f, c) ==
  /\ f.step \in {"scan", "submit", "run", "release"} => Status(c) = "SUBMITTED"
  /\ f.step = "complete" => Status(c) = IF c = Head(f.todo) THEN "RUNNING" ELSE "SUBMITTED"
LevelOK(f) ==
  \A c \in Commands : Has(Holds(f), c) =>
    (f.step = "release" /\ c = Head(f.todo)) \/ (c \notin finished /\ Stage(f, c))
StatusOK(t) ==
  /\ RootsOK(t)
  /\ \A l \in 1..Depth(t) : /\ LevelOK(Level(t, l))
                            /\ Level(t, l).step = "append" => Stamps(t, Level(t, l).c)

\* The live commands outside C keep their status, and do not end.
StatusBut(t, C) ==
  \A d \in Commands \ C : /\ Live(t, d) => Status(d)' = Status(d)
                          /\ d \in finished' => d \in finished

\* The levels up to k stay, the steps new come above them.
LEMMA StatusOnto ==
  ASSUME TypeOK, NEW t \in Threads, StackOK(t), StatusOK(t), Later, Commands' = Commands,
         NEW k, NEW new, Len(new) \in Nat, Onto(t, k, new),
         \/ k = Depth(t) /\ (stack[t] # <<>> => Top(t).step # "append")
         \/ stack[t] # <<>> /\ k = Depth(t) - 1,
         NEW C, StatusBut(t, C), \A l \in 1..k, c \in C : ~Has(Holds(Level(t, l)), c),
         \A i \in 1..Len(new) : LevelOK(new[i])' /\ new[i].step # "append",
         RootsOK(t)'
  PROVE  StatusOK(t)'
<1>1. Depth(t) \in Nat /\ k \in Nat /\ k <= Depth(t) /\ Depth(t)' = k + Len(new) /\ Depth(t)' \in Nat
  BY Levels DEF Onto
<1>2. ASSUME NEW l \in 1..Depth(t)'
      PROVE  LevelOK(Level(t, l))' /\ Level(t, l)'.step # "append"
  <2>1. CASE l > k
    <3>1. Depth(t)' + 1 - l \in 1..Len(new) /\ Level(t, l)' = new[Depth(t)' + 1 - l]
      BY <1>1, <2>1 DEF Onto
    <3>2. PICK i \in 1..Len(new) : Level(t, l)' = new[i]
      BY <3>1
    <3>3. PICK f : f = new[i]
      OBVIOUS
    <3>4. LevelOK(f)' /\ f.step # "append" /\ Level(t, l)' = f
      BY <3>2, <3>3
    <3>5. QED
      BY <3>4 DEF LevelOK, Stage
  <2>2. CASE l <= k
    <3>1. PICK f : f = Level(t, l)
      OBVIOUS
    <3>2. l \in 1..k /\ l \in 1..Depth(t) /\ Level(t, l)' = f
      BY <1>1, <2>2, <3>1 DEF Onto
    <3>3. f.step # "append"
      <4>1. l < Depth(t) => f.step \notin OnTop
        BY <3>1, <3>2 DEF StackOK
      <4>2. l = Depth(t) => stack[t] # <<>> /\ f = Top(t) /\ k = Depth(t)
        BY <1>1, <2>2, <3>1, Levels
      <4>3. QED
        BY <1>1, <3>2, <4>1, <4>2 DEF OnTop
    <3>4. LevelOK(f)
      BY <3>1, <3>2 DEF StatusOK
    <3>5. ASSUME NEW c \in Commands', Has(Holds(f), c), ~(f.step = "release" /\ c = Head(f.todo))
          PROVE  c \notin finished' /\ Stage(f, c)'
      <4>1. c \in Commands \ C
        BY <3>1, <3>2, <3>5
      <4>2. c \notin finished /\ Stage(f, c)
        BY <3>4, <3>5, <4>1 DEF LevelOK
      <4>3. Status(c)' = Status(c) /\ c \notin finished'
        BY <4>1, <4>2 DEF StatusBut, Live
      <4>4. QED
        BY <4>2, <4>3 DEF Stage
    <3>6. LevelOK(f)'
      BY <3>5, Zenon DEF LevelOK
    <3>7. QED
      BY <3>2, <3>3, <3>6 DEF LevelOK, Stage
  <2>3. QED
    BY <1>1, <2>1, <2>2
<1>3. QED
  BY <1>2 DEF StatusOK

\* What is linked was linked.
LEMMA RootsOnto ==
  ASSUME TypeOK, NEW t \in Threads, StatusOK(t), Later, Commands' = Commands,
         NEW k, NEW new, Len(new) \in Nat, Onto(t, k, new),
         k = Depth(t) \/ (stack[t] # <<>> /\ k = Depth(t) - 1 /\ Top(t).step # "stamp"),
         NEW C, StatusBut(t, C),
         \A q \in Queues, d \in Commands : Has(root'[q], d) => Has(root[q], d) /\ d \notin C
  PROVE  RootsOK(t)'
<1>1. Depth(t) \in Nat /\ k \in Nat /\ k <= Depth(t) /\ Depth(t)' = k + Len(new)
  BY Levels DEF Onto
<1>2. ASSUME NEW d, Stamps(t, d)
      PROVE  Stamps(t, d)'
  <2>1. PICK l \in 1..Depth(t) : Level(t, l).step = "stamp" /\ Level(t, l).c = d
    BY <1>2 DEF Stamps
  <2>2. l \in 1..k
    BY <1>1, <2>1, Levels
  <2>3. l \in 1..Depth(t)' /\ Level(t, l)' = Level(t, l)
    BY <1>1, <2>2 DEF Onto
  <2>4. \E m \in 1..Depth(t)' : Level(t, m)'.step = "stamp" /\ Level(t, m)'.c = d
    BY <2>1, <2>3
  <2>5. QED
    BY <2>4, Zenon DEF Stamps
<1>3. ASSUME NEW q \in Queues, NEW d \in Commands', Has(root'[q], d)
      PROVE  d \notin finished' /\ (Status(d)' = "QUEUED" \/ Stamps(t, d)')
  <2>1. d \in Commands \ C /\ Has(root[q], d)
    BY <1>3
  <2>2. d \notin finished /\ (Status(d) = "QUEUED" \/ Stamps(t, d))
    BY <2>1 DEF StatusOK, RootsOK
  <2>3. d \notin finished' /\ Status(d)' = Status(d)
    BY <2>1, <2>2 DEF StatusBut, Live
  <2>4. QED
    BY <1>2, <2>2, <2>3
<1>4. QED
  BY <1>3 DEF RootsOK, Has

\* One status is written, that of a live command.
LEMMA StatusOfOne ==
  ASSUME TypeOK, NEW t \in Threads, CellsOK(t), Later, UNCHANGED command,
         NEW c \in Commands, Live(t, c), NEW s,
         event' = [event EXCEPT ![command[c].event].status = s],
         finished' \subseteq finished \cup {c}
  PROVE  StatusBut(t, {c}) /\ Status(c)' = s
<1>1. command[c].event \in Events
  BY CommandTyped
<1>2. \A e \in Events : event'[e].status = IF e = command[c].event THEN s ELSE event[e].status
  <2>1. PICK x : x = command[c].event
    OBVIOUS
  <2>2. x \in Events /\ event' = [event EXCEPT ![x].status = s]
    BY <1>1, <2>1
  <2>3. QED
    BY <2>1, <2>2, StatusWritten
<1>3. ASSUME NEW d \in Commands, d # c, Live(t, d)
      PROVE  Status(d)' = Status(d)
  <2>1. command[d].event # command[c].event
    BY <1>3 DEF CellsOK
  <2>2. QED
    BY <1>2, <2>1, CommandTyped DEF Status
<1>4. QED
  BY <1>1, <1>2, <1>3 DEF StatusBut, Status

LEMMA StatusOfNone ==
  ASSUME TypeOK, NEW t, UNCHANGED <<command, finished>>, StatusKept \/ UNCHANGED event
  PROVE  StatusBut(t, {})
BY CommandTyped DEF StatusBut, Status, StatusKept

\* What the top step holds is nowhere else.
LEMMA NotElsewhere ==
  ASSUME TypeOK, NEW t \in Threads, PlacesOK(t), stack[t] # <<>>, NEW c, Has(Holds(Top(t)), c)
  PROVE  /\ \A l \in 1..Depth(t) : l # Depth(t) => ~Has(Holds(Level(t, l)), c)
         /\ \A q \in Queues : ~Has(root[q], c)
<1>1. Depth(t) \in 1..Depth(t) /\ Level(t, Depth(t)) = Top(t)
  BY Levels
<1>2. Has(Held(t, Depth(t)), c) /\ \A l \in 1..Depth(t) : Held(t, l) = Holds(Level(t, l))
  BY <1>1 DEF Held
<1>3. QED
  BY <1>2 DEF PlacesOK, HomesOK

\* The top step becomes f, under steps that hold nothing.
LEMMA StatusCovered ==
  ASSUME TypeOK, NEW t \in Threads, PlacesOK(t), StatusOK(t), Later, UNCHANGED command,
         stack[t] # <<>>, Top(t).step # "stamp",
         NEW s \in Seq(Steps), NEW f \in Steps, Replace(t, s \o <<f>>), f.step # "append", LevelOK(f)',
         \A i \in 1..Len(s) : Holds(s[i]) = <<>> /\ s[i].step # "append",
         NEW C, StatusBut(t, C),
         \A l \in 1..Depth(t) : l # Depth(t) => \A c \in C : ~Has(Holds(Level(t, l)), c),
         \A q \in Queues, d \in Commands : Has(root'[q], d) => Has(root[q], d) /\ d \notin C
  PROVE  StatusOK(t)'
<1>1. PICK new : new = s \o <<f>>
  OBVIOUS
<1>2. PICK o : o = <<f>>
  OBVIOUS
<1>3. o \in Seq(Steps) /\ Len(o) = 1 /\ o[1] = f
  BY <1>2
<1>4. /\ new \in Seq(Steps) /\ Len(s) \in Nat /\ Len(new) = Len(s) + 1
      /\ \A i \in 1..Len(s) + 1 : new[i] = IF i <= Len(s) THEN s[i] ELSE o[i - Len(s)]
  BY <1>1, <1>2, <1>3, ConcatProperties, LenProperties
<1>5. Onto(t, Depth(t) - 1, new) /\ Len(new) \in Nat
  <2>1. Replace(t, new) /\ Steps \subseteq Steps /\ new \in Seq(Steps)
    BY <1>1, <1>4
  <2>2. Onto(t, Depth(t) - 1, new)
    BY <2>1, Replaced
  <2>3. Len(new) \in Nat
    BY <1>4
  <2>4. QED
    BY <2>2, <2>3
<1>6. ASSUME NEW i \in 1..Len(new)
      PROVE  LevelOK(new[i])' /\ new[i].step # "append"
  <2>1. CASE i <= Len(s)
    <3>1. PICK g : g = new[i]
      OBVIOUS
    <3>2. i \in 1..Len(s) /\ g = s[i] /\ new[i] = g
      BY <1>4, <2>1, <3>1
    <3>3. Holds(g) = <<>> /\ g.step # "append"
      BY <3>2
    <3>4. LevelOK(g)'
      BY <3>3, HasNothing DEF LevelOK
    <3>5. QED
      BY <3>2, <3>3, <3>4
  <2>2. CASE ~(i <= Len(s))
    <3>1. i - Len(s) = 1
      BY <1>4, <2>2
    <3>2. new[i] = f
      BY <1>3, <1>4, <2>2, <3>1
    <3>3. QED
      BY <3>2
  <2>3. QED
    BY <2>1, <2>2
<1>7. Commands' = Commands
  BY DEF Commands
<1>8. PICK k : k = Depth(t) - 1
  OBVIOUS
<1>9. Onto(t, k, new)
  BY <1>5, <1>8
<1>10. RootsOK(t)'
  BY <1>5, <1>7, <1>8, <1>9, RootsOnto
<1>11. \A l \in 1..k, c \in C : ~Has(Holds(Level(t, l)), c)
  <2>1. Depth(t) \in Nat
    BY Levels
  <2>2. \A l \in 1..k : l \in 1..Depth(t) /\ l # Depth(t)
    BY <1>8, <2>1
  <2>3. QED
    BY <2>2
<1>12. QED
  BY <1>5, <1>6, <1>7, <1>8, <1>9, <1>10, <1>11, StatusOnto DEF PlacesOK

\* The same without steps above f.
LEMMA StatusReplaced ==
  ASSUME TypeOK, NEW t \in Threads, PlacesOK(t), StatusOK(t), Later, UNCHANGED command,
         stack[t] # <<>>, Top(t).step # "stamp",
         NEW f \in Steps, Replace(t, <<f>>), f.step # "append", LevelOK(f)',
         NEW C, StatusBut(t, C),
         \A l \in 1..Depth(t) : l # Depth(t) => \A c \in C : ~Has(Holds(Level(t, l)), c),
         \A q \in Queues, d \in Commands : Has(root'[q], d) => Has(root[q], d) /\ d \notin C
  PROVE  StatusOK(t)'
<1>1. PICK s : s = <<>>
  OBVIOUS
<1>2. s \in Seq(Steps) /\ Len(s) = 0 /\ 1..Len(s) = {} /\ s \o <<f>> = <<f>>
  BY <1>1
<1>3. Replace(t, s \o <<f>>)
  BY <1>2
<1>4. QED
  BY <1>2, <1>3, StatusCovered

\* A step that holds nothing leaves, and no status changes.
LEMMA StatusLeft ==
  ASSUME TypeOK, NEW t \in Threads, PlacesOK(t), StatusOK(t), Later, UNCHANGED <<command, root>>,
         stack[t] # <<>>, Top(t).step # "stamp", Replace(t, <<>>), StatusBut(t, {})
  PROVE  StatusOK(t)'
<1>1. PICK s, C, k : s = <<>> /\ C = {} /\ k = Depth(t) - 1
  OBVIOUS
<1>2. s \in Seq(Steps) /\ Len(s) = 0 /\ Len(s) \in Nat /\ 1..Len(s) = {} /\ Replace(t, s)
  BY <1>1
<1>3. Onto(t, k, s) /\ StatusBut(t, C) /\ Commands' = Commands
  BY <1>1, <1>2, Replaced DEF Commands
<1>4. RootsOK(t)'
  <2>1. \A q \in Queues, d \in Commands : Has(root'[q], d) => Has(root[q], d) /\ d \notin C
    BY <1>1
  <2>2. QED
    BY <1>1, <1>2, <1>3, <2>1, RootsOnto
<1>5. (\A l \in 1..k, c \in C : ~Has(Holds(Level(t, l)), c)) /\ StackOK(t)
  BY <1>1 DEF PlacesOK
<1>6. QED
  BY <1>1, <1>2, <1>3, <1>4, <1>5, StatusOnto

\* What top step f goes on to hold it held.
LEMMA LevelTo ==
  ASSUME TypeOK, NEW t \in Threads, StatusOK(t), Later, UNCHANGED command, stack[t] # <<>>,
         NEW f, NEW C, StatusBut(t, C),
         \A d \in Commands : Has(Holds(f), d) => Has(Holds(Top(t)), d) /\ d \notin C,
         \/ Top(t).step \in {"scan", "submit", "run"} /\ f.step \in {"scan", "submit", "run"}
         \/ Top(t).step = "release" /\ f.step = "run" /\ ~Has(Holds(f), Head(Top(t).todo))
  PROVE  LevelOK(f)'
<1>1. LevelOK(Top(t))
  <2>1. Depth(t) \in 1..Depth(t) /\ Level(t, Depth(t)) = Top(t)
    BY Levels
  <2>2. QED
    BY <2>1 DEF StatusOK
<1>2. ASSUME NEW d \in Commands', Has(Holds(f), d)
      PROVE  d \notin finished' /\ Stage(f, d)'
  <2>1. d \in Commands \ C /\ Has(Holds(Top(t)), d)
    BY <1>2 DEF Commands
  <2>2. d \notin finished /\ Stage(Top(t), d)
    BY <1>1, <1>2, <2>1 DEF LevelOK
  <2>3. Status(d) = "SUBMITTED"
    BY <2>2 DEF Stage
  <2>4. Status(d)' = "SUBMITTED" /\ d \notin finished'
    BY <2>1, <2>2, <2>3 DEF StatusBut, Live
  <2>5. f.step # "complete"
    OBVIOUS
  <2>6. QED
    BY <2>4, <2>5 DEF Stage
<1>3. QED
  BY <1>2, Zenon DEF LevelOK

\* The loop of clFinish moves no command and writes no status.
LEMMA LoopKeepsStatus ==
  ASSUME TypeOK, NEW t \in Threads, PlacesOK(t), StatusOK(t), Later,
         LockQueue(t) \/ Scan(t) \/ UnlockQueue(t)
  PROVE  StatusOK(t)'
<1>1. UNCHANGED <<root, event, command, finished>>
  BY DEF LockQueue, Scan, UnlockQueue
<1>2. PICK C : C = {}
  OBVIOUS
<1>3. /\ StatusBut(t, C)
      /\ \A l \in 1..Depth(t) : l # Depth(t) => \A c \in C : ~Has(Holds(Level(t, l)), c)
      /\ \A q \in Queues, d \in Commands : Has(root'[q], d) => Has(root[q], d) /\ d \notin C
  BY <1>1, <1>2, StatusOfNone
<1>4. ASSUME stack[t] # <<>>, NEW f \in Steps, Replace(t, <<f>>), f.step \in {"scan", "submit", "run"},
             Holds(f) = <<>> \/ (Top(t).step = "scan" /\ Holds(f) = Holds(Top(t))),
             Top(t).step \in {"lock", "scan"}
      PROVE  StatusOK(t)'
  <2>1. LevelOK(f)'
    <3>1. CASE Holds(f) = <<>>
      BY <3>1, HasNothing DEF LevelOK
    <3>2. CASE Top(t).step = "scan" /\ Holds(f) = Holds(Top(t))
      <4>1. \A d \in Commands : Has(Holds(f), d) => Has(Holds(Top(t)), d) /\ d \notin C
        BY <1>2, <3>2
      <4>2. Top(t).step \in {"scan", "submit", "run"} /\ f.step \in {"scan", "submit", "run"}
        BY <1>4, <3>2
      <4>3. QED
        BY <1>1, <1>3, <1>4, <4>1, <4>2, LevelTo
    <3>3. QED
      BY <1>4, <3>1, <3>2
  <2>2. Top(t).step # "stamp" /\ f.step # "append"
    BY <1>4
  <2>3. QED
    BY <1>1, <1>3, <1>4, <2>1, <2>2, StatusReplaced
<1>5. CASE LockQueue(t)
  <2>1. stack[t] # <<>> /\ Top(t) \in LockSteps
    BY <1>5, LockView
  <2>2. PICK f \in ScanSteps : Replace(t, <<f>>) /\ f.ready = <<>>
    BY <1>5, LockView
  <2>3. f \in Steps /\ f.step = "scan" /\ Top(t).step = "lock"
    BY <2>1, <2>2 DEF ScanSteps, LockSteps, Steps
  <2>4. Holds(f) = <<>>
    BY <2>2, <2>3, HoldsKinds
  <2>5. QED
    BY <1>4, <2>1, <2>2, <2>3, <2>4
<1>6. CASE Scan(t)
  <2>1. stack[t] # <<>> /\ Top(t) \in ScanSteps /\ Top(t).step = "scan"
    BY <1>6, ScanView DEF ScanSteps
  <2>2. PICK f \in Steps : Replace(t, <<f>>) /\ (Turns(t, f) \/ Takes(t, f))
    BY <1>6, ScanView
  <2>3. \/ f.step = "scan" /\ f.ready = Top(t).ready
        \/ f.step = "submit" /\ Front(f.ready) = Top(t).ready
    BY <2>2 DEF Turns, Takes, ScanSteps, SubmitSteps
  <2>4. Holds(f) = Holds(Top(t))
    BY <2>1, <2>3, HoldsKinds
  <2>5. QED
    BY <1>4, <2>1, <2>2, <2>3, <2>4
<1>7. CASE UnlockQueue(t)
  <2>1. stack[t] # <<>> /\ Top(t) \in ScanSteps
    BY <1>7, UnlockView
  <2>2. PICK f \in RunSteps : Replace(t, <<f>>) /\ f.todo = Top(t).ready
    BY <1>7, UnlockView
  <2>3. f \in Steps /\ f.step = "run" /\ Top(t).step = "scan"
    BY <2>1, <2>2 DEF ScanSteps, RunSteps, Steps
  <2>4. Holds(f) = Holds(Top(t))
    BY <2>2, <2>3, HoldsKinds
  <2>5. QED
    BY <1>4, <2>1, <2>2, <2>3, <2>4
<1>8. QED
  BY <1>5, <1>6, <1>7

\* A step that holds nothing returns.
LEMMA ReturnKeepsStatus ==
  ASSUME TypeOK, NEW t \in Threads, PlacesOK(t), StatusOK(t), Later,
         CallbackReturns(t) \/ Return(t) \/ UnrefQueue(t) \/ RecycleEvent(t)
  PROVE  StatusOK(t)'
<1>1. /\ stack[t] # <<>> /\ Replace(t, <<>>) /\ UNCHANGED <<root, event, command, finished>>
      /\ Top(t).step # "stamp"
  BY DEF CallbackReturns, Return, UnrefQueue, RecycleEvent, At, Top
<1>2. StatusBut(t, {})
  BY <1>1, StatusOfNone
<1>3. QED
  BY <1>1, <1>2, StatusLeft

\* A status is about to be written below the top step, which leaves.
LEMMA StampsBelow ==
  ASSUME TypeOK, NEW t \in Threads, stack[t] # <<>>, Replace(t, <<>>),
         NEW d, Stamps(t, d), ~(Top(t).step = "stamp" /\ Top(t).c = d)
  PROVE  Stamps(t, d)'
<1>1. PICK l \in 1..Depth(t) : Level(t, l).step = "stamp" /\ Level(t, l).c = d
  BY DEF Stamps
<1>2. /\ Depth(t) \in Nat /\ Depth(t)' = Depth(t) - 1
      /\ \A m \in 1..Depth(t)' : Level(t, m)' = Level(t, m)
  BY TopLeaves
<1>3. l # Depth(t)
  BY <1>1, Levels
<1>4. l \in 1..Depth(t)' /\ Level(t, l)' = Level(t, l)
  BY <1>2, <1>3
<1>5. \E m \in 1..Depth(t)' : Level(t, m)'.step = "stamp" /\ Level(t, m)'.c = d
  BY <1>1, <1>4
<1>6. QED
  BY <1>5, Zenon DEF Stamps

\* The top step leaves, whatever it wrote.
LEMMA StatusUnder ==
  ASSUME TypeOK, NEW t \in Threads, PlacesOK(t), StatusOK(t), Later, UNCHANGED command,
         stack[t] # <<>>, Replace(t, <<>>), NEW C, StatusBut(t, C),
         \A l \in 1..Depth(t) : l # Depth(t) => \A c \in C : ~Has(Holds(Level(t, l)), c),
         RootsOK(t)'
  PROVE  StatusOK(t)'
<1>1. PICK s, k : s = <<>> /\ k = Depth(t) - 1
  OBVIOUS
<1>2. s \in Seq(Steps) /\ Len(s) = 0 /\ Len(s) \in Nat /\ 1..Len(s) = {} /\ Replace(t, s)
  BY <1>1
<1>3. Onto(t, Depth(t) - 1, s) /\ Commands' = Commands
  BY <1>2, Replaced DEF Commands
<1>4. Onto(t, k, s)
  BY <1>1, <1>3
<1>5. \A l \in 1..k, c \in C : ~Has(Holds(Level(t, l)), c)
  <2>1. Depth(t) \in Nat
    BY Levels
  <2>2. \A l \in 1..k : l \in 1..Depth(t) /\ l # Depth(t)
    BY <1>1, <2>1
  <2>3. QED
    BY <2>2
<1>6. StackOK(t)
  BY DEF PlacesOK
<1>7. QED
  BY <1>1, <1>2, <1>3, <1>4, <1>5, <1>6, StatusOnto

\* A command is linked before its status is written.
LEMMA AppendKeepsStatus ==
  ASSUME TypeOK, NEW t \in Threads, PlacesOK(t), StatusOK(t), Later, AppendCommand(t)
  PROVE  StatusOK(t)'
<1>1. PICK c, p : c = Top(t).c /\ p = Top(t).q
  OBVIOUS
<1>2. /\ stack[t] # <<>> /\ Top(t) \in EnqueueSteps /\ Top(t).step = "append"
      /\ Replace(t, <<>>) /\ UNCHANGED <<event, command, finished>>
      /\ root' = [root EXCEPT ![p] = Append(@, c)]
  BY <1>1, AtTyped, StepKinds DEF AppendCommand
<1>3. p \in Queues /\ c \in Commands
  BY <1>1, <1>2 DEF EnqueueSteps
<1>4. Depth(t) \in 1..Depth(t) /\ Level(t, Depth(t)) = Top(t)
  BY <1>2, Levels
<1>5. c \notin finished /\ Stamps(t, c)
  <2>1. LevelOK(Top(t)) /\ Stamps(t, c)
    BY <1>1, <1>2, <1>4 DEF StatusOK
  <2>2. Has(Holds(Top(t)), c)
    BY <1>1, <1>2, HoldsKinds, HasOne
  <2>3. QED
    BY <1>2, <1>3, <2>1, <2>2 DEF LevelOK
<1>6. ASSUME NEW q \in Queues, NEW d \in Commands, Has(root'[q], d)
      PROVE  Has(root[q], d) \/ d = c
  <2>1. CASE q = p
    <3>1. root[p] \in Seq(Commands) /\ root'[q] = Append(root[p], c)
      BY <1>2, <1>3, <2>1 DEF TypeOK
    <3>2. Has(Append(root[p], c), d) <=> Has(root[p], d) \/ d = c
      BY <1>3, <3>1, HasAppended
    <3>3. QED
      BY <1>6, <2>1, <3>1, <3>2
  <2>2. CASE q # p
    BY <1>2, <1>6, <2>2 DEF TypeOK
  <2>3. QED
    BY <2>1, <2>2
<1>7. RootsOK(t)'
  <2>1. ASSUME NEW q \in Queues, NEW d \in Commands', Has(root'[q], d)
        PROVE  d \notin finished' /\ (Status(d)' = "QUEUED" \/ Stamps(t, d)')
    <3>1. d \in Commands /\ (Has(root[q], d) \/ d = c)
      BY <1>2, <1>6, <2>1 DEF Commands
    <3>2. d \notin finished /\ (Status(d) = "QUEUED" \/ Stamps(t, d))
      BY <1>5, <3>1 DEF StatusOK, RootsOK
    <3>3. Stamps(t, d) => Stamps(t, d)'
      BY <1>2, StampsBelow
    <3>4. QED
      BY <1>2, <3>2, <3>3 DEF Status
  <2>2. QED
    BY <2>1 DEF RootsOK, Has
<1>8. PICK C : C = {}
  OBVIOUS
<1>9. StatusBut(t, C)
  BY <1>2, <1>8, StatusOfNone
<1>10. QED
  BY <1>2, <1>7, <1>8, <1>9, StatusUnder

\* The status of a new command is written when it is linked, not yet taken.
LEMMA StampKeepsStatus ==
  ASSUME TypeOK, NEW t \in Threads, PlacesOK(t), NestOK(t), CellsOK(t), StatusOK(t), Later,
         StampQueued(t)
  PROVE  StatusOK(t)'
<1>1. PICK c, p : c = Top(t).c /\ p = Top(t).q
  OBVIOUS
<1>2. /\ stack[t] # <<>> /\ Top(t) \in EnqueueSteps /\ Top(t).step = "stamp"
      /\ Replace(t, <<>>) /\ UNCHANGED <<root, command, finished>>
      /\ event' = [event EXCEPT ![command[c].event].status = "QUEUED"]
  BY <1>1, AtTyped, StepKinds DEF StampQueued
<1>3. p \in Queues /\ c \in Commands
  BY <1>1, <1>2 DEF EnqueueSteps
<1>4. Depth(t) \in 1..Depth(t) /\ Level(t, Depth(t)) = Top(t)
  BY <1>2, Levels
<1>5. Has(root[p], c)
  BY <1>1, <1>2, <1>4 DEF NestOK
<1>6. c \notin finished /\ Live(t, c)
  BY <1>3, <1>5 DEF StatusOK, RootsOK, Live
<1>7. StatusBut(t, {c}) /\ Status(c)' = "QUEUED"
  <2>1. PICK s : s = "QUEUED"
    OBVIOUS
  <2>2. event' = [event EXCEPT ![command[c].event].status = s]
    BY <1>2, <2>1
  <2>3. QED
    BY <1>2, <1>3, <1>6, <2>1, <2>2, StatusOfOne
<1>8. \A l \in 1..Depth(t) : ~Has(Holds(Level(t, l)), c)
  <2>1. \A l : ~Has(Held(t, l), c)
    BY <1>3, <1>5 DEF PlacesOK, HomesOK
  <2>2. QED
    BY <2>1 DEF Held
<1>9. RootsOK(t)'
  <2>1. ASSUME NEW q \in Queues, NEW d \in Commands', Has(root'[q], d)
        PROVE  d \notin finished' /\ (Status(d)' = "QUEUED" \/ Stamps(t, d)')
    <3>1. d \in Commands /\ Has(root[q], d)
      BY <1>2, <2>1 DEF Commands
    <3>2. d \notin finished /\ (Status(d) = "QUEUED" \/ Stamps(t, d))
      BY <3>1 DEF StatusOK, RootsOK
    <3>3. d # c /\ Stamps(t, d) => Stamps(t, d)'
      BY <1>1, <1>2, StampsBelow
    <3>4. d # c => Status(d)' = Status(d)
      BY <1>7, <3>1, <3>2 DEF StatusBut, Live
    <3>5. QED
      BY <1>2, <1>7, <3>2, <3>3, <3>4
  <2>2. QED
    BY <2>1 DEF RootsOK, Has
<1>10. PICK C : C = {c}
  OBVIOUS
<1>11. /\ StatusBut(t, C)
       /\ \A l \in 1..Depth(t) : l # Depth(t) => \A d \in C : ~Has(Holds(Level(t, l)), d)
  BY <1>7, <1>8, <1>10
<1>12. QED
  BY <1>2, <1>9, <1>11, StatusUnder

\* The command a flush takes is QUEUED and becomes SUBMITTED.
LEMMA SubmitKeepsStatus ==
  ASSUME TypeOK, NEW t \in Threads, PlacesOK(t), NestOK(t), CellsOK(t), StatusOK(t), Later, Submit(t)
  PROVE  StatusOK(t)' /\ UNCHANGED aborted
<1>1. PICK c, p : c = Last(Top(t).ready) /\ p = Top(t).hand
  OBVIOUS
<1>2. /\ stack[t] # <<>> /\ Top(t) \in SubmitSteps /\ root[p] # <<>> /\ c = Head(root[p])
      /\ UNCHANGED <<command, finished>>
  BY <1>1, SubmitView DEF PlacesOK, Submit
<1>3. /\ p \in Queues /\ Top(t).step = "submit" /\ Top(t).ready \in Seq(Commands) /\ Top(t).ready # <<>>
  BY <1>1, <1>2 DEF SubmitSteps
<1>4. /\ root[p] \in Seq(Commands) /\ c \in Commands
      /\ \A d : Has(root[p], d) <=> Has(Tail(root[p]), d) \/ d = c
      /\ ~Has(Tail(root[p]), c)
  <2>1. root[p] \in Seq(Commands) /\ Distinct(root[p])
    BY <1>3 DEF TypeOK, PlacesOK, HomesOK
  <2>2. QED
    BY <1>2, <2>1, HasTail, HeadTailProperties
<1>5. \A d : Has(Top(t).ready, d) <=> Has(Holds(Top(t)), d) \/ d = c
  BY <1>1, <1>3, HasFront, HoldsKinds
<1>6. c \notin finished /\ Live(t, c) /\ Status(c) = "QUEUED"
  <2>1. c \notin finished /\ (Status(c) = "QUEUED" \/ Stamps(t, c))
    BY <1>3, <1>4 DEF StatusOK, RootsOK
  <2>2. ~Stamps(t, c)
    <3>1. SUFFICES ASSUME NEW l \in 1..Depth(t), Level(t, l).step = "stamp"
                   PROVE  FALSE
      BY DEF Stamps
    <3>2. Depth(t) \in Nat /\ Level(t, Depth(t)) = Top(t)
      BY <1>2, Levels
    <3>3. l # Depth(t)
      BY <1>3, <3>1, <3>2
    <3>4. l < Depth(t)
      BY <3>2, <3>3
    <3>5. QED
      BY <1>2, <1>3, <3>1, <3>4, NoLockBelow DEF PlacesOK, Enqueues
  <2>3. QED
    BY <2>1, <2>2 DEF Live
<1>7. PICK s : s = "SUBMITTED"
  OBVIOUS
<1>8. /\ event' = [event EXCEPT ![command[c].event].status = s]
      /\ root' = [root EXCEPT ![p] = Tail(@)]
      /\ UNCHANGED aborted
      /\ \E f \in ScanSteps : Replace(t, <<f>>) /\ Turns(t, f)
  BY <1>1, <1>6, <1>7, SubmitView DEF PlacesOK, Status
<1>9. PICK f \in ScanSteps : Replace(t, <<f>>) /\ f.ready = Top(t).ready
  BY <1>8 DEF Turns
<1>10. f \in Steps /\ f.step = "scan" /\ Holds(f) = Top(t).ready
  BY <1>9, HoldsKinds DEF ScanSteps, Steps
<1>11. PICK C : C = {c}
  OBVIOUS
<1>12. StatusBut(t, C) /\ Status(c)' = "SUBMITTED"
  BY <1>2, <1>4, <1>6, <1>7, <1>8, <1>11, StatusOfOne
<1>13. \A l \in 1..Depth(t) : l # Depth(t) => \A d \in C : ~Has(Holds(Level(t, l)), d)
  <2>1. \A l : ~Has(Held(t, l), c)
    BY <1>3, <1>4 DEF PlacesOK, HomesOK
  <2>2. QED
    BY <1>11, <2>1 DEF Held
<1>14. \A q \in Queues, d \in Commands : Has(root'[q], d) => Has(root[q], d) /\ d \notin C
  <2>1. \A q \in Queues : Has(root[q], c) => q = p
    BY <1>3, <1>4 DEF PlacesOK, HomesOK
  <2>2. \A q \in Queues : root'[q] = IF q = p THEN Tail(root[p]) ELSE root[q]
    BY <1>3, <1>8 DEF TypeOK
  <2>3. QED
    BY <1>4, <1>11, <2>1, <2>2
<1>15. LevelOK(f)'
  <2>1. LevelOK(Top(t))
    BY <1>2, Levels DEF StatusOK
  <2>2. ASSUME NEW d \in Commands', Has(Holds(f), d)
        PROVE  d \notin finished' /\ Stage(f, d)'
    <3>1. CASE d = c
      BY <1>2, <1>6, <1>10, <1>12, <3>1 DEF Stage
    <3>2. CASE d # c
      <4>1. d \in Commands \ C /\ Has(Holds(Top(t)), d)
        BY <1>2, <1>5, <1>10, <1>11, <2>2, <3>2 DEF Commands
      <4>2. d \notin finished /\ Status(d) = "SUBMITTED"
        BY <1>3, <2>1, <4>1 DEF LevelOK, Stage
      <4>3. Status(d)' = "SUBMITTED"
        BY <1>12, <4>1, <4>2 DEF StatusBut, Live
      <4>4. QED
        BY <1>2, <1>10, <4>2, <4>3 DEF Stage
    <3>3. QED
      BY <3>1, <3>2
  <2>3. QED
    BY <2>2, Zenon DEF LevelOK
<1>16. StatusOK(t)'
  <2>1. Top(t).step # "stamp" /\ f.step # "append"
    BY <1>3, <1>10
  <2>2. QED
    BY <1>2, <1>9, <1>10, <1>12, <1>13, <1>14, <1>15, <2>1, StatusReplaced
<1>17. QED
  BY <1>8, <1>16

\* A command starts, or completes, with the status the asserts ask for.
LEMMA ExecutionKeepsStatus ==
  ASSUME TypeOK, NEW t \in Threads, PlacesOK(t), CellsOK(t), StatusOK(t), Later,
         StartCommand(t) \/ CompleteCommand(t)
  PROVE  StatusOK(t)' /\ UNCHANGED aborted /\ Head(Top(t).todo) \notin finished
<1>1. PICK c : c = Head(Top(t).todo)
  OBVIOUS
<1>2. /\ stack[t] # <<>> /\ Top(t).todo \in Seq(Commands) /\ Top(t).todo # <<>>
      /\ UNCHANGED <<root, command>>
      /\ StartCommand(t) => Top(t).step = "run"
      /\ CompleteCommand(t) => Top(t).step = "complete"
  BY StartView, CompleteView DEF RunSteps, BusySteps, StartCommand, CompleteCommand
<1>3. Top(t).step \in {"run", "complete"} /\ Holds(Top(t)) = Top(t).todo
  BY <1>2, HoldsKinds
<1>4. c \in Commands /\ Has(Holds(Top(t)), c)
  <2>1. Distinct(Top(t).todo)
    BY <1>2, <1>3, HeldTop DEF PlacesOK, HomesOK
  <2>2. QED
    BY <1>1, <1>2, <1>3, <2>1, HasTail, HeadTailProperties
<1>5. LevelOK(Top(t))
  BY <1>2, Levels DEF StatusOK
<1>6. /\ c \notin finished /\ Live(t, c)
      /\ StartCommand(t) => Status(c) = "SUBMITTED"
      /\ CompleteCommand(t) => Status(c) = "RUNNING"
  BY <1>1, <1>2, <1>3, <1>4, <1>5 DEF LevelOK, Stage, Live
<1>7. PICK s : s = IF StartCommand(t) THEN "RUNNING" ELSE "COMPLETE"
  OBVIOUS
<1>8. event' = [event EXCEPT ![command[c].event].status = s] /\ UNCHANGED aborted
  <2>1. CASE StartCommand(t)
    BY <1>1, <1>6, <1>7, <2>1 DEF StartCommand, MoveStatus, Status
  <2>2. CASE CompleteCommand(t) /\ ~StartCommand(t)
    BY <1>1, <1>6, <1>7, <2>2 DEF CompleteCommand, MoveStatus, Status
  <2>3. QED
    BY <2>1, <2>2
<1>9. finished' \subseteq finished \cup {c}
  BY <1>1 DEF StartCommand, CompleteCommand
<1>10. PICK C : C = {c}
  OBVIOUS
<1>11. StatusBut(t, C) /\ Status(c)' = s
  BY <1>2, <1>4, <1>6, <1>8, <1>9, <1>10, StatusOfOne
<1>12. /\ \A l \in 1..Depth(t) : l # Depth(t) => \A d \in C : ~Has(Holds(Level(t, l)), d)
       /\ \A q \in Queues, d \in Commands : Has(root'[q], d) => Has(root[q], d) /\ d \notin C
  BY <1>2, <1>4, <1>10, NotElsewhere
<1>13. ASSUME NEW f, f.todo = Top(t).todo,
              \/ StartCommand(t) /\ f.step = "complete" /\ c \notin finished'
              \/ CompleteCommand(t) /\ f.step = "release"
       PROVE  LevelOK(f)'
  <2>1. Holds(f) = Top(t).todo
    BY <1>13, HoldsKinds
  <2>2. ASSUME NEW d \in Commands', Has(Holds(f), d), d # c
        PROVE  d \notin finished' /\ Status(d)' = "SUBMITTED"
    <3>1. d \in Commands \ C /\ Has(Holds(Top(t)), d)
      BY <1>2, <1>3, <1>10, <2>1, <2>2 DEF Commands
    <3>2. d \notin finished /\ Status(d) = "SUBMITTED"
      BY <1>1, <1>3, <1>5, <2>2, <3>1 DEF LevelOK, Stage
    <3>3. QED
      BY <1>11, <3>1, <3>2 DEF StatusBut, Live
  <2>3. CASE StartCommand(t) /\ f.step = "complete" /\ c \notin finished'
    <3>1. Status(c)' = "RUNNING"
      BY <1>7, <1>11, <2>3
    <3>2. ASSUME NEW d \in Commands', Has(Holds(f), d)
          PROVE  d \notin finished' /\ Stage(f, d)'
      <4>1. CASE d = c
        BY <1>1, <1>13, <2>3, <3>1, <4>1 DEF Stage
      <4>2. CASE d # c
        BY <1>1, <1>13, <2>2, <2>3, <3>2, <4>2 DEF Stage
      <4>3. QED
        BY <4>1, <4>2
    <3>3. QED
      BY <3>2, Zenon DEF LevelOK
  <2>4. CASE CompleteCommand(t) /\ f.step = "release"
    <3>1. ASSUME NEW d \in Commands', Has(Holds(f), d), ~(f.step = "release" /\ d = Head(f.todo))
          PROVE  d \notin finished' /\ Stage(f, d)'
      <4>1. d # c
        BY <1>1, <1>13, <2>4, <3>1
      <4>2. QED
        BY <2>2, <2>4, <3>1, <4>1 DEF Stage
    <3>2. QED
      BY <3>1, Zenon DEF LevelOK
  <2>5. QED
    BY <1>13, <2>3, <2>4
<1>14. Top(t).step # "stamp"
  BY <1>3
<1>15. CASE StartCommand(t)
  <2>1. PICK f \in BusySteps : Replace(t, <<f>>) /\ f.step = "complete" /\ f.todo = Top(t).todo
    BY <1>15, StartView
  <2>2. f \in Steps /\ f.step # "append" /\ c \notin finished'
    BY <1>6, <1>15, <2>1 DEF StartCommand, Steps
  <2>3. LevelOK(f)'
    BY <1>13, <1>15, <2>1, <2>2
  <2>4. StatusOK(t)'
    BY <1>2, <1>11, <1>12, <1>14, <2>1, <2>2, <2>3, StatusReplaced
  <2>5. QED
    BY <1>1, <1>6, <1>8, <2>4
<1>16. CASE CompleteCommand(t)
  <2>1. PICK f \in BusySteps, w \in Seq(Steps) :
          /\ Replace(t, w \o <<f>>) /\ f.step = "release" /\ f.todo = Top(t).todo
          /\ \A i \in 1..Len(w) : w[i] = CallbackStep
    BY <1>16, CompleteView
  <2>2. f \in Steps /\ f.step # "append"
    BY <2>1 DEF Steps
  <2>3. LevelOK(f)'
    BY <1>13, <1>16, <2>1
  <2>4. \A i \in 1..Len(w) : Holds(w[i]) = <<>> /\ w[i].step # "append"
    <3>1. CallbackStep.step = "callback"
      BY DEF CallbackStep
    <3>2. Holds(CallbackStep) = <<>>
      BY <3>1, HoldsKinds
    <3>3. QED
      BY <2>1, <3>1, <3>2
  <2>5. StatusOK(t)'
    BY <1>2, <1>11, <1>12, <1>14, <2>1, <2>2, <2>3, <2>4, StatusCovered
  <2>6. QED
    BY <1>1, <1>6, <1>8, <2>5
<1>17. QED
  BY <1>15, <1>16

\* The released command leaves the execution, whose rest is SUBMITTED.
LEMMA ReleaseKeepsStatus ==
  ASSUME TypeOK, NEW t \in Threads, PlacesOK(t), StatusOK(t), Later, ReleaseImplicitEvent(t)
  PROVE  StatusOK(t)'
<1>1. PICK c, e : c = Head(Top(t).todo) /\ e = command[c].event
  OBVIOUS
<1>2. /\ stack[t] # <<>> /\ Top(t) \in BusySteps /\ Top(t).step = "release"
      /\ c \in Commands /\ e \in Events
  BY <1>1, ReleaseView
<1>3. PICK f \in RunSteps, s \in Seq(Steps) :
        /\ Replace(t, s \o <<f>>) /\ f.step = "run" /\ f.todo = Tail(Top(t).todo)
        /\ \/ s = <<>> /\ UNCHANGED event
           \/ /\ event' = [event EXCEPT ![e].refs = @ - 1]
              /\ s = IF event[e].refs = 1 THEN FreeEventSteps(e) ELSE <<>>
  BY <1>1, ReleaseView
<1>4. UNCHANGED <<root, command, finished>> /\ (StatusKept \/ UNCHANGED event)
  BY <1>2, <1>3, RefsWritten DEF ReleaseImplicitEvent
<1>5. PICK C : C = {}
  OBVIOUS
<1>6. /\ StatusBut(t, C)
      /\ \A l \in 1..Depth(t) : l # Depth(t) => \A d \in C : ~Has(Holds(Level(t, l)), d)
      /\ \A q \in Queues, d \in Commands : Has(root'[q], d) => Has(root[q], d) /\ d \notin C
  BY <1>4, <1>5, StatusOfNone
<1>7. \A i \in 1..Len(s) : Holds(s[i]) = <<>> /\ s[i].step # "append"
  <2>1. CASE s = <<>>
    <3>1. 1..Len(s) = {}
      BY <2>1
    <3>2. QED
      BY <3>1
  <2>2. CASE s = FreeEventSteps(e)
    <3>1. /\ Len(s) = 3 /\ s[1] = LockStep(event[e].queue, {}) /\ s[2] = UnrefStep(event[e].queue)
          /\ s[3] = RecycleStep(e)
      BY <1>2, <2>2, FreeSteps
    <3>2. \A i \in 1..Len(s) : i = 1 \/ i = 2 \/ i = 3
      BY <3>1
    <3>3. \A i \in 1..Len(s) : s[i].step \in {"lock", "unref", "recycle"}
      BY <3>1, <3>2 DEF LockStep, UnrefStep, RecycleStep
    <3>4. QED
      BY <3>3, HoldsKinds
  <2>3. QED
    BY <1>3, <2>1, <2>2
<1>8. Top(t).todo \in Seq(Commands) /\ Top(t).todo # <<>> /\ f \in Steps /\ Holds(f) = f.todo
      /\ Holds(Top(t)) = Top(t).todo
  BY <1>2, <1>3, HoldsKinds DEF BusySteps, Steps
<1>9. Distinct(Top(t).todo)
  BY <1>2, <1>8, HeldTop DEF PlacesOK, HomesOK
<1>10. /\ \A d \in Commands : Has(Holds(f), d) => Has(Holds(Top(t)), d) /\ d \notin C
       /\ ~Has(Holds(f), Head(Top(t).todo))
  BY <1>3, <1>5, <1>8, <1>9, HasTail
<1>11. LevelOK(f)'
  BY <1>2, <1>3, <1>4, <1>6, <1>10, LevelTo
<1>12. Top(t).step # "stamp" /\ f.step # "append"
  BY <1>2, <1>3
<1>13. QED
  BY <1>2, <1>3, <1>4, <1>6, <1>7, <1>8, <1>11, <1>12, StatusCovered

\* A call of the client writes no status.
LEMMA CallKeepsStatus ==
  ASSUME TypeOK, NEW t \in Threads, PlacesOK(t), StatusOK(t), Later, OtherCall(t)
  PROVE  StatusOK(t)'
<1>1. /\ stack[t] = <<>> /\ UNCHANGED <<root, command, finished>> /\ Commands' = Commands
      /\ Depth(t) = 0 /\ ClientPushes(t)
  BY CallView, Levels DEF Commands
<1>2. StatusKept \/ UNCHANGED event
  <2>1. CASE \E q \in Queues : Finish(t, q) \/ RetainQueue(t, q) \/ ReleaseQueue(t, q)
    BY <2>1 DEF Finish, RetainQueue, ReleaseQueue
  <2>2. ASSUME NEW e \in Events, RetainEvent(t, e) \/ ReleaseEvent(t, e)
        PROVE  StatusKept
    <3>1. \E n, m : Counts(t, e, n, m)
      <4>1. PICK n, m, i, j : /\ n = event[e].refs + 1 /\ m = event[e].user + 1
                              /\ i = event[e].refs - 1 /\ j = event[e].user - 1
        OBVIOUS
      <4>2. Counts(t, e, n, m) \/ Counts(t, e, i, j)
        BY <2>2, <4>1 DEF Counts
      <4>3. QED
        BY <4>2
    <3>2. QED
      BY <3>1, ReferencesWritten
  <2>3. ASSUME NEW e \in Events, WaitForEvent(t, e)
        PROVE  UNCHANGED event
    BY <2>3 DEF WaitForEvent
  <2>4. ASSUME NEW e \in Events, SetEventCallback(t, e)
        PROVE  StatusKept
    BY <2>4, CallbacksWritten DEF SetEventCallback
  <2>5. QED
    BY <2>1, <2>2, <2>3, <2>4 DEF OtherCall
<1>3. PICK k, C : k = Depth(t) /\ C = {}
  OBVIOUS
<1>4. StatusBut(t, C)
  BY <1>1, <1>2, <1>3, StatusOfNone
<1>5. ASSUME NEW s, Len(s) \in Nat, Onto(t, k, s), \A i \in 1..Len(s) : s[i].step \in {"lock", "unref", "recycle"}
      PROVE  StatusOK(t)'
  <2>1. RootsOK(t)'
    <3>1. \A q \in Queues, d \in Commands : Has(root'[q], d) => Has(root[q], d) /\ d \notin C
      BY <1>1, <1>3
    <3>2. QED
      BY <1>1, <1>3, <1>4, <1>5, <3>1, RootsOnto
  <2>2. \A i \in 1..Len(s) : LevelOK(s[i])' /\ s[i].step # "append"
    <3>1. ASSUME NEW f, f.step \in {"lock", "unref", "recycle"}
          PROVE  LevelOK(f)' /\ f.step # "append"
      BY <3>1, HoldsKinds, HasNothing DEF LevelOK
    <3>2. QED
      BY <1>5, <3>1
  <2>3. \A l \in 1..k, c \in C : ~Has(Holds(Level(t, l)), c)
    BY <1>3
  <2>4. StackOK(t)
    BY DEF PlacesOK
  <2>5. QED
    BY <1>1, <1>3, <1>4, <1>5, <2>1, <2>2, <2>3, <2>4, StatusOnto
<1>6. ASSUME NEW s \in Seq(Steps), Push(t, s), \A i \in 1..Len(s) : s[i].step \in {"lock", "unref", "recycle"}
      PROVE  StatusOK(t)'
  <2>1. Onto(t, Depth(t), s) /\ Len(s) \in Nat
    BY <1>6, Pushed, LenProperties
  <2>2. Onto(t, k, s)
    BY <1>3, <2>1
  <2>3. QED
    BY <1>5, <1>6, <2>1, <2>2
<1>7. CASE UNCHANGED stack
  <2>1. PICK s : s = <<>>
    OBVIOUS
  <2>2. Len(s) = 0 /\ Len(s) \in Nat /\ 1..0 = {}
    BY <2>1
  <2>3. k = 0 /\ Depth(t)' = 0
    BY <1>1, <1>3, <1>7 DEF Depth
  <2>4. Onto(t, k, s)
    BY <1>1, <2>2, <2>3 DEF Onto
  <2>5. QED
    BY <1>5, <2>2, <2>4
<1>8. ASSUME NEW f \in LockSteps, Push(t, <<f>>)
      PROVE  StatusOK(t)'
  <2>1. PICK s : s = <<f>>
    OBVIOUS
  <2>2. f \in Steps /\ f.step = "lock"
    BY DEF LockSteps, Steps
  <2>3. s \in Seq(Steps) /\ \A i \in 1..Len(s) : s[i].step = "lock"
    BY <2>1, <2>2
  <2>4. QED
    BY <1>6, <1>8, <2>1, <2>3
<1>9. ASSUME NEW f \in LockSteps, NEW g \in UnrefSteps, Push(t, <<f, g>>)
      PROVE  StatusOK(t)'
  <2>1. PICK s : s = <<f, g>>
    OBVIOUS
  <2>2. f \in Steps /\ f.step = "lock" /\ g \in Steps /\ g.step = "unref"
    BY DEF LockSteps, UnrefSteps, Steps
  <2>3. s \in Seq(Steps) /\ \A i \in 1..Len(s) : s[i].step \in {"lock", "unref"}
    BY <2>1, <2>2
  <2>4. QED
    BY <1>6, <1>9, <2>1, <2>3
<1>10. ASSUME NEW f \in LockSteps, NEW g \in UnrefSteps, NEW r \in RecycleSteps, Push(t, <<f, g, r>>)
       PROVE  StatusOK(t)'
  <2>1. PICK s : s = <<f, g, r>>
    OBVIOUS
  <2>2. /\ f \in Steps /\ f.step = "lock" /\ g \in Steps /\ g.step = "unref"
        /\ r \in Steps /\ r.step = "recycle"
    BY DEF LockSteps, UnrefSteps, RecycleSteps, Steps
  <2>3. s \in Seq(Steps) /\ \A i \in 1..Len(s) : s[i].step \in {"lock", "unref", "recycle"}
    BY <2>1, <2>2
  <2>4. QED
    BY <1>6, <1>10, <2>1, <2>3
<1>11. QED
  BY <1>1, <1>7, <1>8, <1>9, <1>10 DEF ClientPushes

\* The cell of a new command is no live command's.
LEMMA CellsApart ==
  ASSUME TypeOK, NEW t \in Threads, CellsOK(t), PoolOK(t), NEW q \in Queues,
         NEW c, NEW explicit \in BOOLEAN, CreateEvent(q, c, explicit),
         NEW d \in Commands, Live(t, d)
  PROVE  event'[command[d].event] = event[command[d].event]
<1>1. PICK x : x = NewEvent
  OBVIOUS
<1>2. /\ \A e \in Events : e # x => event'[e] = event[e]
      /\ x \notin Events \/ (pool # <<>> /\ x = Head(pool))
  BY <1>1, EventEntered
<1>3. command[d].event \in Events /\ event[command[d].event].cmd = d
  BY CommandTyped DEF CellsOK
<1>4. ~Has(pool, command[d].event)
  BY <1>3 DEF PoolOK
<1>5. pool # <<>> => Has(pool, Head(pool))
  <2>1. pool \in Seq(Events)
    BY DEF TypeOK
  <2>2. QED
    BY <2>1, HasTail
<1>6. command[d].event # x
  BY <1>2, <1>3, <1>4, <1>5
<1>7. QED
  BY <1>2, <1>3, <1>6

LEMMA EnqueueKeepsStatus ==
  ASSUME TypeOK, TypeOK', NEW t \in Threads, PlacesOK(t), CellsOK(t), PoolOK(t), StatusOK(t), Later,
         NEW q \in Queues, NEW explicit \in BOOLEAN, NEW blocking \in BOOLEAN,
         NEW waits \in WaitLists(t, q), Enqueue(t, q, waits, explicit, blocking)
  PROVE  StatusOK(t)'
<1>1. PICK c : c = Len(command) + 1
  OBVIOUS
<1>2. /\ stack[t] = <<>> \/ Top(t).step = "callback"
      /\ c \notin Commands /\ Commands' = Commands \cup {c}
      /\ \A d \in Commands : command'[d] = command[d]
  BY <1>1, EnqueueView
<1>3. UNCHANGED <<root, finished>> /\ Steps \subseteq Steps' /\ EnqueueAdds(t, q, c)
  BY <1>1, EnqueueShape
<1>4. CreateEvent(q, c, explicit)
  BY <1>1, Zenon DEF Enqueue
<1>5. PICK s \in Seq(Steps') :
        /\ Push(t, s) /\ Len(s) \in {2, 3}
        /\ s[1] = EnqueueStep("append", q, c) /\ s[2] = EnqueueStep("stamp", q, c)
        /\ Len(s) = 3 => s[3] = LockStep(q, Linked(q) \cup {c})
  BY <1>3 DEF EnqueueAdds
<1>6. PICK k : k = Depth(t)
  OBVIOUS
<1>7. /\ k \in Nat /\ Depth(t)' = k + Len(s) /\ Depth(t)' \in Nat
      /\ \A l \in 1..Depth(t)' : Level(t, l)' = IF l <= k THEN Level(t, l) ELSE s[Depth(t)' + 1 - l]
  BY <1>3, <1>5, <1>6, StepsAdded
<1>8. ASSUME NEW d \in Commands, d \notin finished
      PROVE  Status(d)' = Status(d)
  <2>1. event'[command[d].event] = event[command[d].event]
    BY <1>4, <1>8, CellsApart DEF Live
  <2>2. QED
    BY <1>2, <2>1 DEF Status
<1>9. RootsOK(t)'
  <2>1. ASSUME NEW p \in Queues, NEW d \in Commands', Has(root'[p], d)
        PROVE  d \notin finished' /\ (Status(d)' = "QUEUED" \/ Stamps(t, d)')
    <3>1. d \in Commands /\ Has(root[p], d)
      <4>1. root[p] \in Seq(Commands) /\ Has(root[p], d)
        BY <1>3, <2>1 DEF TypeOK
      <4>2. QED
        BY <4>1, HasMember
    <3>2. d \notin finished /\ (Status(d) = "QUEUED" \/ Stamps(t, d))
      BY <3>1 DEF StatusOK, RootsOK
    <3>3. ASSUME NEW l \in 1..Depth(t), Level(t, l).step = "stamp", Level(t, l).c = d
          PROVE  \E m \in 1..Depth(t)' : Level(t, m)'.step = "stamp" /\ Level(t, m)'.c = d
      <4>1. PICK n \in {2, 3} : n = Len(s)
        BY <1>5
      <4>2. l <= k /\ l \in 1..Depth(t)'
        BY <1>6, <1>7, <3>3, <4>1
      <4>3. Level(t, l)' = Level(t, l)
        BY <1>7, <4>2
      <4>4. QED
        BY <3>3, <4>2, <4>3
    <3>4. Stamps(t, d) => Stamps(t, d)'
      BY <3>3, Zenon DEF Stamps
    <3>5. QED
      BY <1>3, <1>8, <3>1, <3>2, <3>4
  <2>2. QED
    BY <2>1 DEF RootsOK, Has
<1>10. PICK a, b : a = EnqueueStep("append", q, c) /\ b = EnqueueStep("stamp", q, c)
  OBVIOUS
<1>11. /\ a.step = "append" /\ a.c = c /\ b.step = "stamp" /\ b.c = c /\ s[1] = a /\ s[2] = b
       /\ Len(s) = 3 => s[3].step = "lock"
  BY <1>5, <1>10 DEF EnqueueStep, LockStep
<1>12. PICK n \in {2, 3} : n = Len(s)
  BY <1>5
<1>13. PICK m : m = k + (n - 1)
  OBVIOUS
<1>14. Stamps(t, c)'
  <2>1. m \in 1..Depth(t)' /\ ~(m <= k) /\ Depth(t)' + 1 - m = 2
    <3>1. PICK d : d = Depth(t)'
      OBVIOUS
    <3>2. d = k + n /\ k \in Nat /\ n \in Int /\ n >= 2
      BY <1>7, <1>12, <3>1
    <3>3. m \in 1..d /\ ~(m <= k) /\ d + 1 - m = 2
      BY <1>13, <3>2
    <3>4. QED
      BY <3>1, <3>3
  <2>2. Level(t, m)' = s[2]
    BY <1>7, <2>1
  <2>3. \E l \in 1..Depth(t)' : Level(t, l)'.step = "stamp" /\ Level(t, l)'.c = c
    BY <1>11, <2>1, <2>2
  <2>4. QED
    BY <2>3, Zenon DEF Stamps
<1>15. c \notin finished'
  BY <1>2, <1>3 DEF TypeOK
<1>16. \A i \in 1..Len(s) : s[i] = a \/ s[i].step \in {"stamp", "lock"}
  <2>1. \A i \in 1..n : i = 1 \/ i = 2 \/ (i = 3 /\ n = 3)
    BY <1>12
  <2>2. QED
    BY <1>11, <1>12, <2>1
<1>17. ASSUME NEW l \in 1..Depth(t)'
       PROVE  LevelOK(Level(t, l))' /\ (Level(t, l)'.step = "append" => Stamps(t, Level(t, l).c)')
  <2>1. CASE l > k
    <3>1. Depth(t)' + 1 - l \in 1..Len(s) /\ Level(t, l)' = s[Depth(t)' + 1 - l]
      BY <1>7, <1>12, <2>1
    <3>2. PICK i \in 1..Len(s) : Level(t, l)' = s[i]
      BY <3>1
    <3>3. PICK f : f = s[i]
      OBVIOUS
    <3>4. Level(t, l)' = f /\ (f = a \/ f.step \in {"stamp", "lock"})
      BY <1>16, <3>2, <3>3
    <3>5. CASE f = a
      <4>1. Holds(f) = <<c>> /\ f.step = "append"
        BY <1>11, <3>5, HoldsKinds
      <4>2. ASSUME NEW d \in Commands', Has(Holds(f), d)
            PROVE  d \notin finished' /\ Stage(f, d)'
        BY <1>15, <4>1, <4>2, HasOne DEF Stage
      <4>3. LevelOK(f)'
        BY <4>2, Zenon DEF LevelOK
      <4>4. Level(t, l)'.c = c
        BY <1>11, <3>4, <3>5
      <4>5. QED
        BY <1>14, <3>4, <4>3, <4>4 DEF LevelOK, Stage, Stamps
    <3>6. CASE f.step \in {"stamp", "lock"}
      <4>1. Holds(f) = <<>>
        BY <3>6, HoldsKinds
      <4>2. LevelOK(f)'
        BY <4>1, HasNothing DEF LevelOK
      <4>3. QED
        BY <3>4, <3>6, <4>2 DEF LevelOK, Stage
    <3>7. QED
      BY <3>4, <3>5, <3>6
  <2>2. CASE l <= k
    <3>1. PICK f : f = Level(t, l)
      OBVIOUS
    <3>2. l \in 1..Depth(t) /\ Level(t, l)' = f
      BY <1>6, <1>7, <2>2, <3>1
    <3>3. f \in Steps /\ Holds(f) \in Seq(Commands)
      BY <3>1, <3>2, Levels, HoldsTyped
    <3>4. f.step # "append"
      <4>1. l < Depth(t) => f.step \notin OnTop
        BY <3>1, <3>2 DEF PlacesOK, StackOK
      <4>2. l = Depth(t) => f = Top(t) /\ stack[t] # <<>>
        BY <3>1, <3>2, Levels
      <4>3. QED
        BY <1>2, <1>6, <1>7, <3>2, <4>1, <4>2 DEF OnTop
    <3>5. LevelOK(f)
      BY <3>1, <3>2 DEF StatusOK
    <3>6. ASSUME NEW d \in Commands', Has(Holds(f), d), ~(f.step = "release" /\ d = Head(f.todo))
          PROVE  d \notin finished' /\ Stage(f, d)'
      <4>1. d \in Commands
        BY <3>3, <3>6, HasMember
      <4>2. d \notin finished /\ Stage(f, d)
        BY <3>5, <3>6, <4>1 DEF LevelOK
      <4>3. Status(d)' = Status(d)
        BY <1>8, <4>1, <4>2
      <4>4. QED
        BY <1>3, <4>2, <4>3 DEF Stage
    <3>7. LevelOK(f)'
      BY <3>6, Zenon DEF LevelOK
    <3>8. QED
      BY <3>2, <3>4, <3>7 DEF LevelOK, Stage
  <2>3. QED
    BY <1>7, <2>1, <2>2
<1>18. QED
  BY <1>9, <1>17 DEF StatusOK, Stamps

LEMMA StillCells ==
  ASSUME TypeOK, NEW t \in Threads, CellsOK(t), PoolOK(t), StatusOK(t), UNCHANGED vars
  PROVE  CellsOK(t)' /\ PoolOK(t)' /\ StatusOK(t)'
<1>1. /\ UNCHANGED <<stack, root, command, finished, event, pool>>
  BY DEF vars
<1>2. \A c : Live(t, c)' <=> Live(t, c)
  BY <1>1 DEF Live, Releasing, Level, Depth
<1>3. CellsOK(t)'
  BY <1>1, <1>2 DEF CellsOK, CellOK, Commands, Events
<1>4. PoolOK(t)'
  <2>1. /\ Depth(t)' = Depth(t) /\ Commands' = Commands /\ Events' = Events
        /\ \A l : Level(t, l)' = Level(t, l)
    BY <1>1 DEF Depth, Level, Commands, Events
  <2>2. \A l, c : Covered(t, l, c)' <=> Covered(t, l, c)
    BY <1>1 DEF Covered, Reaches, Level, Depth
  <2>3. \A l, e, c : RecycleOK(t, l, e, c)' <=> RecycleOK(t, l, e, c)
    BY <1>1, <2>2 DEF RecycleOK, RecycleAt, Level, Depth
  <2>4. QED
    BY <1>1, <1>2, <2>1, <2>3 DEF PoolOK, RecycleAt
<1>5. StatusOK(t)'
  <2>1. \A c : Status(c)' = Status(c)
    BY <1>1 DEF Status
  <2>2. \A c : Stamps(t, c)' <=> Stamps(t, c)
    BY <1>1 DEF Stamps, Level, Depth
  <2>3. RootsOK(t)'
    BY <1>1, <2>1, <2>2 DEF StatusOK, RootsOK, Commands
  <2>4. \A f : LevelOK(f)' <=> LevelOK(f)
    BY <1>1, <2>1 DEF LevelOK, Stage, Commands
  <2>5. QED
    BY <1>1, <2>2, <2>3, <2>4 DEF StatusOK, Level, Depth
<1>6. QED
  BY <1>3, <1>4, <1>5

LEMMA StatusStep ==
  ASSUME NEW t, Threads = {t}, TypeOK, TypeOK', PlacesOK(t), NestOK(t), CellsOK(t), PoolOK(t),
         StatusOK(t), [Next]_vars
  PROVE  StatusOK(t)' /\ UNCHANGED aborted
<1>1. t \in Threads /\ Later
  BY StepsLater
<1>2. ASSUME ClientCall(t)
      PROVE  StatusOK(t)' /\ UNCHANGED aborted
  <2>1. ASSUME NEW q \in Queues, NEW explicit \in BOOLEAN, NEW blocking \in BOOLEAN,
               NEW waits \in WaitLists(t, q), Enqueue(t, q, waits, explicit, blocking)
        PROVE  StatusOK(t)' /\ UNCHANGED aborted
    <3>1. UNCHANGED aborted
      BY <2>1 DEF Enqueue
    <3>2. QED
      BY <1>1, <2>1, <3>1, EnqueueKeepsStatus
  <2>2. CASE OtherCall(t)
    BY <1>1, <2>2, CallKeepsStatus, CallView
  <2>3. QED
    BY <1>2, <2>1, <2>2 DEF ClientCall, OtherCall
<1>3. ASSUME RuntimeStep(t)
      PROVE  StatusOK(t)' /\ UNCHANGED aborted
  <2>1. CASE AppendCommand(t)
    BY <1>1, <2>1, AppendKeepsStatus DEF AppendCommand
  <2>2. CASE StampQueued(t)
    BY <1>1, <2>2, StampKeepsStatus DEF StampQueued
  <2>3. CASE LockQueue(t) \/ Scan(t) \/ UnlockQueue(t)
    BY <1>1, <2>3, LoopKeepsStatus DEF LockQueue, Scan, UnlockQueue
  <2>4. CASE Submit(t)
    BY <1>1, <2>4, SubmitKeepsStatus
  <2>5. CASE StartCommand(t) \/ CompleteCommand(t)
    BY <1>1, <2>5, ExecutionKeepsStatus
  <2>6. CASE ReleaseImplicitEvent(t)
    BY <1>1, <2>6, ReleaseKeepsStatus DEF ReleaseImplicitEvent
  <2>7. CASE CallbackReturns(t) \/ Return(t) \/ UnrefQueue(t) \/ RecycleEvent(t)
    BY <1>1, <2>7, ReturnKeepsStatus DEF CallbackReturns, Return, UnrefQueue, RecycleEvent
  <2>8. QED
    BY <1>3, <2>1, <2>2, <2>3, <2>4, <2>5, <2>6, <2>7 DEF RuntimeStep
<1>4. CASE UNCHANGED vars
  BY <1>1, <1>4, StillCells DEF vars
<1>5. QED
  BY <1>2, <1>3, <1>4 DEF Next

LEMMA CellsStep ==
  ASSUME NEW t, Threads = {t}, TypeOK, TypeOK', OwnersOK, PlacesOK(t), NestOK(t), CellsOK(t),
         PoolOK(t), StatusOK(t), [Next]_vars
  PROVE  CellsOK(t)' /\ PoolOK(t)'
<1>1. t \in Threads /\ Later
  BY StepsLater
<1>2. ASSUME ClientCall(t)
      PROVE  CellsOK(t)' /\ PoolOK(t)'
  <2>1. ASSUME NEW q \in Queues, NEW explicit \in BOOLEAN, NEW blocking \in BOOLEAN,
               NEW waits \in WaitLists(t, q), Enqueue(t, q, waits, explicit, blocking)
        PROVE  CellsOK(t)' /\ PoolOK(t)'
    BY <1>1, <2>1, EnqueueKeepsCells
  <2>2. CASE OtherCall(t)
    BY <1>1, <2>2, CallKeepsCells
  <2>3. QED
    BY <1>2, <2>1, <2>2 DEF ClientCall, OtherCall
<1>3. ASSUME RuntimeStep(t)
      PROVE  CellsOK(t)' /\ PoolOK(t)'
  <2>1. CASE ReleaseImplicitEvent(t)
    BY <1>1, <2>1, ReleaseKeepsCells
  <2>2. CASE RecycleEvent(t)
    BY <1>1, <2>2, RecycleKeepsCells
  <2>3. CASE ~ReleaseImplicitEvent(t) /\ ~RecycleEvent(t)
    <3>1. OwnersKept /\ CountsKept /\ pool' = pool
      BY <1>1, <1>3, <2>3, RuntimeWrites
    <3>2. LiveStays(t) /\ RecyclesStay(t) /\ Depth(t)' \in Nat /\ UNCHANGED command
      <4>1. CASE CompleteCommand(t)
        BY <1>1, <4>1, ExecutionKeepsStatus, CompletesLive
      <4>2. CASE ~CompleteCommand(t)
        BY <1>1, <1>3, <2>3, <4>2, QuietStack
      <4>3. QED
        BY <4>1, <4>2
    <3>3. Commands' = Commands
      BY <3>2 DEF Commands
    <3>4. QED
      BY <1>1, <3>1, <3>2, <3>3, QuietKeepsCells
  <2>4. QED
    BY <2>1, <2>2, <2>3
<1>4. CASE UNCHANGED vars
  BY <1>1, <1>4, StillCells
<1>5. QED
  BY <1>2, <1>3, <1>4 DEF Next

LEMMA CellsInit ==
  ASSUME NEW t \in Threads, Init
  PROVE  CellsOK(t) /\ PoolOK(t) /\ StatusOK(t)
<1>1. Events = {} /\ Commands = {} /\ Depth(t) = 0 /\ pool = <<>>
  BY DEF Init, Events, Commands, Depth
<1>2. CellsOK(t)
  BY <1>1 DEF CellsOK
<1>3. PoolOK(t)
  BY <1>1, HasNothing DEF PoolOK
<1>4. StatusOK(t)
  BY <1>1 DEF StatusOK, RootsOK
<1>5. QED
  BY <1>2, <1>3, <1>4

\* In a program with one host thread no assert of the status macros fails: an
\* event goes QUEUED, SUBMITTED, RUNNING, COMPLETE for the one command it is of,
\* however flushes nest, callbacks enqueue and event cells are used again.
THEOREM StatusMacrosHold ==
  ASSUME NEW t, Threads = {t}
  PROVE  Spec => []AssertsHold
<1> DEFINE Inv == /\ OwnersOK /\ PlacesOK(t) /\ NestOK(t) /\ CellsOK(t) /\ PoolOK(t) /\ StatusOK(t)
                  /\ AssertsHold
<1>1. Init => Inv
  <2>1. Init => AssertsHold
    BY DEF Init, AssertsHold
  <2>2. QED
    BY <2>1, PlacesInit, DueInit, CellsInit
<1>2. TypeOK /\ TypeOK' /\ Inv /\ [Next]_vars => Inv'
  BY PlacesStep, OwnersStep, NestStep, CellsStep, StatusStep DEF AssertsHold
<1>3. Inv => AssertsHold
  OBVIOUS
<1> HIDE DEF Inv
<1>4. QED
  BY <1>1, <1>2, <1>3, QueueTypes, PTL DEF Spec

-----------------------------------------------------------------------------
(* What the runtime leaves on the stack: the levels below the top stay.        *)

\* The step a flush goes on with: in its queue, or past it.
QuietStep(t, f) ==
  \/ f.step \in {"run", "complete", "release"}
  \/ /\ f.step \in {"scan", "submit"} /\ Top(t).step \in {"lock", "scan", "submit"}
     /\ f.q = Top(t).q

\* No event is freed.
Calm(t) ==
  /\ Depth(t)' \in Nat /\ Depth(t) - 1 <= Depth(t)'
  /\ Depth(t)' > Depth(t) => Top(t).step \in Flushes
  /\ \A l \in 1..Depth(t)' :
       \/ l \in 1..Depth(t) /\ Level(t, l)' = Level(t, l)
       \/ l = Depth(t) /\ Top(t).step \in Flushes /\ QuietStep(t, Level(t, l)')
       \/ l > Depth(t) /\ Level(t, l)'.step = "callback"

\* Event e of queue p is freed: a flush of the queue, its release and the
\* recycling of the cell come on the k levels there are.
Frees(t, e, p, k) ==
  /\ k \in Nat /\ k = Depth(t) /\ Depth(t)' = k + 3 /\ p = event[e].queue
  /\ \A l \in 1..k : l < k => Level(t, l)' = Level(t, l)
  /\ k > 0 => Level(t, k)'.step = "run" /\ Level(t, k).step = "release"
  /\ Level(t, k + 1)' = RecycleStep(e) /\ Level(t, k + 2)' = UnrefStep(p)
  /\ Level(t, k + 3)' = LockStep(p, {})
LastGiven(e) ==
  /\ e \in Events /\ event[e].refs = 1 /\ event'[e].refs = 0 /\ OwnersKept
  /\ \A x \in Events : x # e => event'[x].refs = event[x].refs /\ event'[x].user = event[x].user

LEMMA QuietShape ==
  ASSUME TypeOK, NEW t \in Threads, PlacesOK(t), RuntimeStep(t), ~ReleaseImplicitEvent(t)
  PROVE  Calm(t)
<1>1. stack[t] # <<>> /\ Depth(t) \in Nat /\ Depth(t) > 0
  BY LoopShape, Levels
<1>2. ASSUME Replace(t, <<>>)
      PROVE  Calm(t)
  <2>1. Depth(t)' = Depth(t) - 1 /\ \A l \in 1..Depth(t)' : Level(t, l)' = Level(t, l)
    BY <1>1, <1>2, TopLeaves
  <2>2. QED
    BY <1>1, <2>1 DEF Calm
<1>3. ASSUME NEW f \in Steps, Replace(t, <<f>>), QuietStep(t, f), Top(t).step \in Flushes
      PROVE  Calm(t)
  <2>1. /\ Depth(t)' = Depth(t)
        /\ \A l \in 1..Depth(t) : Level(t, l)' = IF l = Depth(t) THEN f ELSE Level(t, l)
    BY <1>1, <1>3, TopWritten
  <2>2. PICK d : d = Depth(t)
    OBVIOUS
  <2>3. d \in Nat /\ Depth(t)' = d /\ \A l \in 1..d : Level(t, l)' = IF l = d THEN f ELSE Level(t, l)
    BY <1>1, <2>1, <2>2
  <2>4. \A l \in 1..d : Level(t, l)' = Level(t, l) \/ (l = d /\ QuietStep(t, Level(t, l)'))
    BY <1>3, <2>3 DEF QuietStep
  <2>5. QED
    BY <1>3, <2>2, <2>3, <2>4 DEF Calm
<1>4. CASE AppendCommand(t) \/ StampQueued(t) \/ CallbackReturns(t) \/ Return(t) \/ UnrefQueue(t)
           \/ RecycleEvent(t)
  BY <1>1, <1>2, <1>4 DEF AppendCommand, StampQueued, CallbackReturns, Return, UnrefQueue, RecycleEvent
<1>5. \A f \in ScanSteps \cup SubmitSteps \cup RunSteps \cup BusySteps : f \in Steps
  BY DEF Steps
<1>6. CASE LockQueue(t)
  <2>1. Top(t) \in LockSteps /\ \E f \in ScanSteps : Replace(t, <<f>>) /\ f.q = Top(t).q
    BY <1>6, LockView
  <2>2. Top(t).step = "lock" /\ \A f \in ScanSteps : f.step = "scan"
    BY <2>1 DEF LockSteps, ScanSteps
  <2>3. QED
    BY <1>1, <1>3, <1>5, <2>1, <2>2 DEF QuietStep, Flushes
<1>7. CASE Scan(t)
  <2>1. Top(t) \in ScanSteps
    BY <1>7, ScanView
  <2>2. PICK f \in Steps : Replace(t, <<f>>) /\ (Turns(t, f) \/ Takes(t, f))
    BY <1>7, ScanView
  <2>3. f.step \in {"scan", "submit"} /\ Top(t).step = "scan" /\ f.q = Top(t).q
    BY <2>1, <2>2 DEF Turns, Takes, ScanSteps, SubmitSteps
  <2>4. QED
    BY <1>1, <1>3, <2>2, <2>3 DEF QuietStep, Flushes
<1>8. CASE Submit(t)
  <2>1. Top(t) \in SubmitSteps
        /\ (UNCHANGED stack \/ \E f \in ScanSteps : Replace(t, <<f>>) /\ Turns(t, f))
    BY <1>8, SubmitView DEF PlacesOK
  <2>2. Top(t).step = "submit" /\ \A f \in ScanSteps : f.step = "scan"
    BY <2>1 DEF SubmitSteps, ScanSteps
  <2>3. CASE UNCHANGED stack
    <3>1. Depth(t)' = Depth(t) /\ \A l : Level(t, l)' = Level(t, l)
      BY <2>3 DEF Depth, Level
    <3>2. QED
      BY <1>1, <3>1 DEF Calm
  <2>4. QED
    BY <1>1, <1>3, <1>5, <2>1, <2>2, <2>3 DEF QuietStep, Turns, Flushes
<1>9. CASE UnlockQueue(t) \/ StartCommand(t)
  <2>1. /\ Top(t) \in ScanSteps \cup RunSteps
        /\ \E f \in RunSteps \cup BusySteps : Replace(t, <<f>>)
    BY <1>9, UnlockView, StartView
  <2>2. /\ Top(t).step \in Flushes
        /\ \A f \in RunSteps \cup BusySteps : f.step \in {"run", "complete", "release"}
    BY <2>1 DEF ScanSteps, RunSteps, BusySteps, Flushes
  <2>3. QED
    BY <1>1, <1>3, <1>5, <2>1, <2>2 DEF QuietStep
<1>10. CASE CompleteCommand(t)
  <2>1. PICK f \in BusySteps, s \in Seq(Steps) :
          /\ Replace(t, s \o <<f>>) /\ f.step = "release" /\ \A i \in 1..Len(s) : s[i] = CallbackStep
    BY <1>10, CompleteView
  <2>2. f \in Steps /\ CallbackStep.step = "callback" /\ Top(t).step \in Flushes
    BY <1>5, <1>10, CompleteView DEF CallbackStep, Flushes
  <2>3. PICK d, n : d = Depth(t) /\ n = Depth(t)'
    OBVIOUS
  <2>4. /\ d \in Nat /\ d > 0 /\ Len(s) \in Nat /\ n = d + Len(s)
        /\ \A l \in 1..n :
             Level(t, l)' = IF l < d THEN Level(t, l) ELSE IF l = d THEN f ELSE s[n + 1 - l]
    BY <1>1, <2>1, <2>2, <2>3, TopCovered
  <2>5. ASSUME NEW l \in 1..n
        PROVE  \/ l \in 1..d /\ Level(t, l)' = Level(t, l)
               \/ l = d /\ QuietStep(t, Level(t, l)')
               \/ l > d /\ Level(t, l)'.step = "callback"
    <3>1. CASE l < d
      BY <2>4, <3>1
    <3>2. CASE l = d
      <4>1. Level(t, l)'.step = "release"
        BY <2>1, <2>4, <3>2
      <4>2. QED
        BY <3>2, <4>1 DEF QuietStep
    <3>3. CASE l > d
      <4>1. n + 1 - l \in 1..Len(s) /\ Level(t, l)' = s[n + 1 - l]
        BY <2>4, <3>3
      <4>2. QED
        BY <2>1, <2>2, <3>3, <4>1
    <3>4. QED
      BY <2>4, <3>1, <3>2, <3>3
  <2>6. QED
    BY <2>2, <2>3, <2>4, <2>5 DEF Calm
<1>11. QED
  BY <1>1, <1>4, <1>6, <1>7, <1>8, <1>9, <1>10 DEF RuntimeStep

LEMMA ReleaseShape ==
  ASSUME TypeOK, NEW t \in Threads, PlacesOK(t), ReleaseImplicitEvent(t), CellsOK(t)
  PROVE  \/ Calm(t) /\ UNCHANGED event
         \/ \E e, p, k : Frees(t, e, p, k) /\ LastGiven(e) /\ event[e].user = 0
<1>1. PICK c, e, k, p : c = Head(Top(t).todo) /\ e = command[c].event /\ k = Depth(t)
                        /\ p = event[e].queue
  OBVIOUS
<1>2. /\ stack[t] # <<>> /\ Top(t) \in BusySteps /\ Top(t).step = "release"
      /\ c \in Commands /\ e \in Events
  BY <1>1, ReleaseView
<1>3. PICK f \in RunSteps, s \in Seq(Steps) :
        /\ Replace(t, s \o <<f>>) /\ f.step = "run"
        /\ \/ command[c].explicit /\ s = <<>> /\ UNCHANGED event
           \/ /\ ~command[c].explicit /\ event' = [event EXCEPT ![e].refs = @ - 1]
              /\ s = IF event[e].refs = 1 THEN FreeEventSteps(e) ELSE <<>>
  BY <1>1, ReleaseView
<1>4. f \in Steps /\ k \in 1..k /\ Level(t, k) = Top(t)
  BY <1>1, <1>2, Levels DEF Steps
<1>5. PICK d : d = Depth(t)'
  OBVIOUS
<1>6. /\ k \in Nat /\ k > 0 /\ Len(s) \in Nat /\ d = k + Len(s)
      /\ \A l \in 1..d :
           Level(t, l)' = IF l < k THEN Level(t, l) ELSE IF l = k THEN f ELSE s[d + 1 - l]
  <2>1. Steps \subseteq Steps /\ f \in Steps /\ s \in Seq(Steps) /\ Replace(t, s \o <<f>>)
    BY <1>3, <1>4
  <2>2. /\ Depth(t) \in Nat /\ Depth(t) > 0 /\ Len(s) \in Nat
        /\ Depth(t)' = Depth(t) + Len(s)
        /\ \A l \in 1..Depth(t)' :
             Level(t, l)' = IF l < Depth(t) THEN Level(t, l)
                            ELSE IF l = Depth(t) THEN f ELSE s[Depth(t)' + 1 - l]
    BY <1>2, <2>1, TopCovered
  <2>3. k = Depth(t) /\ d = Depth(t)'
    BY <1>1, <1>5
  <2>4. QED
    BY <2>2, <2>3
<1>7. ASSUME s = <<>>, UNCHANGED event
      PROVE  Calm(t)
  <2>1. Len(s) = 0
    BY <1>7
  <2>2. d = k /\ \A l \in 1..k : Level(t, l)' = IF l = k THEN f ELSE Level(t, l)
    BY <1>6, <2>1
  <2>3. \A l \in 1..k : Level(t, l)' = Level(t, l) \/ (l = k /\ QuietStep(t, Level(t, l)'))
    BY <1>3, <2>2 DEF QuietStep
  <2>4. QED
    BY <1>1, <1>2, <1>5, <1>6, <2>2, <2>3 DEF Calm, Flushes
<1>8. ASSUME ~command[c].explicit, event' = [event EXCEPT ![e].refs = @ - 1],
             s = IF event[e].refs = 1 THEN FreeEventSteps(e) ELSE <<>>
      PROVE  Frees(t, e, p, k) /\ LastGiven(e) /\ event[e].user = 0
  <2>1. Live(t, c)
    BY <1>1, <1>2, <1>4 DEF Live, Releasing
  <2>2. CellOK(t, e, c)
    BY <1>1, <1>2, <2>1 DEF CellsOK
  <2>3. event[e].refs = 1 /\ s = FreeEventSteps(e)
    BY <1>8, <2>1, <2>2 DEF CellOK
  <2>4. PICK n : n = event[e].refs - 1
    OBVIOUS
  <2>5. n = 0 /\ event' = [event EXCEPT ![e].refs = n]
    BY <1>2, <1>8, <2>3, <2>4 DEF TypeOK, Events
  <2>6. /\ OwnersKept
        /\ \A x \in Events : /\ event'[x].refs = IF x = e THEN n ELSE event[x].refs
                             /\ event'[x].user = event[x].user
    <3>1. event' = [event EXCEPT ![e].refs = n]
      BY <2>5
    <3>2. e \in Events
      BY <1>2
    <3>3. QED
      BY <3>1, <3>2, RefsWritten
  <2>7. LastGiven(e)
    BY <1>2, <2>3, <2>5, <2>6 DEF LastGiven
  <2>8. /\ d = k + 3
        /\ Level(t, k + 1)' = RecycleStep(e) /\ Level(t, k + 2)' = UnrefStep(p)
        /\ Level(t, k + 3)' = LockStep(p, {})
    <3>1. FreesAbove(t, e, p, s, k, d)
      <4>1. \A l \in 1..d : l > k => Level(t, l)' = s[d + 1 - l]
        BY <1>6
      <4>2. d = k + Len(s) /\ k \in Nat
        BY <1>6
      <4>3. QED
        BY <1>1, <1>2, <2>3, <4>1, <4>2 DEF FreesAbove
    <3>2. QED
      BY <3>1, FreeLevels
  <2>9. \A l \in 1..k : l < k => Level(t, l)' = Level(t, l)
    BY <1>6
  <2>10. Level(t, k)'.step = "run" /\ Level(t, k).step = "release"
    BY <1>2, <1>3, <1>4, <1>6
  <2>11. Frees(t, e, p, k)
    BY <1>1, <1>5, <1>6, <2>8, <2>9, <2>10 DEF Frees
  <2>12. QED
    BY <1>8, <2>2, <2>7, <2>11 DEF CellOK
<1>9. QED
  BY <1>3, <1>7, <1>8

\* A client that gives up its last reference of an event frees it.
LEMMA LastShape ==
  ASSUME TypeOK, NEW t \in Threads, CellsOK(t), NEW e \in Events, ReleaseEvent(t, e),
         event[e].refs = 1
  PROVE  \E p, k : Frees(t, e, p, k) /\ LastGiven(e)
<1>1. /\ stack[t] = <<>> /\ event[e].user > 0 /\ Push(t, FreeEventSteps(e))
  BY DEF ReleaseEvent, Idle, OwnsEvent
<1>2. PICK n, m : n = event[e].refs - 1 /\ m = event[e].user - 1
  OBVIOUS
<1>3. /\ OwnersKept /\ event'[e].refs = n /\ n = 0
      /\ \A x \in Events : x # e => event'[x].refs = event[x].refs /\ event'[x].user = event[x].user
  BY <1>2, ReferencesWritten DEF Counts
<1>4. LastGiven(e)
  BY <1>3 DEF LastGiven
<1>5. PICK s, p, d, k : s = FreeEventSteps(e) /\ p = event[e].queue /\ d = Depth(t)' /\ k = 0
  OBVIOUS
<1>6. s \in Seq(Steps) /\ Depth(t) = 0
  BY <1>1, <1>5, ReleaseStepsTyped, Levels
<1>7. /\ Len(s) \in Nat /\ Depth(t)' = Depth(t) + Len(s)
      /\ \A l \in 1..Depth(t)' :
           Level(t, l)' = IF l <= Depth(t) THEN Level(t, l) ELSE s[Depth(t)' + 1 - l]
  BY <1>1, <1>5, <1>6, StepsAdded
<1>8. /\ d = k + 3
      /\ Level(t, k + 1)' = RecycleStep(e) /\ Level(t, k + 2)' = UnrefStep(p)
      /\ Level(t, k + 3)' = LockStep(p, {})
  <2>1. FreesAbove(t, e, p, s, k, d)
    BY <1>5, <1>6, <1>7 DEF FreesAbove
  <2>2. QED
    BY <2>1, FreeLevels
<1>9. /\ k \in Nat /\ k = Depth(t) /\ ~(k > 0) /\ \A l \in 1..k : ~(l < k)
  BY <1>5, <1>6
<1>10. Frees(t, e, p, k)
  BY <1>5, <1>8, <1>9 DEF Frees
<1>11. QED
  BY <1>4, <1>10

-----------------------------------------------------------------------------
(* The references to a queue: what the client owns, the events in use, and the *)
(* releases under way.                                                          *)

\* The levels about to give up a reference of q.
Unrefs(t, q) == {l \in 1..Depth(t) : Level(t, l) = UnrefStep(q)}
RefsOK(t) ==
  \A q \in Queues : qrefs[q] = quser[q] + Cardinality(LiveEvents(q)) + Cardinality(Unrefs(t, q))

LEMMA CountedFinite ==
  ASSUME TypeOK, NEW t \in Threads, NEW q
  PROVE  /\ IsFiniteSet(LiveEvents(q)) /\ Cardinality(LiveEvents(q)) \in Nat
         /\ IsFiniteSet(Unrefs(t, q)) /\ Cardinality(Unrefs(t, q)) \in Nat
<1>1. Events = 1..Len(event) /\ Len(event) \in Nat /\ Depth(t) \in Nat
  BY LenProperties, Levels DEF TypeOK, Events
<1>2. IsFiniteSet(Events) /\ IsFiniteSet(1..Depth(t))
  BY <1>1, FS_Interval
<1>3. LiveEvents(q) \in SUBSET Events /\ Unrefs(t, q) \in SUBSET (1..Depth(t))
  BY DEF LiveEvents, Unrefs
<1>4. IsFiniteSet(LiveEvents(q)) /\ IsFiniteSet(Unrefs(t, q))
  BY <1>2, <1>3, FS_Subset
<1>5. QED
  BY <1>4, FS_CardinalityType

LEMMA UnrefKind ==
  ASSUME NEW f \in Steps, NEW q
  PROVE  f = UnrefStep(q) <=> f.step = "unref" /\ f.q = q
<1>1. f.step = "unref" => f \in UnrefSteps
  BY StepKinds
<1>2. QED
  BY <1>1 DEF UnrefSteps, UnrefStep

\* Steps that release no queue are put on levels that stay.
LEMMA UnrefsSame ==
  ASSUME NEW t, Depth(t) \in Nat, NEW k, NEW new, Len(new) \in Nat, Onto(t, k, new), NEW q,
         \A l \in 1..Depth(t) : l > k => Level(t, l) # UnrefStep(q),
         \A i \in 1..Len(new) : new[i] # UnrefStep(q)
  PROVE  Unrefs(t, q)' = Unrefs(t, q)
<1>1. PICK d : d = Depth(t)'
  OBVIOUS
<1>2. /\ k \in 0..Depth(t) /\ d = k + Len(new)
      /\ \A l \in 1..d : Level(t, l)' = IF l <= k THEN Level(t, l) ELSE new[d + 1 - l]
  BY <1>1 DEF Onto
<1>3. Unrefs(t, q)' = {l \in 1..d : Level(t, l)' = UnrefStep(q)}
  BY <1>1 DEF Unrefs, UnrefStep
<1>4. ASSUME NEW l
      PROVE  l \in 1..d /\ Level(t, l)' = UnrefStep(q) <=> l \in 1..Depth(t) /\ Level(t, l) = UnrefStep(q)
  <2>1. CASE l \in 1..d /\ l <= k
    BY <1>2, <2>1
  <2>2. CASE l \in 1..d /\ ~(l <= k)
    <3>1. d + 1 - l \in 1..Len(new) /\ Level(t, l)' = new[d + 1 - l]
      BY <1>2, <2>2
    <3>2. QED
      BY <1>2, <2>2, <3>1
  <2>3. CASE l \notin 1..d
    BY <1>2, <2>3
  <2>4. QED
    BY <2>1, <2>2, <2>3
<1>5. QED
  BY <1>3, <1>4 DEF Unrefs

\* One of the steps put on top releases queue p.
LEMMA UnrefsMore ==
  ASSUME NEW t, Depth(t) \in Nat, NEW k, NEW new, Len(new) \in Nat, Onto(t, k, new), NEW p,
         NEW j \in 1..Len(new), new[j] = UnrefStep(p),
         \A q : \A l \in 1..Depth(t) : l > k => Level(t, l) # UnrefStep(q),
         \A q : \A i \in 1..Len(new) : i # j => new[i] # UnrefStep(q)
  PROVE  /\ \E m : m \notin Unrefs(t, p) /\ Unrefs(t, p)' = Unrefs(t, p) \cup {m}
         /\ \A q : q # p => Unrefs(t, q)' = Unrefs(t, q)
<1>1. PICK d, m : d = Depth(t)' /\ m = k + Len(new) + 1 - j
  OBVIOUS
<1>2. /\ k \in 0..Depth(t) /\ d = k + Len(new) /\ m \in 1..d /\ m > k /\ d + 1 - m = j
      /\ \A l \in 1..d : Level(t, l)' = IF l <= k THEN Level(t, l) ELSE new[d + 1 - l]
  BY <1>1 DEF Onto
<1>3. \A q : UnrefStep(q) = UnrefStep(p) => q = p
  BY DEF UnrefStep
<1>4. \A q : Unrefs(t, q)' = {l \in 1..d : Level(t, l)' = UnrefStep(q)}
  BY <1>1 DEF Unrefs, UnrefStep
<1>5. ASSUME NEW q, NEW l
      PROVE  l \in 1..d /\ Level(t, l)' = UnrefStep(q) <=>
               (l \in 1..Depth(t) /\ Level(t, l) = UnrefStep(q)) \/ (q = p /\ l = m)
  <2>1. CASE l \in 1..d /\ l <= k
    BY <1>2, <2>1
  <2>2. CASE l \in 1..d /\ ~(l <= k)
    <3>1. d + 1 - l \in 1..Len(new) /\ Level(t, l)' = new[d + 1 - l]
      <4>1. l > k /\ l \in Int /\ d \in Int /\ k \in Int /\ d = k + Len(new) /\ l <= d
        BY <1>2, <2>2
      <4>2. d + 1 - l \in 1..Len(new)
        BY <4>1
      <4>3. QED
        BY <1>2, <2>2, <4>2
    <3>2. d + 1 - l = j <=> l = m
      <4>1. d \in Int /\ l \in Int /\ j \in Int /\ k \in Int /\ Len(new) \in Int
        BY <1>2, <2>2
      <4>2. m = k + Len(new) + 1 - j /\ d = k + Len(new)
        BY <1>1, <1>2
      <4>3. QED
        BY <4>1, <4>2
    <3>3. l \in 1..Depth(t) => Level(t, l) # UnrefStep(q)
      BY <2>2, <1>2
    <3>4. QED
      BY <1>3, <2>2, <3>1, <3>2, <3>3
  <2>3. CASE l \notin 1..d
    BY <1>2, <2>3
  <2>4. QED
    BY <2>1, <2>2, <2>3
<1>6. m \notin Unrefs(t, p)
  BY <1>2 DEF Unrefs
<1>7. Unrefs(t, p)' = Unrefs(t, p) \cup {m}
  BY <1>4, <1>5 DEF Unrefs
<1>8. \A q : q # p => Unrefs(t, q)' = Unrefs(t, q)
  BY <1>4, <1>5 DEF Unrefs
<1>9. QED
  BY <1>6, <1>7, <1>8

\* A release of queue p leaves the top.
LEMMA UnrefsLess ==
  ASSUME TypeOK, NEW t \in Threads, stack[t] # <<>>, Replace(t, <<>>), NEW p, Top(t) = UnrefStep(p)
  PROVE  /\ Depth(t) \in Unrefs(t, p) /\ Unrefs(t, p)' = Unrefs(t, p) \ {Depth(t)}
         /\ \A q : q # p => Unrefs(t, q)' = Unrefs(t, q)
<1>1. PICK k, d : k = Depth(t) /\ d = Depth(t)'
  OBVIOUS
<1>2. /\ k \in Nat /\ k > 0 /\ d = k - 1 /\ k \in 1..k
      /\ \A l \in 1..d : Level(t, l)' = Level(t, l)
  BY <1>1, TopLeaves
<1>3. Level(t, k) = UnrefStep(p)
  BY <1>1, Levels
<1>4. \A q : UnrefStep(q) = UnrefStep(p) => q = p
  BY DEF UnrefStep
<1>5. \A q : Unrefs(t, q)' = {l \in 1..d : Level(t, l)' = UnrefStep(q)}
  BY <1>1 DEF Unrefs, UnrefStep
<1>6. \A q : Unrefs(t, q)' = {l \in 1..d : Level(t, l) = UnrefStep(q)}
  BY <1>2, <1>5
<1>7. \A l : l \in 1..d <=> l \in 1..k /\ l # k
  BY <1>2
<1>8. \A q : Unrefs(t, q) = {l \in 1..k : Level(t, l) = UnrefStep(q)}
  BY <1>1 DEF Unrefs
<1>9. k \in Unrefs(t, p) /\ \A q : q # p => k \notin Unrefs(t, q)
  BY <1>2, <1>3, <1>4, <1>8
<1>10. \A q : Unrefs(t, q)' = Unrefs(t, q) \ {k}
  BY <1>6, <1>7, <1>8
<1>11. QED
  BY <1>1, <1>9, <1>10

LEMMA UnrefsCalm ==
  ASSUME TypeOK, NEW t \in Threads, stack[t] # <<>>, Calm(t), Top(t).step # "unref", NEW q
  PROVE  Unrefs(t, q)' = Unrefs(t, q)
<1>1. PICK k, d : k = Depth(t) /\ d = Depth(t)'
  OBVIOUS
<1>2. /\ k \in Nat /\ k > 0 /\ d \in Nat /\ k - 1 <= d
      /\ \A l \in 1..d : \/ l \in 1..k /\ Level(t, l)' = Level(t, l)
                         \/ l = k /\ Level(t, l)'.step \in {"run", "complete", "release", "scan", "submit"}
                         \/ l > k /\ Level(t, l)'.step = "callback"
  BY <1>1, Levels DEF Calm, QuietStep
<1>3. Level(t, k) # UnrefStep(q)
  BY <1>1, Levels DEF UnrefStep
<1>4. \A f : f.step # "unref" => f # UnrefStep(q)
  BY DEF UnrefStep
<1>5. Unrefs(t, q)' = {l \in 1..d : Level(t, l)' = UnrefStep(q)}
  BY <1>1 DEF Unrefs, UnrefStep
<1>6. ASSUME NEW l
      PROVE  l \in 1..d /\ Level(t, l)' = UnrefStep(q) <=> l \in 1..k /\ Level(t, l) = UnrefStep(q)
  <2>1. ASSUME l \in 1..d, Level(t, l)' = UnrefStep(q)
        PROVE  l \in 1..k /\ Level(t, l) = UnrefStep(q)
    <3>1. Level(t, l)'.step = "unref"
      BY <2>1 DEF UnrefStep
    <3>2. QED
      BY <1>2, <2>1, <3>1
  <2>2. ASSUME l \in 1..k, Level(t, l) = UnrefStep(q)
        PROVE  l \in 1..d /\ Level(t, l)' = UnrefStep(q)
    <3>1. l # k /\ l \in 1..d
      BY <1>2, <1>3, <2>2
    <3>2. ~(l = k) /\ ~(l > k)
      BY <1>2, <2>2, <3>1
    <3>3. QED
      BY <1>2, <2>2, <3>1, <3>2
  <2>3. QED
    BY <2>1, <2>2
<1>7. QED
  BY <1>1, <1>5, <1>6 DEF Unrefs

LEMMA LiveSame ==
  ASSUME OwnersKept, \A e \in Events : event'[e].refs > 0 <=> event[e].refs > 0, NEW q
  PROVE  LiveEvents(q)' = LiveEvents(q)
BY DEF OwnersKept, LiveEvents

\* The counts add up again: nothing moves, or an event in use becomes a release
\* that is under way.
LEMMA RefsStay ==
  ASSUME NEW t, RefsOK(t), UNCHANGED <<qrefs, quser>>,
         \A q \in Queues : LiveEvents(q)' = LiveEvents(q) /\ Unrefs(t, q)' = Unrefs(t, q)
  PROVE  RefsOK(t)'
BY DEF RefsOK

LEMMA RefsPassOn ==
  ASSUME TypeOK, NEW t \in Threads, RefsOK(t), UNCHANGED <<qrefs, quser>>, OwnersKept,
         NEW e \in Events, event[e].refs > 0, event'[e].refs = 0,
         \A x \in Events : x # e => event'[x].refs = event[x].refs,
         NEW p, p = event[e].queue, NEW m, m \notin Unrefs(t, p),
         Unrefs(t, p)' = Unrefs(t, p) \cup {m},
         \A q : q # p => Unrefs(t, q)' = Unrefs(t, q)
  PROVE  RefsOK(t)'
<1>1. ASSUME NEW q \in Queues
      PROVE  qrefs'[q] = quser'[q] + Cardinality(LiveEvents(q)') + Cardinality(Unrefs(t, q)')
  <2>1. qrefs[q] = quser[q] + Cardinality(LiveEvents(q)) + Cardinality(Unrefs(t, q))
    BY DEF RefsOK
  <2>2. /\ IsFiniteSet(LiveEvents(q)) /\ Cardinality(LiveEvents(q)) \in Nat
        /\ IsFiniteSet(Unrefs(t, q)) /\ Cardinality(Unrefs(t, q)) \in Nat
        /\ quser[q] \in Nat
    BY CountedFinite DEF TypeOK
  <2>3. CASE q = p
    <3>1. LiveEvents(q)' = LiveEvents(q) \ {e} /\ e \in LiveEvents(q)
      BY <2>3 DEF LiveEvents, OwnersKept
    <3>2. m \notin Unrefs(t, q) /\ Unrefs(t, q)' = Unrefs(t, q) \cup {m}
      BY <2>3
    <3>3. Cardinality(LiveEvents(q) \ {e}) = Cardinality(LiveEvents(q)) - 1
      BY <2>2, <3>1, FS_RemoveElement
    <3>4. Cardinality(Unrefs(t, q) \cup {m}) = Cardinality(Unrefs(t, q)) + 1
      BY <2>2, <3>2, FS_AddElement
    <3>5. QED
      BY <2>1, <2>2, <3>1, <3>2, <3>3, <3>4
  <2>4. CASE q # p
    <3>1. LiveEvents(q)' = LiveEvents(q)
      BY <2>4 DEF LiveEvents, OwnersKept
    <3>2. Unrefs(t, q)' = Unrefs(t, q)
      BY <2>4
    <3>3. QED
      BY <2>1, <3>1, <3>2
  <2>5. QED
    BY <2>3, <2>4
<1>2. QED
  BY <1>1 DEF RefsOK

\* The runtime without a release of an event.
LEMMA QuietKeepsRefs ==
  ASSUME TypeOK, NEW t \in Threads, PlacesOK(t), RuntimeStep(t), ~ReleaseImplicitEvent(t), RefsOK(t)
  PROVE  RefsOK(t)'
<1>1. OwnersKept /\ CountsKept
  BY RuntimeWrites
<1>2. \A q : LiveEvents(q)' = LiveEvents(q)
  BY <1>1, LiveSame DEF CountsKept
<1>3. UNCHANGED quser
  BY DEF RuntimeStep, AppendCommand, StampQueued, CallbackReturns, LockQueue, Scan, Submit,
     UnlockQueue, StartCommand, CompleteCommand, Return, UnrefQueue, RecycleEvent
<1>4. stack[t] # <<>> /\ Depth(t) \in Nat /\ Depth(t) \in 1..Depth(t)
      /\ Top(t) \in Steps /\ Level(t, Depth(t)) = Top(t)
  BY LoopShape, Levels, TopTyped
<1>5. CASE UnrefQueue(t)
  <2>1. PICK p : p = Top(t).q
    OBVIOUS
  <2>2. /\ Top(t) = UnrefStep(p) /\ Replace(t, <<>>)
        /\ qrefs' = [qrefs EXCEPT ![p] = @ - 1] /\ p \in Queues
    <3>1. Top(t).step = "unref"
      BY <1>5 DEF UnrefQueue, At, Top
    <3>2. Top(t) \in UnrefSteps
      BY <1>4, <3>1, StepKinds
    <3>3. QED
      BY <1>4, <1>5, <2>1, <3>1, <3>2, UnrefKind DEF UnrefQueue, UnrefSteps
  <2>3. /\ Depth(t) \in Unrefs(t, p) /\ Unrefs(t, p)' = Unrefs(t, p) \ {Depth(t)}
        /\ \A q : q # p => Unrefs(t, q)' = Unrefs(t, q)
    BY <1>4, <2>2, UnrefsLess
  <2>4. ASSUME NEW q \in Queues
        PROVE  qrefs'[q] = quser'[q] + Cardinality(LiveEvents(q)') + Cardinality(Unrefs(t, q)')
    <3>1. qrefs[q] = quser[q] + Cardinality(LiveEvents(q)) + Cardinality(Unrefs(t, q))
      BY DEF RefsOK
    <3>2. /\ Cardinality(LiveEvents(q)) \in Nat /\ quser[q] \in Nat /\ qrefs[q] \in Int
          /\ IsFiniteSet(Unrefs(t, q)) /\ Cardinality(Unrefs(t, q)) \in Nat
          /\ qrefs'[q] = IF q = p THEN qrefs[q] - 1 ELSE qrefs[q]
      BY <2>2, CountedFinite DEF TypeOK
    <3>3. CASE q = p
      <4>1. PICK m : m = Depth(t)
        OBVIOUS
      <4>2. Cardinality(Unrefs(t, q) \ {m}) = Cardinality(Unrefs(t, q)) - 1
        BY <2>3, <3>2, <3>3, <4>1, FS_RemoveElement
      <4>3. m \in Unrefs(t, q) /\ Unrefs(t, q)' = Unrefs(t, q) \ {m}
        BY <2>3, <3>3, <4>1
      <4>4. Cardinality(Unrefs(t, q)') = Cardinality(Unrefs(t, q)) - 1
        BY <4>2, <4>3
      <4>5. quser'[q] = quser[q] /\ LiveEvents(q)' = LiveEvents(q) /\ qrefs'[q] = qrefs[q] - 1
        BY <1>2, <1>3, <3>2, <3>3
      <4>6. QED
        BY <3>1, <3>2, <4>4, <4>5
    <3>4. CASE q # p
      BY <1>2, <1>3, <2>3, <3>1, <3>2, <3>4
    <3>5. QED
      BY <3>3, <3>4
  <2>5. QED
    BY <2>4 DEF RefsOK
<1>6. CASE ~UnrefQueue(t)
  <2>1. Top(t).step # "unref" /\ UNCHANGED qrefs
    BY <1>6 DEF RuntimeStep, AppendCommand, StampQueued, CallbackReturns, LockQueue, Scan, Submit,
       UnlockQueue, StartCommand, CompleteCommand, Return, RecycleEvent, At, Top
  <2>2. \A q : Unrefs(t, q)' = Unrefs(t, q)
    BY <1>4, <2>1, QuietShape, UnrefsCalm
  <2>3. QED
    BY <1>2, <1>3, <2>1, <2>2, RefsStay
<1>7. QED
  BY <1>5, <1>6

\* That leaves one release of the queue under way.
LEMMA FreeUnrefs ==
  ASSUME TypeOK, NEW t \in Threads, NEW e \in Events, NEW p, NEW k, Frees(t, e, p, k)
  PROVE  /\ k + 2 \notin Unrefs(t, p) /\ Unrefs(t, p)' = Unrefs(t, p) \cup {k + 2}
         /\ \A q : q # p => Unrefs(t, q)' = Unrefs(t, q)
<1>1. PICK d : d = Depth(t)'
  OBVIOUS
<1>2. /\ k \in Nat /\ k = Depth(t) /\ d = k + 3
      /\ \A l \in 1..k : l < k => Level(t, l)' = Level(t, l)
      /\ k > 0 => Level(t, k)'.step = "run" /\ Level(t, k).step = "release"
      /\ Level(t, k + 1)' = RecycleStep(e) /\ Level(t, k + 2)' = UnrefStep(p)
      /\ Level(t, k + 3)' = LockStep(p, {})
  BY <1>1 DEF Frees
<1>3. \A q : /\ UnrefStep(q) # RecycleStep(e) /\ UnrefStep(q) # LockStep(p, {})
             /\ UnrefStep(q) = UnrefStep(p) => q = p
  BY DEF UnrefStep, RecycleStep, LockStep
<1>4. \A q, f : f.step = "run" \/ f.step # "unref" => f # UnrefStep(q)
  BY DEF UnrefStep
<1>5. \A q : Unrefs(t, q)' = {l \in 1..d : Level(t, l)' = UnrefStep(q)}
  BY <1>1 DEF Unrefs, UnrefStep
<1>6. ASSUME NEW q, NEW l
      PROVE  l \in 1..d /\ Level(t, l)' = UnrefStep(q) <=>
               (l \in 1..Depth(t) /\ Level(t, l) = UnrefStep(q)) \/ (q = p /\ l = k + 2)
  <2>0. Depth(t) \in Nat /\ Depth(t) = k
    BY <1>2
  <2>1. CASE l \in 1..d /\ l < k
    BY <1>2, <2>0, <2>1
  <2>2. CASE l = k
    <3>1. k > 0 => Level(t, l)' # UnrefStep(q) /\ Level(t, l) # UnrefStep(q)
      BY <1>2, <1>4, <2>2
    <3>2. k = 0 => l \notin 1..d /\ l \notin 1..Depth(t)
      BY <2>0, <2>2
    <3>3. QED
      BY <2>0, <2>2, <3>1, <3>2
  <2>3. CASE l \in 1..d /\ l > k
    <3>1. l = k + 1 \/ l = k + 2 \/ l = k + 3
      BY <1>1, <1>2, <2>3
    <3>2. l \notin 1..Depth(t)
      BY <2>0, <2>3
    <3>3. l = k + 1 => Level(t, l)' # UnrefStep(q)
      BY <1>2, <1>3
    <3>4. l = k + 3 => Level(t, l)' # UnrefStep(q)
      BY <1>2, <1>3
    <3>5. l = k + 2 => (Level(t, l)' = UnrefStep(q) <=> q = p)
      BY <1>2, <1>3
    <3>6. l # k + 2 => Level(t, l)' # UnrefStep(q)
      BY <3>1, <3>3, <3>4
    <3>7. QED
      BY <2>3, <3>2, <3>5, <3>6
  <2>4. CASE l \notin 1..d
    BY <1>2, <2>0, <2>4
  <2>5. QED
    BY <1>1, <1>2, <2>1, <2>2, <2>3, <2>4
<1>7. k + 2 \notin Unrefs(t, p)
  BY <1>2 DEF Unrefs
<1>8. Unrefs(t, p)' = Unrefs(t, p) \cup {k + 2}
  BY <1>5, <1>6 DEF Unrefs
<1>9. \A q : q # p => Unrefs(t, q)' = Unrefs(t, q)
  BY <1>5, <1>6 DEF Unrefs
<1>10. QED
  BY <1>7, <1>8, <1>9

LEMMA FreedKeepsRefs ==
  ASSUME TypeOK, NEW t \in Threads, RefsOK(t), UNCHANGED <<qrefs, quser>>,
         NEW e, NEW p, NEW k, Frees(t, e, p, k), LastGiven(e)
  PROVE  RefsOK(t)'
<1>1. /\ OwnersKept /\ e \in Events /\ event[e].refs > 0 /\ event'[e].refs = 0
      /\ \A x \in Events : x # e => event'[x].refs = event[x].refs
  BY DEF LastGiven
<1>2. /\ k + 2 \notin Unrefs(t, p) /\ Unrefs(t, p)' = Unrefs(t, p) \cup {k + 2}
      /\ \A q : q # p => Unrefs(t, q)' = Unrefs(t, q)
  BY <1>1, FreeUnrefs
<1>3. p = event[e].queue
  BY DEF Frees
<1>4. QED
  BY <1>1, <1>2, <1>3, RefsPassOn

\* The release of an event the client never saw.
LEMMA ReleaseKeepsRefs ==
  ASSUME TypeOK, NEW t \in Threads, PlacesOK(t), ReleaseImplicitEvent(t), CellsOK(t), RefsOK(t)
  PROVE  RefsOK(t)'
<1>1. UNCHANGED <<qrefs, quser>> /\ stack[t] # <<>> /\ Top(t).step # "unref"
  BY DEF ReleaseImplicitEvent, At, Top
<1>2. CASE Calm(t) /\ UNCHANGED event
  <2>1. \A q : LiveEvents(q)' = LiveEvents(q)
    BY <1>2 DEF LiveEvents, Events
  <2>2. \A q : Unrefs(t, q)' = Unrefs(t, q)
    BY <1>1, <1>2, UnrefsCalm
  <2>3. QED
    BY <1>1, <2>1, <2>2, RefsStay
<1>3. QED
  BY <1>1, <1>2, ReleaseShape, FreedKeepsRefs

\* The other calls of the client.
LEMMA CallKeepsRefs ==
  ASSUME NEW t, Threads = {t}, TypeOK, OtherCall(t), CellsOK(t), RefsOK(t)
  PROVE  RefsOK(t)'
<1>1. /\ t \in Threads /\ stack[t] = <<>> /\ Depth(t) = 0
      /\ \A q : Unrefs(t, q) = {}
  <2>1. t \in Threads
    OBVIOUS
  <2>2. stack[t] = <<>>
    BY <2>1, CallView
  <2>3. Depth(t) = 0 /\ 1..0 = {}
    BY <2>1, <2>2, Levels
  <2>4. QED
    BY <2>1, <2>2, <2>3 DEF Unrefs
<1>2. ASSUME UNCHANGED stack
      PROVE  \A q : Unrefs(t, q)' = Unrefs(t, q)
  BY <1>2 DEF Unrefs, Depth, Level, UnrefStep
<1>3. ASSUME UNCHANGED event
      PROVE  \A q : LiveEvents(q)' = LiveEvents(q)
  BY <1>3 DEF LiveEvents, Events
<1>4. ASSUME NEW p \in Queues, NEW due \in SUBSET Commands, Push(t, <<LockStep(p, due)>>)
      PROVE  \A q : Unrefs(t, q)' = Unrefs(t, q)
  <2>1. PICK s : s = <<LockStep(p, due)>>
    OBVIOUS
  <2>2. LockStep(p, due) \in Steps /\ LockStep(p, due).step = "lock"
    BY DEF LockStep, LockSteps, Steps
  <2>3. s \in Seq(Steps) /\ Len(s) \in Nat /\ \A i \in 1..Len(s) : s[i].step = "lock"
    BY <2>1, <2>2
  <2>4. Onto(t, Depth(t), s)
    BY <1>1, <1>4, <2>1, <2>3, Pushed
  <2>5. \A q : \A i \in 1..Len(s) : s[i] # UnrefStep(q)
    BY <2>3 DEF UnrefStep
  <2>6. \A l \in 1..Depth(t) : ~(l > Depth(t))
    BY <1>1
  <2>7. QED
    BY <1>1, <2>3, <2>4, <2>5, <2>6, UnrefsSame
<1>5. CASE \E q \in Queues : Finish(t, q)
  <2>1. PICK q \in Queues : Finish(t, q)
    BY <1>5
  <2>2. Linked(q) \in SUBSET Commands
    BY DEF Linked
  <2>3. QED
    BY <1>3, <1>4, <2>1, <2>2, RefsStay DEF Finish
<1>6. CASE \E e \in Events : WaitForEvent(t, e)
  <2>1. PICK e \in Events : WaitForEvent(t, e)
    BY <1>6
  <2>2. event[e].queue \in Queues /\ {event[e].cmd} \in SUBSET Commands
    BY EventTyped
  <2>3. QED
    BY <1>3, <1>4, <2>1, <2>2, RefsStay DEF WaitForEvent
<1>7. CASE \E e \in Events : SetEventCallback(t, e)
  <2>1. PICK e \in Events : SetEventCallback(t, e)
    BY <1>7
  <2>2. PICK n : n = event[e].callbacks + 1
    OBVIOUS
  <2>3. event' = [event EXCEPT ![e].callbacks = n] /\ UNCHANGED <<stack, qrefs, quser>>
    BY <2>1, <2>2 DEF SetEventCallback, TypeOK, Events
  <2>4. OwnersKept /\ CountsKept
    BY <2>3, CallbacksWritten
  <2>5. \A q : LiveEvents(q)' = LiveEvents(q)
    BY <2>4, LiveSame DEF CountsKept
  <2>6. QED
    BY <1>2, <2>3, <2>5, RefsStay
<1>8. ASSUME NEW e \in Events, NEW n, NEW m, Counts(t, e, n, m)
      PROVE  RefsOK(t)'
  <2>1. /\ OwnersKept /\ event'[e].refs = n
        /\ \A x \in Events : x # e => event'[x].refs = event[x].refs
    BY <1>8, ReferencesWritten
  <2>2. event[e].user > 0 /\ UNCHANGED <<qrefs, quser>>
    BY <1>8 DEF Counts, RetainEvent, ReleaseEvent, OwnsEvent
  <2>3. event[e].refs = event[e].user /\ event[e].refs \in Nat
    <3>1. event[e].cmd \in Commands /\ event[e].user \in Nat
      BY EventTyped
    <3>2. CellOK(t, e, event[e].cmd)
      BY <3>1 DEF CellsOK
    <3>3. QED
      BY <2>2, <3>1, <3>2 DEF CellOK
  <2>4. CASE n > 0
    <3>1. UNCHANGED stack
      BY <1>8, <2>2, <2>3, <2>4 DEF Counts, RetainEvent, ReleaseEvent
    <3>2. \A x \in Events : event'[x].refs > 0 <=> event[x].refs > 0
      BY <2>1, <2>2, <2>3, <2>4
    <3>3. QED
      BY <1>2, <2>1, <2>2, <3>1, <3>2, LiveSame, RefsStay
  <2>5. CASE ~(n > 0)
    <3>1. event[e].refs = 1 /\ ReleaseEvent(t, e)
      BY <1>8, <2>2, <2>3, <2>5 DEF Counts, RetainEvent, ReleaseEvent
    <3>2. QED
      BY <1>1, <2>2, <3>1, LastShape, FreedKeepsRefs
  <2>6. QED
    BY <2>4, <2>5
<1>9. CASE \E e \in Events : RetainEvent(t, e) \/ ReleaseEvent(t, e)
  BY <1>8, <1>9 DEF Counts
<1>10. CASE \E q \in Queues : RetainQueue(t, q)
  <2>1. PICK p \in Queues : RetainQueue(t, p)
    BY <1>10
  <2>2. /\ UNCHANGED <<stack, event>> /\ qrefs' = [qrefs EXCEPT ![p] = @ + 1]
        /\ quser' = [quser EXCEPT ![p] = @ + 1]
    BY <2>1 DEF RetainQueue
  <2>3. ASSUME NEW q \in Queues
        PROVE  qrefs'[q] = quser'[q] + Cardinality(LiveEvents(q)') + Cardinality(Unrefs(t, q)')
    <3>1. LiveEvents(q)' = LiveEvents(q) /\ Unrefs(t, q)' = Unrefs(t, q)
      BY <1>2, <1>3, <2>2
    <3>2. qrefs[q] = quser[q] + Cardinality(LiveEvents(q)) + Cardinality(Unrefs(t, q))
      BY DEF RefsOK
    <3>3. /\ qrefs[q] \in Int /\ quser[q] \in Nat
          /\ Cardinality(LiveEvents(q)) \in Nat /\ Cardinality(Unrefs(t, q)) \in Nat
      BY <1>1, CountedFinite DEF TypeOK
    <3>4. /\ qrefs'[q] = IF q = p THEN qrefs[q] + 1 ELSE qrefs[q]
          /\ quser'[q] = IF q = p THEN quser[q] + 1 ELSE quser[q]
      BY <2>2 DEF TypeOK
    <3>5. QED
      BY <3>1, <3>2, <3>3, <3>4
  <2>4. QED
    BY <2>3 DEF RefsOK
<1>11. CASE \E q \in Queues : ReleaseQueue(t, q)
  <2>1. PICK p \in Queues : ReleaseQueue(t, p)
    BY <1>11
  <2>2. /\ UNCHANGED <<qrefs, event>> /\ quser' = [quser EXCEPT ![p] = @ - 1] /\ quser[p] > 0
        /\ Push(t, ReleaseQueueSteps(p))
    BY <2>1 DEF ReleaseQueue, OwnsQueue
  <2>3. PICK s : s = ReleaseQueueSteps(p)
    OBVIOUS
  <2>4. /\ s \in Seq(Steps) /\ Len(s) = 2 /\ s[1] = LockStep(p, {}) /\ s[2] = UnrefStep(p)
    <3>1. s \in Seq(Steps)
      BY <2>3, ReleaseStepsTyped
    <3>2. s = <<LockStep(p, {}), UnrefStep(p)>>
      BY <2>3 DEF ReleaseQueueSteps
    <3>3. QED
      BY <3>1, <3>2
  <2>5. Onto(t, Depth(t), s)
    BY <1>1, <2>2, <2>3, <2>4, Pushed
  <2>6. \A q : LockStep(p, {}) # UnrefStep(q)
    BY DEF LockStep, UnrefStep
  <2>7. PICK j : j = 2
    OBVIOUS
  <2>8. /\ Len(s) \in Nat /\ j \in 1..Len(s) /\ s[j] = UnrefStep(p)
        /\ \A q : \A i \in 1..Len(s) : i # j => s[i] # UnrefStep(q)
        /\ \A q : \A l \in 1..Depth(t) : l > Depth(t) => Level(t, l) # UnrefStep(q)
    <3>1. \A i \in 1..Len(s) : i # j => i = 1
      BY <2>4, <2>7
    <3>2. QED
      BY <1>1, <2>4, <2>6, <2>7, <3>1
  <2>9. /\ \E m : m \notin Unrefs(t, p) /\ Unrefs(t, p)' = Unrefs(t, p) \cup {m}
        /\ \A q : q # p => Unrefs(t, q)' = Unrefs(t, q)
    BY <1>1, <2>5, <2>8, UnrefsMore
  <2>10. ASSUME NEW q \in Queues
         PROVE  qrefs'[q] = quser'[q] + Cardinality(LiveEvents(q)') + Cardinality(Unrefs(t, q)')
    <3>1. LiveEvents(q)' = LiveEvents(q) /\ qrefs'[q] = qrefs[q]
      BY <1>3, <2>2
    <3>2. qrefs[q] = quser[q] + Cardinality(LiveEvents(q)) + Cardinality(Unrefs(t, q))
      BY DEF RefsOK
    <3>3. /\ quser[q] \in Nat /\ Cardinality(LiveEvents(q)) \in Nat
          /\ IsFiniteSet(Unrefs(t, q)) /\ Cardinality(Unrefs(t, q)) \in Nat
          /\ quser'[q] = IF q = p THEN quser[q] - 1 ELSE quser[q]
      BY <1>1, <2>2, CountedFinite DEF TypeOK
    <3>4. CASE q = p
      <4>1. PICK m : m \notin Unrefs(t, p) /\ Unrefs(t, p)' = Unrefs(t, p) \cup {m}
        BY <2>9
      <4>2. Cardinality(Unrefs(t, q) \cup {m}) = Cardinality(Unrefs(t, q)) + 1
        BY <3>3, <3>4, <4>1, FS_AddElement
      <4>3. Cardinality(Unrefs(t, q)') = Cardinality(Unrefs(t, q)) + 1
        BY <3>4, <4>1, <4>2
      <4>4. QED
        BY <3>1, <3>2, <3>3, <3>4, <4>3
    <3>5. CASE q # p
      BY <2>9, <3>1, <3>2, <3>3, <3>5
    <3>6. QED
      BY <3>4, <3>5
  <2>11. QED
    BY <2>10 DEF RefsOK
<1>12. QED
  BY <1>5, <1>6, <1>7, <1>9, <1>10, <1>11 DEF OtherCall

\* A new event is a new reference to its queue.
LEMMA EnqueueKeepsRefs ==
  ASSUME TypeOK, OwnersOK, NEW t \in Threads, NEW p \in Queues,
         NEW explicit \in BOOLEAN, NEW blocking \in BOOLEAN,
         NEW waits \in WaitLists(t, p), Enqueue(t, p, waits, explicit, blocking),
         CellsOK(t), PoolOK(t), RefsOK(t)
  PROVE  RefsOK(t)'
<1>1. PICK c, x : c = Len(command) + 1 /\ x = NewEvent
  OBVIOUS
<1>2. Steps \subseteq Steps' /\ EnqueueAdds(t, p, c)
  BY <1>1, EnqueueShape
<1>3. CreateEvent(p, c, explicit) /\ qrefs' = [qrefs EXCEPT ![p] = @ + 1] /\ quser' = quser
  BY <1>1, Zenon DEF Enqueue
<1>4. /\ Events' = Events \cup {x} /\ event'[x].queue = p /\ event'[x].refs = 1
      /\ \A e \in Events : e # x => event'[e] = event[e]
      /\ x \notin Events \/ (pool # <<>> /\ x = Head(pool))
  BY <1>1, <1>3, EventEntered
<1>5. PICK s \in Seq(Steps') :
        /\ Push(t, s) /\ Len(s) \in {2, 3}
        /\ s[1] = EnqueueStep("append", p, c) /\ s[2] = EnqueueStep("stamp", p, c)
        /\ Len(s) = 3 => s[3] = LockStep(p, Linked(p) \cup {c})
  BY <1>2 DEF EnqueueAdds
<1>6. Len(s) \in Nat /\ \A i \in 1..Len(s) : s[i].step \in {"append", "stamp", "lock"}
  <2>1. \A i \in 1..Len(s) : i = 1 \/ i = 2 \/ (i = 3 /\ Len(s) = 3)
    <3>1. PICK n \in {2, 3} : n = Len(s)
      BY <1>5
    <3>2. QED
      BY <3>1
  <2>2. QED
    BY <1>5, <2>1 DEF EnqueueStep, LockStep
<1>7. ASSUME NEW q
      PROVE  Unrefs(t, q)' = Unrefs(t, q)
  <2>1. Onto(t, Depth(t), s) /\ Depth(t) \in Nat
    BY <1>2, <1>5, Pushed, Levels
  <2>2. \A i \in 1..Len(s) : s[i] # UnrefStep(q)
    BY <1>6 DEF UnrefStep
  <2>3. \A l \in 1..Depth(t) : ~(l > Depth(t))
    BY <2>1
  <2>4. QED
    BY <1>6, <2>1, <2>2, <2>3, UnrefsSame
<1>8. x \in Events => ~(event[x].refs > 0)
  <2>1. ASSUME pool # <<>>, x = Head(pool)
        PROVE  event[x].refs = 0
    <3>1. pool \in Seq(Events)
      BY DEF TypeOK
    <3>2. Has(pool, x) /\ x \in Events
      BY <2>1, <3>1, HasTail, HeadTailProperties
    <3>3. QED
      BY <3>2 DEF OwnersOK, PoolOK
  <2>2. QED
    BY <1>4, <2>1
<1>9. ASSUME NEW q \in Queues
      PROVE  qrefs'[q] = quser'[q] + Cardinality(LiveEvents(q)') + Cardinality(Unrefs(t, q)')
  <2>1. qrefs[q] = quser[q] + Cardinality(LiveEvents(q)) + Cardinality(Unrefs(t, q))
    BY DEF RefsOK
  <2>2. /\ IsFiniteSet(LiveEvents(q)) /\ Cardinality(LiveEvents(q)) \in Nat
        /\ Cardinality(Unrefs(t, q)) \in Nat /\ quser[q] \in Nat /\ qrefs[q] \in Int
        /\ qrefs'[q] = IF q = p THEN qrefs[q] + 1 ELSE qrefs[q]
    BY <1>3, CountedFinite DEF TypeOK
  <2>3. CASE q = p
    <3>1. LiveEvents(q)' = LiveEvents(q) \cup {x} /\ x \notin LiveEvents(q)
      BY <1>4, <1>8, <2>3 DEF LiveEvents
    <3>2. Cardinality(LiveEvents(q)') = Cardinality(LiveEvents(q)) + 1
      BY <2>2, <3>1, FS_AddElement
    <3>3. QED
      BY <1>3, <1>7, <2>1, <2>2, <2>3, <3>2
  <2>4. CASE q # p
    <3>1. LiveEvents(q)' = LiveEvents(q)
      BY <1>4, <1>8, <2>4 DEF LiveEvents
    <3>2. QED
      BY <1>3, <1>7, <2>1, <2>2, <2>4, <3>1
  <2>5. QED
    BY <2>3, <2>4
<1>10. QED
  BY <1>9 DEF RefsOK

LEMMA RefsStep ==
  ASSUME NEW t, Threads = {t}, TypeOK, OwnersOK, PlacesOK(t), CellsOK(t), PoolOK(t), RefsOK(t),
         [Next]_vars
  PROVE  RefsOK(t)'
<1>1. t \in Threads
  OBVIOUS
<1>2. ASSUME ClientCall(t)
      PROVE  RefsOK(t)'
  <2>1. ASSUME NEW q \in Queues, NEW explicit \in BOOLEAN, NEW blocking \in BOOLEAN,
               NEW waits \in WaitLists(t, q), Enqueue(t, q, waits, explicit, blocking)
        PROVE  RefsOK(t)'
    BY <1>1, <2>1, EnqueueKeepsRefs
  <2>2. CASE OtherCall(t)
    BY <1>1, <2>2, CallKeepsRefs
  <2>3. QED
    BY <1>2, <2>1, <2>2 DEF ClientCall, OtherCall
<1>3. CASE UNCHANGED vars
  BY <1>3 DEF vars, RefsOK, LiveEvents, Events, Unrefs, Depth, Level, UnrefStep
<1>4. QED
  BY <1>1, <1>2, <1>3, QuietKeepsRefs, ReleaseKeepsRefs DEF Next

LEMMA RefsInit ==
  ASSUME NEW t \in Threads, Init
  PROVE  RefsOK(t)
<1>1. stack[t] = <<>> /\ event = <<>> /\ qrefs = [q \in Queues |-> 1] /\ quser = [q \in Queues |-> 1]
  BY DEF Init
<1>2. Events = {} /\ Depth(t) = 0 /\ 1..0 = {}
  BY <1>1 DEF Events, Depth
<1>3. \A q : LiveEvents(q) = {} /\ Unrefs(t, q) = {}
  BY <1>2 DEF LiveEvents, Unrefs
<1>4. ASSUME NEW q \in Queues
      PROVE  qrefs[q] = quser[q] + Cardinality(LiveEvents(q)) + Cardinality(Unrefs(t, q))
  <2>1. Cardinality(LiveEvents(q)) = 0 /\ Cardinality(Unrefs(t, q)) = 0
    BY <1>3, FS_EmptySet
  <2>2. qrefs[q] = 1 /\ quser[q] = 1
    BY <1>1
  <2>3. QED
    BY <2>1, <2>2
<1>5. QED
  BY <1>4 DEF RefsOK

\* The levels of the stack are its positions, counted from the other end.
LEMMA UnrefsCounted ==
  ASSUME TypeOK, NEW t, Threads = {t}, NEW q
  PROVE  Cardinality(UnrefsDue(q)) = Cardinality(Unrefs(t, q))
<1> DEFINE n == Depth(t)
           U == Unrefs(t, q)
           D == UnrefsDue(q)
           f == [l \in U |-> <<t, n + 1 - l>>]
<1>1. t \in Threads /\ n \in Nat /\ IsFiniteSet(U) /\ DOMAIN stack[t] = 1..n
  <2>1. t \in Threads /\ stack[t] \in Seq(Steps)
    BY DEF TypeOK
  <2>2. QED
    BY <2>1, CountedFinite, LenProperties DEF Depth
<1>2. D = {<<t, d>> : d \in Listed(stack[t], UnrefStep(q))}
  BY DEF UnrefsDue
<1>3. \A d : d \in Listed(stack[t], UnrefStep(q)) <=> d \in 1..n /\ stack[t][d] = UnrefStep(q)
  BY <1>1 DEF Listed
<1>4. \A l : l \in U <=> l \in 1..n /\ stack[t][n + 1 - l] = UnrefStep(q)
  BY DEF Unrefs, Level
<1> HIDE DEF n, U, D
<1>5. ASSUME NEW l \in U
      PROVE  <<t, n + 1 - l>> \in D
  <2>1. n + 1 - l \in 1..n /\ stack[t][n + 1 - l] = UnrefStep(q)
    BY <1>1, <1>4, <1>5
  <2>2. QED
    BY <1>2, <1>3, <2>1
<1>6. ASSUME NEW y \in D
      PROVE  \E l \in U : f[l] = y
  <2>1. PICK d : d \in 1..n /\ stack[t][d] = UnrefStep(q) /\ y = <<t, d>>
    BY <1>2, <1>3, <1>6
  <2>2. PICK l : l = n + 1 - d
    OBVIOUS
  <2>3. l \in 1..n /\ n + 1 - l = d
    BY <1>1, <2>1, <2>2
  <2>4. l \in U
    BY <1>4, <2>1, <2>3
  <2>5. QED
    BY <2>1, <2>3, <2>4
<1>7. ASSUME NEW l \in U, NEW m \in U, f[l] = f[m]
      PROVE  l = m
  <2>1. l \in Int /\ m \in Int /\ n + 1 - l = n + 1 - m
    BY <1>4, <1>7
  <2>2. QED
    BY <1>1, <2>1
<1>8. f \in Bijection(U, D)
  BY <1>5, <1>6, <1>7 DEF Bijection, Injection, Surjection, IsInjective
<1>9. ExistsBijection(U, D)
  BY <1>8 DEF ExistsBijection
<1>10. QED
  BY <1>1, <1>9, FS_Bijection DEF U, D

\* With one host thread the reference count of a queue is exactly what the
\* client owns, one for each event in use, and one for each release under way,
\* the nested ones included: no history of retains, releases, early releases
\* and recycled cells makes pocl_refcount drift.
THEOREM QueueCountsExact ==
  ASSUME NEW t, Threads = {t}
  PROVE  Spec => []QueueRefsExact
<1> DEFINE Inv == /\ OwnersOK /\ PlacesOK(t) /\ NestOK(t) /\ CellsOK(t) /\ PoolOK(t) /\ StatusOK(t)
                  /\ RefsOK(t)
<1>1. Init => Inv
  BY PlacesInit, DueInit, CellsInit, RefsInit
<1>2. TypeOK /\ TypeOK' /\ Inv /\ [Next]_vars => Inv'
  BY PlacesStep, OwnersStep, NestStep, CellsStep, StatusStep, RefsStep
<1>3. TypeOK /\ Inv => QueueRefsExact
  BY UnrefsCounted DEF RefsOK, QueueRefsExact
<1> HIDE DEF Inv
<1>4. QED
  BY <1>1, <1>2, <1>3, QueueTypes, PTL DEF Spec

-----------------------------------------------------------------------------
(* What keeps a queue alive while a thread is inside it.                       *)

\* The client owns a reference of the queue, or of one of its events.
Owned(q) == quser[q] > 0 \/ \E e \in Events : event[e].queue = q /\ event[e].user > 0

\* A flush is anchored by what the client owns, or by the release right below it;
\* a cell waits for its queue's release to be recycled.
Anchored(t, l, f) ==
  /\ f.step \in {"lock", "scan", "submit"} =>
       Owned(f.q) \/ (l > 1 /\ Level(t, l - 1) = UnrefStep(f.q))
  /\ f.step = "append" => quser[f.q] > 0
  /\ f.step = "recycle" /\ l < Depth(t) => Level(t, l + 1) = UnrefStep(event[f.e].queue)
AnchorsOK(t) == \A l \in 1..Depth(t) : Anchored(t, l, Level(t, l))

\* The event of a command that has not ended is freed only on the way to
\* being recycled.
FreedOK(t) ==
  \A c \in Commands \ finished :
    event[command[c].event].refs = 0 => \E l \in 1..Depth(t) : RecycleAt(t, l, command[c].event)

\* Nothing the client owns is taken from it.
OwnedStays ==
  /\ \A q : Owned(q) => Owned(q)'
  /\ \A q \in Queues : quser[q] > 0 => quser'[q] > 0

LEMMA OwnedKept ==
  ASSUME UNCHANGED quser, OwnersKept, \A e \in Events : event[e].user > 0 => event'[e].user > 0
  PROVE  OwnedStays
BY DEF OwnedStays, Owned, OwnersKept

\* The levels that stay are as well anchored as before.
LEMMA AnchorStays ==
  ASSUME TypeOK, NEW t \in Threads, OwnedStays, NEW k \in 0..Depth(t), k <= Depth(t)',
         \A m \in 1..k : Level(t, m)' = Level(t, m),
         NEW l \in 1..k, Anchored(t, l, Level(t, l)),
         Level(t, l).step = "recycle" =>
           /\ event'[Level(t, l).e].queue = event[Level(t, l).e].queue
           /\ l < Depth(t)' => l < k
  PROVE  Anchored(t, l, Level(t, l))'
<1>1. PICK f, d, p : f = Level(t, l) /\ d = Depth(t)' /\ p = Level(t, l - 1)
  OBVIOUS
<1>2. /\ k \in Nat /\ Depth(t) \in Nat /\ l \in Nat /\ l <= k /\ k <= Depth(t) /\ k <= d
      /\ l \in 1..Depth(t) /\ f \in Steps /\ Level(t, l)' = f
  BY <1>1, Levels
<1>3. l > 1 => Level(t, l - 1)' = p
  BY <1>1, <1>2
<1>4. /\ f.step \in {"lock", "scan", "submit"} => Owned(f.q) \/ (l > 1 /\ p = UnrefStep(f.q))
      /\ f.step = "append" => quser[f.q] > 0
      /\ f.step = "recycle" /\ l < Depth(t) => Level(t, l + 1) = UnrefStep(event[f.e].queue)
  BY <1>1 DEF Anchored
<1>5. f.step = "append" => quser'[f.q] > 0
  <2>1. f.step = "append" => f.q \in Queues
    BY <1>2, StepKinds DEF EnqueueSteps
  <2>2. QED
    BY <1>4, <2>1 DEF OwnedStays
<1>6. f.step \in {"lock", "scan", "submit"} =>
        Owned(f.q)' \/ (l > 1 /\ Level(t, l - 1)' = UnrefStep(f.q))
  BY <1>3, <1>4 DEF OwnedStays
<1>7. f.step = "recycle" /\ l < d => Level(t, l + 1)' = UnrefStep(event'[f.e].queue)
  <2>1. SUFFICES ASSUME f.step = "recycle", l < d
                 PROVE  Level(t, l + 1)' = UnrefStep(event'[f.e].queue)
    OBVIOUS
  <2>2. l + 1 \in 1..k /\ l < Depth(t) /\ event'[f.e].queue = event[f.e].queue
    BY <1>1, <1>2, <2>1
  <2>3. QED
    BY <1>4, <2>1, <2>2
<1>8. QED
  BY <1>1, <1>2, <1>5, <1>6, <1>7 DEF Anchored, UnrefStep

LEMMA AnchorsCalm ==
  ASSUME TypeOK, NEW t \in Threads, stack[t] # <<>>, Calm(t), OwnedStays, OwnersKept, AnchorsOK(t)
  PROVE  AnchorsOK(t)'
<1>1. PICK n, d : n = Depth(t) /\ d = Depth(t)'
  OBVIOUS
<1>2. /\ n \in Nat /\ n > 0 /\ d \in Nat /\ n - 1 <= d /\ Level(t, n) = Top(t) /\ n \in 1..n
      /\ d > n => Top(t).step \in Flushes
      /\ \A l \in 1..n : Level(t, l) \in Steps /\ Anchored(t, l, Level(t, l))
  BY <1>1, Levels DEF Calm, AnchorsOK
<1>3. ASSUME NEW l \in 1..d
      PROVE  \/ l \in 1..n /\ Level(t, l)' = Level(t, l)
             \/ l = n /\ Top(t).step \in Flushes /\ QuietStep(t, Level(t, l)')
             \/ l > n /\ Level(t, l)'.step = "callback"
  BY <1>1 DEF Calm
<1>4. \A l \in 1..n : Level(t, l).step = "recycle" =>
        event'[Level(t, l).e].queue = event[Level(t, l).e].queue
  BY <1>2, StepKinds DEF RecycleSteps, OwnersKept
<1>5. \A m \in 1..d : m < n => Level(t, m)' = Level(t, m)
  BY <1>2, <1>3
<1>6. ASSUME NEW k \in 0..n, k <= d, \A m \in 1..k : Level(t, m)' = Level(t, m),
             NEW l \in 1..k, Level(t, l).step = "recycle" /\ l < d => l < k
      PROVE  Anchored(t, l, Level(t, l))'
  <2>1. l \in 1..n
    BY <1>2, <1>6
  <2>2. Anchored(t, l, Level(t, l))
    BY <1>2, <2>1
  <2>3. Level(t, l).step = "recycle" =>
           /\ event'[Level(t, l).e].queue = event[Level(t, l).e].queue
           /\ l < Depth(t)' => l < k
    BY <1>1, <1>4, <1>6, <2>1
  <2>4. k \in 0..Depth(t) /\ k <= Depth(t)'
    BY <1>1, <1>6
  <2>5. QED
    BY <1>6, <2>2, <2>3, <2>4, AnchorStays
<1>7. ASSUME NEW l \in 1..d
      PROVE  Anchored(t, l, Level(t, l))'
  <2>1. CASE l > n
    <3>1. Level(t, l)'.step = "callback"
      BY <1>2, <1>3, <2>1
    <3>2. QED
      BY <3>1 DEF Anchored
  <2>2. CASE l <= n /\ ~(n \in 1..d)
    <3>1. d = n - 1 /\ d \in 0..n /\ l \in 1..d /\ d <= d /\ \A m \in 1..d : m < n
      BY <1>2, <2>2
    <3>2. QED
      BY <1>5, <1>6, <3>1
  <2>3. CASE l <= n /\ n \in 1..d /\ Level(t, n)' = Level(t, n)
    <3>1. n \in 0..n /\ n <= d /\ l \in 1..n /\ \A m \in 1..n : m \in 1..d /\ (m < n \/ m = n)
      BY <1>2, <2>3
    <3>2. \A m \in 1..n : Level(t, m)' = Level(t, m)
      BY <1>5, <2>3, <3>1
    <3>3. Level(t, l).step = "recycle" /\ l < d => l < n
      BY <1>2, <2>3 DEF Flushes
    <3>4. QED
      BY <1>6, <3>1, <3>2, <3>3
  <2>4. CASE l <= n /\ n \in 1..d /\ Top(t).step \in Flushes /\ QuietStep(t, Level(t, n)')
    <3>1. PICK k : k = n - 1
      OBVIOUS
    <3>2. k \in 0..n /\ k <= d /\ \A m \in 1..k : m \in 1..d /\ m < n /\ m \in 1..n
      BY <1>2, <2>4, <3>1
    <3>3. CASE l \in 1..k
      <4>1. \A m \in 1..k : Level(t, m)' = Level(t, m)
        BY <1>5, <3>2
      <4>2. ASSUME Level(t, l).step = "recycle", l = k
            PROVE  FALSE
        <5>1. Anchored(t, l, Level(t, l)) /\ l < n /\ l + 1 = n
          BY <1>2, <3>1, <3>2, <4>2
        <5>2. Top(t) = UnrefStep(event[Level(t, l).e].queue)
          BY <1>1, <1>2, <4>2, <5>1 DEF Anchored
        <5>3. QED
          BY <2>4, <5>2 DEF UnrefStep, Flushes
      <4>3. Level(t, l).step = "recycle" /\ l < d => l < k
        BY <3>2, <3>3, <4>2
      <4>4. QED
        BY <1>6, <3>2, <3>3, <4>1, <4>3
    <3>4. CASE l = n
      <4>1. PICK f, p : f = Level(t, l)' /\ p = Level(t, l - 1)
        OBVIOUS
      <4>2. f.step \notin {"lock", "append", "recycle"}
        BY <2>4, <3>4, <4>1 DEF QuietStep
      <4>3. f.step \in {"scan", "submit"} => Owned(f.q)' \/ (l > 1 /\ p = UnrefStep(f.q))
        <5>1. SUFFICES ASSUME f.step \in {"scan", "submit"}
                       PROVE  Owned(f.q)' \/ (l > 1 /\ p = UnrefStep(f.q))
          OBVIOUS
        <5>2. Top(t).step \in {"lock", "scan", "submit"} /\ f.q = Top(t).q
          BY <2>4, <3>4, <4>1, <5>1 DEF QuietStep
        <5>3. Anchored(t, l, Top(t))
          BY <1>2, <3>4
        <5>4. QED
          BY <4>1, <5>2, <5>3 DEF Anchored, OwnedStays
      <4>4. l > 1 => Level(t, l - 1)' = p
        <5>1. l > 1 => l - 1 \in 1..d /\ l - 1 < n
          BY <1>2, <2>4, <3>4
        <5>2. QED
          BY <1>5, <4>1, <5>1
      <4>5. QED
        BY <4>1, <4>2, <4>3, <4>4 DEF Anchored, UnrefStep
    <3>5. QED
      BY <2>4, <3>1, <3>3, <3>4
  <2>5. QED
    BY <1>2, <1>3, <2>1, <2>2, <2>3, <2>4
<1>8. QED
  BY <1>1, <1>7 DEF AnchorsOK

LEMMA AnchorsFreed ==
  ASSUME TypeOK, NEW t \in Threads, NEW e, NEW p, NEW k, Frees(t, e, p, k), OwnersKept, e \in Events,
         k > 0 => OwnedStays, AnchorsOK(t)
  PROVE  AnchorsOK(t)'
<1>1. PICK d : d = Depth(t)'
  OBVIOUS
<1>2. /\ k \in Nat /\ k = Depth(t) /\ d = k + 3 /\ p = event[e].queue
      /\ \A l \in 1..k : l < k => Level(t, l)' = Level(t, l)
      /\ k > 0 => Level(t, k)'.step = "run" /\ Level(t, k).step = "release"
      /\ Level(t, k + 1)' = RecycleStep(e) /\ Level(t, k + 2)' = UnrefStep(p)
      /\ Level(t, k + 3)' = LockStep(p, {})
  BY <1>1 DEF Frees
<1>3. \A l \in 1..k : Level(t, l) \in Steps /\ Anchored(t, l, Level(t, l))
  BY <1>2, Levels DEF AnchorsOK
<1>4. event'[e].queue = p
  BY <1>2 DEF OwnersKept
<1>5. ASSUME NEW l \in 1..d
      PROVE  Anchored(t, l, Level(t, l))'
  <2>1. CASE l < k
    <3>1. PICK j : j = k - 1
      OBVIOUS
    <3>2. /\ j \in 0..k /\ j <= d /\ l \in 1..j /\ k > 0 /\ l \in 1..k /\ l + 1 \in 1..k
          /\ \A m \in 1..j : m \in 1..k /\ m < k
      BY <1>2, <2>1, <3>1
    <3>3. \A m \in 1..j : Level(t, m)' = Level(t, m)
      BY <1>2, <3>2
    <3>4. Level(t, l).step = "recycle" => event'[Level(t, l).e].queue = event[Level(t, l).e].queue
      BY <1>3, <3>2, StepKinds DEF RecycleSteps, OwnersKept
    <3>5. ASSUME Level(t, l).step = "recycle", l = j
          PROVE  FALSE
      <4>1. Level(t, k) = UnrefStep(event[Level(t, l).e].queue)
        BY <1>2, <1>3, <3>1, <3>2, <3>5 DEF Anchored
      <4>2. QED
        BY <1>2, <3>2, <4>1 DEF UnrefStep
    <3>6. Level(t, l).step = "recycle" => l < j
      BY <3>2, <3>5
    <3>7. j \in 0..Depth(t) /\ j <= Depth(t)' /\ Anchored(t, l, Level(t, l))
      BY <1>1, <1>2, <1>3, <3>2
    <3>8. QED
      BY <3>2, <3>3, <3>4, <3>6, <3>7, AnchorStays
  <2>2. CASE l = k
    <3>1. Level(t, l)'.step = "run"
      BY <1>2, <2>2
    <3>2. QED
      BY <3>1 DEF Anchored
  <2>3. CASE l = k + 1
    <3>1. PICK f : f = Level(t, l)'
      OBVIOUS
    <3>2. f = RecycleStep(e) /\ Level(t, l + 1)' = UnrefStep(event'[e].queue)
      <4>1. l + 1 = k + 2
        BY <1>2, <2>3
      <4>2. QED
        BY <1>2, <1>4, <2>3, <3>1, <4>1
    <3>3. f.step = "recycle" /\ f.e = e
      BY <3>2 DEF RecycleStep
    <3>4. QED
      BY <3>1, <3>2, <3>3 DEF Anchored, UnrefStep
  <2>4. CASE l = k + 2
    <3>1. Level(t, l)'.step = "unref"
      BY <1>2, <2>4 DEF UnrefStep
    <3>2. QED
      BY <3>1 DEF Anchored
  <2>5. CASE l = k + 3
    <3>1. PICK f : f = Level(t, l)'
      OBVIOUS
    <3>2. f.step = "lock" /\ f.q = p
      BY <1>2, <2>5, <3>1 DEF LockStep
    <3>3. l > 1 /\ Level(t, l - 1)' = UnrefStep(p)
      <4>1. l > 1 /\ l - 1 = k + 2
        BY <1>2, <2>5
      <4>2. QED
        BY <1>2, <4>1
    <3>4. QED
      BY <3>1, <3>2, <3>3 DEF Anchored, UnrefStep
  <2>6. QED
    BY <1>1, <1>2, <2>1, <2>2, <2>3, <2>4, <2>5
<1>6. QED
  BY <1>1, <1>5 DEF AnchorsOK

\* The cell that is recycled now is the event of no command that has not ended.
LEMMA RecycledEnded ==
  ASSUME TypeOK, NEW t \in Threads, CellsOK(t), PoolOK(t), stack[t] # <<>>,
         NEW c \in Commands, c \notin finished
  PROVE  ~RecycleAt(t, Depth(t), command[c].event)
<1>1. PICK n, e : n = Depth(t) /\ e = command[c].event
  OBVIOUS
<1>2. n \in Nat /\ n \in 1..n /\ e \in Events /\ event[e].cmd = c
  BY <1>1, Levels, CommandTyped DEF CellsOK, Live
<1>3. ASSUME RecycleAt(t, n, e)
      PROVE  FALSE
  <2>1. RecycleOK(t, n, e, c)
    BY <1>1, <1>2, <1>3 DEF PoolOK
  <2>2. n + 2 \notin 1..n
    BY <1>2
  <2>3. QED
    BY <1>1, <2>1, <2>2 DEF RecycleOK, Covered
<1>4. QED
  BY <1>1, <1>3

LEMMA FreedCalm ==
  ASSUME TypeOK, NEW t \in Threads, CellsOK(t), PoolOK(t), stack[t] # <<>>, Calm(t), UNCHANGED command,
         finished \subseteq finished', \A e \in Events : event'[e].refs = event[e].refs, FreedOK(t)
  PROVE  FreedOK(t)'
<1>1. PICK n, d : n = Depth(t) /\ d = Depth(t)'
  OBVIOUS
<1>2. /\ n \in Nat /\ n > 0 /\ d \in Nat /\ n - 1 <= d
      /\ \A l \in 1..d : \/ l \in 1..n /\ Level(t, l)' = Level(t, l)
                         \/ l = n
                         \/ l > n
  BY <1>1, Levels DEF Calm
<1>3. ASSUME NEW c \in Commands, c \notin finished', event'[command[c].event].refs = 0
      PROVE  \E l \in 1..d : RecycleAt(t, l, command[c].event)'
  <2>1. PICK e : e = command[c].event
    OBVIOUS
  <2>2. c \notin finished /\ e \in Events /\ event[e].refs = 0 /\ e = command'[c].event
    BY <1>3, <2>1, CommandTyped
  <2>3. PICK l \in 1..n : RecycleAt(t, l, e)
    BY <1>1, <2>1, <2>2 DEF FreedOK
  <2>4. l # n
    BY <1>1, <2>1, <2>2, <2>3, RecycledEnded
  <2>5. l \in 1..d /\ ~(l > n)
    BY <1>2, <2>4
  <2>6. Level(t, l)' = Level(t, l)
    BY <1>2, <2>4, <2>5
  <2>7. RecycleAt(t, l, command[c].event)'
    BY <2>1, <2>2, <2>3, <2>6 DEF RecycleAt
  <2>8. QED
    BY <2>5, <2>7
<1>4. Commands' = Commands /\ \A c \in Commands : command'[c] = command[c]
  BY DEF Commands
<1>5. QED
  BY <1>1, <1>3, <1>4 DEF FreedOK

LEMMA FreedGiven ==
  ASSUME TypeOK, NEW t \in Threads, NEW e, NEW p, NEW k, Frees(t, e, p, k), LastGiven(e),
         UNCHANGED <<command, finished>>, FreedOK(t)
  PROVE  FreedOK(t)'
<1>1. PICK d : d = Depth(t)'
  OBVIOUS
<1>2. /\ k \in Nat /\ k = Depth(t) /\ d = k + 3
      /\ \A l \in 1..k : l < k => Level(t, l)' = Level(t, l)
      /\ k > 0 => Level(t, k).step = "release"
      /\ Level(t, k + 1)' = RecycleStep(e)
  BY <1>1 DEF Frees
<1>3. ASSUME NEW c \in Commands, c \notin finished, event'[command[c].event].refs = 0
      PROVE  \E l \in 1..d : RecycleAt(t, l, command[c].event)'
  <2>1. PICK x : x = command[c].event
    OBVIOUS
  <2>2. x \in Events /\ x = command'[c].event
    BY <2>1, CommandTyped
  <2>3. CASE x = e
    <3>1. RecycleAt(t, k + 1, command[c].event)'
      BY <1>2, <2>1, <2>2, <2>3 DEF RecycleAt, RecycleStep
    <3>2. k + 1 \in 1..d
      BY <1>2
    <3>3. QED
      BY <3>1, <3>2
  <2>4. CASE x # e
    <3>1. event[x].refs = 0
      BY <1>3, <2>1, <2>2, <2>4 DEF LastGiven
    <3>2. PICK l \in 1..k : RecycleAt(t, l, x)
      BY <1>2, <1>3, <2>1, <3>1 DEF FreedOK
    <3>3. l # k /\ l < k /\ l \in 1..d
      BY <1>2, <3>2 DEF RecycleAt
    <3>4. RecycleAt(t, l, command[c].event)'
      BY <1>2, <2>1, <2>2, <3>2, <3>3 DEF RecycleAt
    <3>5. QED
      BY <3>3, <3>4
  <2>5. QED
    BY <2>3, <2>4
<1>4. Commands' = Commands /\ \A c \in Commands : command'[c] = command[c]
  BY DEF Commands
<1>5. QED
  BY <1>1, <1>3, <1>4 DEF FreedOK

LEMMA FreedIdle ==
  ASSUME TypeOK, NEW t, Depth(t) = 0, UNCHANGED <<command, finished>>, FreedOK(t),
         \A e \in Events : event[e].refs # 0 => event'[e].refs # 0
  PROVE  FreedOK(t)'
<1>1. 1..Depth(t) = {} /\ Commands' = Commands
  BY DEF Commands
<1>2. \A c \in Commands \ finished : event[command[c].event].refs # 0
  BY <1>1 DEF FreedOK
<1>3. QED
  BY <1>1, <1>2, CommandTyped DEF FreedOK

\* The runtime on the way.
LEMMA RuntimeKeepsAnchors ==
  ASSUME TypeOK, NEW t \in Threads, PlacesOK(t), CellsOK(t), PoolOK(t), Later, RuntimeStep(t),
         AnchorsOK(t), FreedOK(t)
  PROVE  AnchorsOK(t)' /\ FreedOK(t)'
<1>1. UNCHANGED <<quser, command>> /\ stack[t] # <<>> /\ OwnersKept
  BY LoopShape, RuntimeWrites
     DEF RuntimeStep, AppendCommand, StampQueued, CallbackReturns, LockQueue, Scan, Submit,
     UnlockQueue, StartCommand, CompleteCommand, ReleaseImplicitEvent, Return, UnrefQueue, RecycleEvent
<1>2. CASE ~ReleaseImplicitEvent(t)
  <2>1. CountsKept /\ Calm(t)
    BY <1>2, RuntimeWrites, QuietShape
  <2>2. OwnedStays
    BY <1>1, <2>1, OwnedKept DEF CountsKept
  <2>3. QED
    BY <1>1, <2>1, <2>2, AnchorsCalm, FreedCalm DEF Later, CountsKept
<1>3. CASE ReleaseImplicitEvent(t)
  <2>1. UNCHANGED finished
    BY <1>3 DEF ReleaseImplicitEvent
  <2>2. CASE Calm(t) /\ UNCHANGED event
    <3>1. OwnedStays
      BY <1>1, <2>2, OwnedKept
    <3>2. QED
      BY <1>1, <2>1, <2>2, <3>1, AnchorsCalm, FreedCalm
  <2>3. CASE \E e, p, k : Frees(t, e, p, k) /\ LastGiven(e) /\ event[e].user = 0
    <3>1. PICK e, p, k : Frees(t, e, p, k) /\ LastGiven(e) /\ event[e].user = 0
      BY <2>3
    <3>2. e \in Events /\ \A x \in Events : event[x].user > 0 => x # e
      BY <3>1 DEF LastGiven
    <3>3. \A x \in Events : event[x].user > 0 => event'[x].user > 0
      BY <3>1, <3>2 DEF LastGiven
    <3>4. OwnedStays
      BY <1>1, <3>3, OwnedKept
    <3>5. QED
      BY <1>1, <2>1, <3>1, <3>2, <3>4, AnchorsFreed, FreedGiven
  <2>4. QED
    BY <1>3, <2>2, <2>3, ReleaseShape
<1>4. QED
  BY <1>2, <1>3

\* The client calls finish on a queue it owns, or on the queue of an event it owns.
LEMMA AnchorsLocked ==
  ASSUME TypeOK, NEW t \in Threads, stack[t] = <<>>, NEW p \in Queues, NEW due \in SUBSET Commands,
         Push(t, <<LockStep(p, due)>>), Owned(p)'
  PROVE  AnchorsOK(t)'
<1>1. PICK s, d : s = <<LockStep(p, due)>> /\ d = Depth(t)'
  OBVIOUS
<1>2. LockStep(p, due) \in Steps
  BY DEF LockStep, LockSteps, Steps
<1>3. s \in Seq(Steps) /\ Len(s) = 1 /\ s[1] = LockStep(p, due) /\ Depth(t) = 0
  BY <1>1, <1>2, Levels
<1>4. /\ d = Depth(t) + Len(s)
      /\ \A l \in 1..d : Level(t, l)' = IF l <= Depth(t) THEN Level(t, l) ELSE s[d + 1 - l]
  BY <1>1, <1>3, StepsAdded
<1>5. ASSUME NEW l \in 1..d
      PROVE  Anchored(t, l, Level(t, l))'
  <2>1. Level(t, l)' = LockStep(p, due)
    BY <1>3, <1>4
  <2>2. PICK f : f = Level(t, l)'
    OBVIOUS
  <2>3. f.step = "lock" /\ f.q = p
    BY <2>1, <2>2 DEF LockStep
  <2>4. QED
    BY <2>2, <2>3 DEF Anchored
<1>6. QED
  BY <1>1, <1>5 DEF AnchorsOK

LEMMA CallKeepsAnchors ==
  ASSUME NEW t, Threads = {t}, TypeOK, OtherCall(t), CellsOK(t), AnchorsOK(t), FreedOK(t)
  PROVE  AnchorsOK(t)' /\ FreedOK(t)'
<1>1. /\ t \in Threads /\ stack[t] = <<>> /\ Depth(t) = 0 /\ UNCHANGED <<command, finished>>
  <2>1. t \in Threads
    OBVIOUS
  <2>2. stack[t] = <<>> /\ UNCHANGED <<command, finished>>
    BY <2>1, CallView
  <2>3. QED
    BY <2>1, <2>2, Levels
<1>2. ASSUME UNCHANGED stack
      PROVE  AnchorsOK(t)'
  <2>1. Depth(t)' = 0 /\ 1..0 = {}
    BY <1>1, <1>2 DEF Depth
  <2>2. QED
    BY <2>1 DEF AnchorsOK
<1>3. ASSUME UNCHANGED event
      PROVE  FreedOK(t)'
  BY <1>1, <1>3, FreedIdle
<1>4. CASE \E q \in Queues : Finish(t, q)
  <2>1. PICK p \in Queues : Finish(t, p)
    BY <1>4
  <2>2. /\ UNCHANGED event /\ Linked(p) \in SUBSET Commands /\ Push(t, <<LockStep(p, Linked(p))>>)
        /\ Owned(p)'
    BY <2>1 DEF Finish, Linked, OwnsQueue, Owned
  <2>3. QED
    BY <1>1, <1>3, <2>2, AnchorsLocked
<1>5. CASE \E e \in Events : WaitForEvent(t, e)
  <2>1. PICK e \in Events : WaitForEvent(t, e)
    BY <1>5
  <2>2. PICK p, due : p = event[e].queue /\ due = {event[e].cmd}
    OBVIOUS
  <2>3. p \in Queues /\ due \in SUBSET Commands
    BY <2>2, EventTyped
  <2>4. UNCHANGED event /\ Push(t, <<LockStep(p, due)>>) /\ Owned(p)'
    BY <2>1, <2>2 DEF WaitForEvent, OwnsEvent, Owned, Events
  <2>5. QED
    BY <1>1, <1>3, <2>3, <2>4, AnchorsLocked
<1>6. CASE \E e \in Events : SetEventCallback(t, e)
  <2>1. PICK e \in Events : SetEventCallback(t, e)
    BY <1>6
  <2>2. PICK n : n = event[e].callbacks + 1
    OBVIOUS
  <2>3. event' = [event EXCEPT ![e].callbacks = n] /\ UNCHANGED stack
    BY <2>1, <2>2 DEF SetEventCallback, TypeOK, Events
  <2>4. CountsKept
    BY <2>3, CallbacksWritten
  <2>5. QED
    BY <1>1, <1>2, <2>3, <2>4, FreedIdle DEF CountsKept
<1>7. ASSUME NEW e \in Events, NEW n, NEW m, Counts(t, e, n, m)
      PROVE  AnchorsOK(t)' /\ FreedOK(t)'
  <2>1. /\ OwnersKept /\ event'[e].refs = n
        /\ \A x \in Events : x # e => event'[x].refs = event[x].refs
    BY <1>7, ReferencesWritten
  <2>2. event[e].user > 0
    BY <1>7 DEF Counts, RetainEvent, ReleaseEvent, OwnsEvent
  <2>3. event[e].refs = event[e].user /\ event[e].refs \in Nat
    <3>1. event[e].cmd \in Commands /\ event[e].user \in Nat
      BY EventTyped
    <3>2. CellOK(t, e, event[e].cmd)
      BY <3>1 DEF CellsOK
    <3>3. QED
      BY <2>2, <3>1, <3>2 DEF CellOK
  <2>4. CASE n > 0
    <3>1. UNCHANGED stack
      BY <1>7, <2>2, <2>3, <2>4 DEF Counts, RetainEvent, ReleaseEvent
    <3>2. \A x \in Events : event[x].refs # 0 => event'[x].refs # 0
      BY <2>1, <2>4
    <3>3. QED
      BY <1>1, <1>2, <3>1, <3>2, FreedIdle
  <2>5. CASE ~(n > 0)
    <3>1. event[e].refs = 1 /\ ReleaseEvent(t, e)
      BY <1>7, <2>2, <2>3, <2>5 DEF Counts, RetainEvent, ReleaseEvent
    <3>2. PICK p, k : Frees(t, e, p, k) /\ LastGiven(e)
      BY <1>1, <3>1, LastShape
    <3>3. ~(k > 0)
      BY <1>1, <3>2 DEF Frees
    <3>4. QED
      BY <1>1, <2>1, <3>2, <3>3, AnchorsFreed, FreedGiven
  <2>6. QED
    BY <2>4, <2>5
<1>8. CASE \E e \in Events : RetainEvent(t, e) \/ ReleaseEvent(t, e)
  BY <1>7, <1>8 DEF Counts
<1>9. CASE \E q \in Queues : RetainQueue(t, q)
  BY <1>2, <1>3, <1>9 DEF RetainQueue
<1>10. CASE \E q \in Queues : ReleaseQueue(t, q)
  <2>1. PICK p \in Queues : ReleaseQueue(t, p)
    BY <1>10
  <2>2. PICK s, d : s = ReleaseQueueSteps(p) /\ d = Depth(t)'
    OBVIOUS
  <2>3. UNCHANGED event /\ Push(t, s)
    BY <2>1, <2>2 DEF ReleaseQueue
  <2>4. /\ s \in Seq(Steps) /\ Len(s) = 2 /\ s[1] = LockStep(p, {}) /\ s[2] = UnrefStep(p)
    <3>1. s \in Seq(Steps)
      BY <2>2, ReleaseStepsTyped
    <3>2. s = <<LockStep(p, {}), UnrefStep(p)>>
      BY <2>2 DEF ReleaseQueueSteps
    <3>3. QED
      BY <3>1, <3>2
  <2>5. /\ d = Depth(t) + Len(s)
        /\ \A l \in 1..d : Level(t, l)' = IF l <= Depth(t) THEN Level(t, l) ELSE s[d + 1 - l]
    BY <1>1, <2>2, <2>3, <2>4, StepsAdded
  <2>6. d = 2 /\ Level(t, 1)' = UnrefStep(p) /\ Level(t, 2)' = LockStep(p, {})
    BY <1>1, <2>4, <2>5
  <2>7. Anchored(t, 1, Level(t, 1))'
    <3>1. Level(t, 1)'.step = "unref"
      BY <2>6 DEF UnrefStep
    <3>2. QED
      BY <3>1 DEF Anchored
  <2>8. Anchored(t, 2, Level(t, 2))'
    <3>1. PICK f : f = Level(t, 2)'
      OBVIOUS
    <3>2. f.step = "lock" /\ f.q = p /\ 2 - 1 = 1
      BY <2>6, <3>1 DEF LockStep
    <3>3. QED
      BY <2>6, <3>1, <3>2 DEF Anchored, UnrefStep
  <2>9. \A l \in 1..d : l = 1 \/ l = 2
    BY <2>6
  <2>10. AnchorsOK(t)'
    BY <2>2, <2>7, <2>8, <2>9 DEF AnchorsOK
  <2>11. QED
    BY <1>3, <2>3, <2>10
<1>11. QED
  BY <1>4, <1>5, <1>6, <1>8, <1>9, <1>10 DEF OtherCall

LEMMA EnqueueKeepsAnchors ==
  ASSUME TypeOK, OwnersOK, NEW t \in Threads, NEW p \in Queues,
         NEW explicit \in BOOLEAN, NEW blocking \in BOOLEAN,
         NEW waits \in WaitLists(t, p), Enqueue(t, p, waits, explicit, blocking),
         CellsOK(t), PoolOK(t), AnchorsOK(t), FreedOK(t)
  PROVE  AnchorsOK(t)' /\ FreedOK(t)'
<1>1. PICK c, x, n, d : c = Len(command) + 1 /\ x = NewEvent /\ n = Depth(t) /\ d = Depth(t)'
  OBVIOUS
<1>2. /\ Steps \subseteq Steps' /\ EnqueueAdds(t, p, c) /\ UNCHANGED finished
      /\ stack[t] = <<>> \/ Top(t).step = "callback"
  BY <1>1, EnqueueShape
<1>3. CreateEvent(p, c, explicit) /\ UNCHANGED quser /\ quser[p] > 0
  BY <1>1, Zenon DEF Enqueue, OwnsQueue
<1>4. /\ Events' = Events \cup {x} /\ event'[x].refs = 1
      /\ \A e \in Events : e # x => event'[e] = event[e]
      /\ x \notin Events \/ (pool # <<>> /\ x = Head(pool))
  BY <1>1, <1>3, EventEntered
<1>5. x \in Events => Has(pool, x) /\ event[x].user = 0
  <2>1. ASSUME pool # <<>>, x = Head(pool)
        PROVE  Has(pool, x) /\ event[x].user = 0
    <3>1. pool \in Seq(Events)
      BY DEF TypeOK
    <3>2. Has(pool, x) /\ x \in Events
      BY <2>1, <3>1, HasTail, HeadTailProperties
    <3>3. PICK b : b \in Commands /\ event[x].cmd = b
      BY <3>2 DEF OwnersOK
    <3>4. event[x].refs = 0 /\ CellOK(t, x, b)
      BY <3>2, <3>3 DEF PoolOK, CellsOK
    <3>5. QED
      BY <3>2, <3>3, <3>4 DEF CellOK
  <2>2. QED
    BY <1>4, <2>1
<1>6. PICK s \in Seq(Steps') :
        /\ Push(t, s) /\ Len(s) \in {2, 3}
        /\ s[1] = EnqueueStep("append", p, c) /\ s[2] = EnqueueStep("stamp", p, c)
        /\ Len(s) = 3 => s[3] = LockStep(p, Linked(p) \cup {c})
  BY <1>2 DEF EnqueueAdds
<1>7. /\ n \in Nat /\ Len(s) \in Nat /\ d = n + Len(s)
      /\ \A l \in 1..d : Level(t, l)' = IF l <= n THEN Level(t, l) ELSE s[d + 1 - l]
      /\ \A l \in 1..n : Level(t, l) \in Steps /\ Anchored(t, l, Level(t, l))
      /\ n > 0 => Level(t, n) = Top(t) /\ Top(t).step = "callback"
  BY <1>1, <1>2, <1>6, StepsAdded, Levels DEF AnchorsOK
<1>8. OwnedStays
  <2>1. \A e \in Events : event[e].user > 0 => e \in Events' /\ event'[e] = event[e]
    BY <1>4, <1>5
  <2>2. QED
    BY <1>3, <2>1 DEF OwnedStays, Owned
<1>9. ASSUME NEW l \in 1..n
      PROVE  Anchored(t, l, Level(t, l))'
  <2>1. ASSUME Level(t, l).step = "recycle"
        PROVE  event'[Level(t, l).e].queue = event[Level(t, l).e].queue /\ l < n
    <3>1. PICK e : e = Level(t, l).e
      OBVIOUS
    <3>2. e \in Events /\ RecycleAt(t, l, e)
      BY <1>7, <2>1, <3>1, StepKinds DEF RecycleSteps, RecycleAt
    <3>3. PICK b : b \in Commands /\ event[e].cmd = b
      BY <3>2 DEF OwnersOK
    <3>4. RecycleOK(t, l, e, b)
      BY <1>1, <3>2, <3>3 DEF PoolOK
    <3>5. e # x
      BY <1>5, <3>2, <3>4 DEF RecycleOK
    <3>6. l # n
      BY <1>7, <2>1
    <3>7. QED
      BY <1>4, <1>7, <3>1, <3>2, <3>5, <3>6
  <2>2. /\ n \in 0..Depth(t) /\ n <= Depth(t)' /\ \A m \in 1..n : Level(t, m)' = Level(t, m)
    BY <1>1, <1>7
  <2>3. Anchored(t, l, Level(t, l))
    BY <1>7
  <2>4. QED
    BY <1>8, <2>1, <2>2, <2>3, AnchorStays
<1>10. ASSUME NEW l \in 1..d, l > n
       PROVE  Anchored(t, l, Level(t, l))'
  <2>1. PICK f : f = Level(t, l)'
    OBVIOUS
  <2>2. d + 1 - l \in 1..Len(s) /\ f = s[d + 1 - l]
    BY <1>7, <1>10, <2>1
  <2>3. f = EnqueueStep("append", p, c) \/ f = EnqueueStep("stamp", p, c)
        \/ f = LockStep(p, Linked(p) \cup {c})
    <3>1. PICK i, w : i = d + 1 - l /\ w = Len(s)
      OBVIOUS
    <3>2. i \in 1..w /\ w \in {2, 3} /\ f = s[i]
      BY <1>6, <2>2, <3>1
    <3>3. i = 1 \/ i = 2 \/ (i = 3 /\ w = 3)
      BY <3>2
    <3>4. QED
      BY <1>6, <3>1, <3>2, <3>3
  <2>4. f.step \in {"append", "stamp", "lock"} /\ f.q = p
    BY <2>3 DEF EnqueueStep, LockStep
  <2>5. quser'[f.q] > 0 /\ Owned(f.q)'
    BY <1>3, <2>4 DEF Owned
  <2>6. QED
    BY <2>1, <2>4, <2>5 DEF Anchored
<1>11. AnchorsOK(t)'
  BY <1>1, <1>7, <1>9, <1>10 DEF AnchorsOK
<1>12. ASSUME NEW b \in Commands', b \notin finished', event'[command'[b].event].refs = 0
       PROVE  \E l \in 1..d : RecycleAt(t, l, command[b].event)'
  <2>1. /\ Commands' = Commands \cup {c} /\ \A a \in Commands : command'[a] = command[a]
        /\ command'[c].event = x
    BY <1>1, EnqueueView
  <2>2. b # c
    BY <1>4, <1>12, <2>1
  <2>3. b \in Commands /\ b \notin finished /\ command'[b] = command[b]
    BY <1>2, <1>12, <2>1, <2>2
  <2>4. event'[command[b].event] = event[command[b].event]
    BY <1>3, <2>3, CellsApart DEF Live
  <2>5. PICK l \in 1..n : RecycleAt(t, l, command[b].event)
    BY <1>1, <1>12, <2>3, <2>4 DEF FreedOK
  <2>6. l \in 1..d /\ Level(t, l)' = Level(t, l)
    BY <1>7
  <2>7. RecycleAt(t, l, command[b].event)'
    BY <2>3, <2>5, <2>6 DEF RecycleAt
  <2>8. QED
    BY <2>6, <2>7
<1>13. FreedOK(t)'
  BY <1>1, <1>12 DEF FreedOK
<1>14. QED
  BY <1>11, <1>13

LEMMA AnchorsStep ==
  ASSUME NEW t, Threads = {t}, TypeOK, OwnersOK, PlacesOK(t), CellsOK(t), PoolOK(t), AnchorsOK(t),
         FreedOK(t), [Next]_vars
  PROVE  AnchorsOK(t)' /\ FreedOK(t)'
<1>1. t \in Threads /\ Later
  BY StepsLater
<1>2. ASSUME ClientCall(t)
      PROVE  AnchorsOK(t)' /\ FreedOK(t)'
  <2>1. ASSUME NEW q \in Queues, NEW explicit \in BOOLEAN, NEW blocking \in BOOLEAN,
               NEW waits \in WaitLists(t, q), Enqueue(t, q, waits, explicit, blocking)
        PROVE  AnchorsOK(t)' /\ FreedOK(t)'
    BY <1>1, <2>1, EnqueueKeepsAnchors
  <2>2. CASE OtherCall(t)
    BY <1>1, <2>2, CallKeepsAnchors
  <2>3. QED
    BY <1>2, <2>1, <2>2 DEF ClientCall, OtherCall
<1>3. CASE UNCHANGED vars
  BY <1>3 DEF vars, AnchorsOK, Anchored, Owned, FreedOK, RecycleAt, Commands, Events, Depth, Level,
     UnrefStep
<1>4. QED
  BY <1>1, <1>2, <1>3, RuntimeKeepsAnchors DEF Next

LEMMA AnchorsInit ==
  ASSUME NEW t \in Threads, Init
  PROVE  AnchorsOK(t) /\ FreedOK(t)
<1>1. Commands = {} /\ Depth(t) = 0 /\ 1..0 = {}
  BY DEF Init, Commands, Depth
<1>2. QED
  BY <1>1 DEF AnchorsOK, FreedOK

\* A queue whose count is zero is anchored by nothing.
LEMMA FreedQueueFree ==
  ASSUME NEW t, Threads = {t}, TypeOK, LockInv, OwnersOK, PlacesOK(t), CellsOK(t), PoolOK(t),
         StatusOK(t), RefsOK(t), AnchorsOK(t), FreedOK(t)
  PROVE  FreedQueueUnreachable
<1>1. t \in Threads
  OBVIOUS
<1>2. SUFFICES ASSUME NEW q \in Queues, qrefs[q] = 0
               PROVE  /\ root[q] = <<>> /\ lock[q] = NoThread
                      /\ \A d \in DOMAIN stack[t] :
                           stack[t][d].step \in {"lock", "scan", "submit", "unref", "append"}
                             => stack[t][d].q # q
  BY DEF FreedQueueUnreachable
<1>3. quser[q] = 0 /\ LiveEvents(q) = {} /\ Unrefs(t, q) = {}
  <2>1. /\ IsFiniteSet(LiveEvents(q)) /\ Cardinality(LiveEvents(q)) \in Nat
        /\ IsFiniteSet(Unrefs(t, q)) /\ Cardinality(Unrefs(t, q)) \in Nat /\ quser[q] \in Nat
    BY <1>1, CountedFinite DEF TypeOK
  <2>2. qrefs[q] = quser[q] + Cardinality(LiveEvents(q)) + Cardinality(Unrefs(t, q))
    BY DEF RefsOK
  <2>3. quser[q] = 0 /\ Cardinality(LiveEvents(q)) = 0 /\ Cardinality(Unrefs(t, q)) = 0
    BY <1>2, <2>1, <2>2
  <2>4. QED
    BY <2>1, <2>3, FS_EmptySet
<1>4. ~Owned(q)
  <2>1. ASSUME NEW e \in Events, event[e].queue = q, event[e].user > 0
        PROVE  FALSE
    <3>1. event[e].cmd \in Commands /\ event[e].user \in Nat
      BY EventTyped
    <3>2. CellOK(t, e, event[e].cmd)
      BY <3>1 DEF CellsOK
    <3>3. event[e].refs > 0
      BY <2>1, <3>1, <3>2 DEF CellOK
    <3>4. QED
      BY <1>3, <2>1, <3>3 DEF LiveEvents
  <2>2. QED
    BY <1>3, <2>1 DEF Owned
<1>5. /\ Depth(t) \in Nat /\ \A l \in 1..Depth(t) : Level(t, l) \in Steps
      /\ \A l \in 1..Depth(t) : Level(t, l) # UnrefStep(q)
      /\ stack[t] # <<>> => Depth(t) \in 1..Depth(t) /\ Level(t, Depth(t)) = Top(t)
  BY <1>1, <1>3, Levels DEF Unrefs
<1>6. ASSUME NEW l \in 1..Depth(t),
             Level(t, l).step \in {"lock", "scan", "submit", "unref", "append"}, Level(t, l).q = q
      PROVE  FALSE
  <2>1. Anchored(t, l, Level(t, l)) /\ Level(t, l) \in Steps
    BY <1>5 DEF AnchorsOK
  <2>2. CASE Level(t, l).step \in {"lock", "scan", "submit"}
    <3>1. l > 1 /\ Level(t, l - 1) = UnrefStep(q)
      BY <1>4, <1>6, <2>1, <2>2 DEF Anchored
    <3>2. l - 1 \in 1..Depth(t)
      BY <1>5, <3>1
    <3>3. QED
      BY <1>5, <3>1, <3>2
  <2>3. CASE Level(t, l).step = "unref"
    BY <1>5, <1>6, <2>1, <2>3, UnrefKind
  <2>4. CASE Level(t, l).step = "append"
    <3>1. quser[q] > 0
      BY <1>6, <2>1, <2>4 DEF Anchored
    <3>2. QED
      BY <1>3, <3>1
  <2>5. QED
    BY <1>6, <2>2, <2>3, <2>4
<1>7. lock[q] = NoThread
  <2>1. CASE lock[q] = t
    <3>1. stack[t] # <<>> /\ Top(t).step \in {"scan", "submit"} /\ Top(t).q = q
      BY <1>1, <2>1 DEF LockInv
    <3>2. QED
      BY <1>5, <1>6, <3>1
  <2>2. QED
    BY <2>1 DEF TypeOK
<1>8. root[q] = <<>>
  <2>1. root[q] \in Seq(Commands)
    BY DEF TypeOK
  <2>2. SUFFICES ASSUME root[q] # <<>>
                 PROVE  FALSE
    OBVIOUS
  <2>3. PICK c : c = Head(root[q])
    OBVIOUS
  <2>4. c \in Commands /\ Has(root[q], c)
    BY <2>1, <2>2, <2>3, HasTail
  <2>5. c \notin finished /\ command[c].queue = q
    BY <2>4 DEF StatusOK, RootsOK, PlacesOK, HomesOK
  <2>6. PICK e : e = command[c].event
    OBVIOUS
  <2>7. e \in Events /\ event[e].cmd = c /\ event[e].queue = q
    BY <2>4, <2>5, <2>6, CommandTyped DEF CellsOK, Live, OwnersOK
  <2>8. event[e].refs = 0
    <3>1. CellOK(t, e, c) /\ event[e].user \in Nat /\ event[e].refs \in Int
      BY <2>4, <2>7, EventTyped DEF CellsOK
    <3>2. event[e].refs \in Nat
      BY <3>1 DEF CellOK
    <3>3. ~(event[e].refs > 0)
      BY <1>3, <2>7 DEF LiveEvents
    <3>4. QED
      BY <3>2, <3>3
  <2>9. PICK l \in 1..Depth(t) : RecycleAt(t, l, e)
    BY <2>4, <2>5, <2>6, <2>8 DEF FreedOK
  <2>10. RecycleOK(t, l, e, c)
    BY <2>4, <2>7, <2>9 DEF PoolOK
  <2>11. l + 2 \in 1..Depth(t)
    BY <2>5, <2>10 DEF RecycleOK, Covered
  <2>12. l < Depth(t) /\ l + 1 \in 1..Depth(t)
    BY <1>5, <2>11
  <2>13. Level(t, l + 1) = UnrefStep(q)
    BY <2>7, <2>9, <2>12 DEF AnchorsOK, Anchored, RecycleAt
  <2>14. QED
    BY <1>5, <2>12, <2>13
<1>9. ASSUME NEW d \in DOMAIN stack[t],
             stack[t][d].step \in {"lock", "scan", "submit", "unref", "append"}
      PROVE  stack[t][d].q # q
  <2>1. stack[t] \in Seq(Steps)
    BY <1>1 DEF TypeOK
  <2>2. d \in 1..Depth(t)
    BY <2>1, LenProperties DEF Depth
  <2>3. PICK l : l = Depth(t) + 1 - d
    OBVIOUS
  <2>4. l \in 1..Depth(t) /\ Depth(t) + 1 - l = d
    BY <1>5, <2>2, <2>3
  <2>5. Level(t, l) = stack[t][d]
    BY <2>4 DEF Level
  <2>6. QED
    BY <1>6, <1>9, <2>4, <2>5
<1>10. QED
  BY <1>7, <1>8, <1>9

\* With one host thread clReleaseCommandQueue never frees a queue under the feet
\* of the runtime: when pocl_refcount reaches zero no command is linked in the
\* queue, its lock is free, and no call on the stack, however deep, is about to
\* touch it.
THEOREM QueuesFreedLast ==
  ASSUME NEW t, Threads = {t}
  PROVE  Spec => []FreedQueueUnreachable
<1> DEFINE Inv == /\ OwnersOK /\ PlacesOK(t) /\ NestOK(t) /\ CellsOK(t) /\ PoolOK(t) /\ StatusOK(t)
                  /\ LockInv /\ RefsOK(t) /\ AnchorsOK(t) /\ FreedOK(t)
<1>1. Init => Inv
  <2>1. Init => LockInv
    BY ClientAssumption DEF Init, LockInv
  <2>2. QED
    BY <2>1, PlacesInit, DueInit, CellsInit, RefsInit, AnchorsInit
<1>2. TypeOK /\ TypeOK' /\ Inv /\ [Next]_vars => Inv'
  BY PlacesStep, OwnersStep, NestStep, CellsStep, StatusStep, LocksStep, RefsStep, AnchorsStep
<1>3. TypeOK /\ Inv => FreedQueueUnreachable
  BY FreedQueueFree
<1> HIDE DEF Inv
<1>4. QED
  BY <1>1, <1>2, <1>3, QueueTypes, PTL DEF Spec

-----------------------------------------------------------------------------
(* What a command that has not been executed waits for is still there.         *)

\* Command c is linked in a queue, or about to be.
Queued(t, c) ==
  \/ \E q \in Queues : Has(root[q], c)
  \/ \E l \in 1..Depth(t) : Level(t, l).step = "append" /\ Level(t, l).c = c

\* Event e of its wait list is kept by the client, or is the event of an earlier
\* command of the queue: the flush over its recycling reaches c.
WaitOK(t, c, e) ==
  /\ ~Has(pool, e)
  /\ \/ event[e].cmd \in command[c].deps /\ event[e].user > 0
     \/ /\ event[e].queue = command[c].queue
        /\ \A l \in 1..Depth(t) : RecycleAt(t, l, e) => Covered(t, l + 2, c)
WaitsOK(t) ==
  \A c \in Commands : Queued(t, c) =>
    \A e \in Events : Has(command[c].waits, e) => WaitOK(t, c, e)

LEMMA QueuedUnfinished ==
  ASSUME TypeOK, NEW t \in Threads, StatusOK(t), NEW c \in Commands, Queued(t, c)
  PROVE  c \notin finished
<1>1. CASE \E q \in Queues : Has(root[q], c)
  BY <1>1 DEF StatusOK, RootsOK
<1>2. CASE \E l \in 1..Depth(t) : Level(t, l).step = "append" /\ Level(t, l).c = c
  <2>1. PICK l \in 1..Depth(t) : Level(t, l).step = "append" /\ Level(t, l).c = c
    BY <1>2
  <2>2. PICK f : f = Level(t, l)
    OBVIOUS
  <2>3. Has(Holds(f), c)
    BY <2>1, <2>2, HoldsKinds, HasOne
  <2>4. LevelOK(f)
    BY <2>2 DEF StatusOK
  <2>5. QED
    BY <2>1, <2>2, <2>3, <2>4 DEF LevelOK
<1>3. QED
  BY <1>1, <1>2 DEF Queued

\* A flush that starts in the queue of c reaches it.
LEMMA FlushReaches ==
  ASSUME TypeOK, NEW t \in Threads, PlacesOK(t), NEW c \in Commands, Queued(t, c),
         NEW f, f.step = "lock", f.q = command[c].queue
  PROVE  Reaches(t, f, c)
<1>1. CASE \E q \in Queues : Has(root[q], c)
  BY <1>1 DEF PlacesOK, HomesOK, Reaches
<1>2. CASE \E l \in 1..Depth(t) : Level(t, l).step = "append" /\ Level(t, l).c = c
  <2>1. PICK l \in 1..Depth(t) : Level(t, l).step = "append" /\ Level(t, l).c = c
    BY <1>2
  <2>2. PICK g : g = Level(t, l)
    OBVIOUS
  <2>3. g \in Steps /\ StepOK(g)
    BY <2>1, <2>2, Levels DEF PlacesOK, StackOK
  <2>4. g \in EnqueueSteps /\ g.q = command[c].queue
    BY <2>1, <2>2, <2>3, StepKinds DEF StepOK
  <2>5. g = EnqueueStep("append", f.q, c)
    BY <2>1, <2>2, <2>4 DEF EnqueueSteps, EnqueueStep
  <2>6. QED
    BY <2>2, <2>5 DEF Reaches
<1>3. QED
  BY <1>1, <1>2 DEF Queued

LEMMA WaitStays ==
  ASSUME NEW t, Threads = {t}, TypeOK, PlacesOK(t), NestOK(t), [Next]_vars,
         NEW c \in Commands, NEW e \in Events, WaitOK(t, c, e),
         event'[e].queue = event[e].queue, event'[e].cmd = event[e].cmd,
         event[e].user > 0 /\ event[e].cmd \in command[c].deps => event'[e].user > 0,
         ~Has(pool', e),
         \A l \in 1..Depth(t)' : Level(t, l)'.step = "recycle" /\ Level(t, l)'.e = e =>
           Covered(t, l + 2, c)' \/ (l \in 1..Depth(t) /\ RecycleAt(t, l, e))
  PROVE  WaitOK(t, c, e)'
<1>1. command'[c] = command[c]
  BY StepsLater DEF Later
<1>2. CASE event[e].cmd \in command[c].deps /\ event[e].user > 0
  BY <1>1, <1>2 DEF WaitOK, Has
<1>3. CASE event[e].queue = command[c].queue
           /\ \A l \in 1..Depth(t) : RecycleAt(t, l, e) => Covered(t, l + 2, c)
  <2>1. ASSUME NEW l \in 1..Depth(t)', Level(t, l)'.step = "recycle", Level(t, l)'.e = e
        PROVE  Covered(t, l + 2, c)'
    <3>1. SUFFICES ASSUME l \in 1..Depth(t), RecycleAt(t, l, e)
                   PROVE  Covered(t, l + 2, c)'
      BY <2>1
    <3>2. Covered(t, l + 2, c)
      BY <1>3, <3>1
    <3>3. QED
      BY <3>2, CoverStep
  <2>2. QED
    BY <1>1, <1>3, <2>1 DEF WaitOK, Has, RecycleAt
<1>4. QED
  BY <1>2, <1>3 DEF WaitOK

\* The runtime links what it was to link, and nothing else.
LEMMA QueuedBefore ==
  ASSUME TypeOK, NEW t \in Threads, PlacesOK(t), CellsOK(t), RuntimeStep(t), NEW c, Queued(t, c)'
  PROVE  Queued(t, c)
<1>1. /\ stack[t] # <<>> /\ Depth(t) \in Nat /\ Depth(t) \in 1..Depth(t) /\ Top(t) \in Steps
      /\ Level(t, Depth(t)) = Top(t)
  BY LoopShape, Levels, TopTyped
<1>2. CASE \E q \in Queues : Has(root'[q], c)
  <2>1. PICK q \in Queues : Has(root'[q], c)
    BY <1>2
  <2>2. root[q] \in Seq(Commands)
    BY DEF TypeOK
  <2>3. CASE AppendCommand(t)
    <3>1. /\ Top(t).step = "append" /\ root' = [root EXCEPT ![Top(t).q] = Append(@, Top(t).c)]
      BY <2>3 DEF AppendCommand, At, Top
    <3>2. Top(t).c \in Commands
      BY <1>1, <3>1, StepKinds DEF EnqueueSteps
    <3>3. root'[q] = IF q = Top(t).q THEN Append(root[q], Top(t).c) ELSE root[q]
      BY <3>1 DEF TypeOK
    <3>4. Has(root[q], c) \/ c = Top(t).c
      BY <2>1, <2>2, <3>2, <3>3, HasAppended
    <3>5. QED
      BY <1>1, <3>1, <3>4 DEF Queued
  <2>4. CASE Submit(t)
    <3>1. \/ UNCHANGED root
          \/ root[Top(t).hand] # <<>> /\ root' = [root EXCEPT ![Top(t).hand] = Tail(@)]
      BY <2>4, SubmitView DEF PlacesOK
    <3>2. root'[q] = root[q] \/ (root[q] # <<>> /\ root'[q] = Tail(root[q]))
      BY <3>1 DEF TypeOK
    <3>3. Has(root[q], c)
      BY <2>1, <2>2, <3>2, HasTail
    <3>4. QED
      BY <3>3 DEF Queued
  <2>5. CASE ~AppendCommand(t) /\ ~Submit(t)
    <3>1. UNCHANGED root
      BY <2>5 DEF RuntimeStep, StampQueued, CallbackReturns, LockQueue, Scan, UnlockQueue, StartCommand,
         CompleteCommand, ReleaseImplicitEvent, Return, UnrefQueue, RecycleEvent
    <3>2. QED
      BY <2>1, <3>1 DEF Queued
  <2>6. QED
    BY <2>3, <2>4, <2>5
<1>3. CASE \E l \in 1..Depth(t)' : Level(t, l)'.step = "append" /\ Level(t, l)'.c = c
  <2>1. PICK l \in 1..Depth(t)' : Level(t, l)'.step = "append" /\ Level(t, l)'.c = c
    BY <1>3
  <2>2. CASE Calm(t)
    <3>1. l \in 1..Depth(t) /\ Level(t, l)' = Level(t, l)
      BY <2>1, <2>2 DEF Calm, QuietStep
    <3>2. QED
      BY <2>1, <3>1 DEF Queued
  <2>3. CASE \E e, p, k : Frees(t, e, p, k)
    <3>1. PICK e, p, k : Frees(t, e, p, k)
      BY <2>3
    <3>2. PICK d : d = Depth(t)'
      OBVIOUS
    <3>3. /\ k \in Nat /\ k = Depth(t) /\ d = k + 3
          /\ \A m \in 1..k : m < k => Level(t, m)' = Level(t, m)
          /\ k > 0 => Level(t, k)'.step = "run"
          /\ Level(t, k + 1)'.step = "recycle" /\ Level(t, k + 2)'.step = "unref"
          /\ Level(t, k + 3)'.step = "lock"
      BY <3>1, <3>2 DEF Frees, RecycleStep, UnrefStep, LockStep
    <3>4. l \in 1..k \/ l = k + 1 \/ l = k + 2 \/ l = k + 3
      BY <2>1, <3>2, <3>3
    <3>5. l \in 1..k /\ l < k
      BY <2>1, <3>3, <3>4
    <3>6. QED
      BY <2>1, <3>3, <3>5 DEF Queued
  <2>4. QED
    BY <2>2, <2>3, QuietShape, ReleaseShape
<1>4. QED
  BY <1>2, <1>3 DEF Queued

\* A freed event is waited for as the event of an earlier command, and the flush
\* of its queue that was just begun reaches all who wait.
LEMMA WaitsFreed ==
  ASSUME NEW t, Threads = {t}, TypeOK, PlacesOK(t), NestOK(t), [Next]_vars,
         NEW x, NEW p, NEW k, Frees(t, x, p, k), LastGiven(x), UNCHANGED <<root, command, pool>>,
         \A c \in Commands : Queued(t, c) => event[x].cmd \notin command[c].deps \/ event[x].user = 0,
         WaitsOK(t), \A c : Queued(t, c)' => Queued(t, c)
  PROVE  WaitsOK(t)'
<1>1. PICK d : d = Depth(t)'
  OBVIOUS
<1>2. /\ k \in Nat /\ k = Depth(t) /\ d = k + 3 /\ p = event[x].queue
      /\ \A l \in 1..k : l < k => Level(t, l)' = Level(t, l)
      /\ k > 0 => Level(t, k)'.step = "run" /\ Level(t, k).step = "release"
      /\ Level(t, k + 1)' = RecycleStep(x) /\ Level(t, k + 2)' = UnrefStep(p)
      /\ Level(t, k + 3)' = LockStep(p, {})
  BY <1>1 DEF Frees
<1>3. /\ OwnersKept /\ x \in Events /\ Commands' = Commands /\ t \in Threads
      /\ \A y \in Events : y # x => event'[y].user = event[y].user
  BY DEF LastGiven, Commands
<1>4. ASSUME NEW c \in Commands, Queued(t, c), NEW e \in Events, WaitOK(t, c, e)
      PROVE  WaitOK(t, c, e)'
  <2>1. event'[e].queue = event[e].queue /\ event'[e].cmd = event[e].cmd
    BY <1>3 DEF OwnersKept
  <2>2. event[e].user > 0 /\ event[e].cmd \in command[c].deps => event'[e].user > 0
    BY <1>3, <1>4
  <2>3. ~Has(pool', e)
    BY <1>4 DEF WaitOK
  <2>4. ASSUME NEW l \in 1..Depth(t)', Level(t, l)'.step = "recycle", Level(t, l)'.e = e
        PROVE  Covered(t, l + 2, c)' \/ (l \in 1..Depth(t) /\ RecycleAt(t, l, e))
    <3>1. CASE l < k
      BY <1>2, <2>4, <3>1 DEF RecycleAt
    <3>2. CASE l = k
      BY <1>2, <2>4, <3>2
    <3>3. CASE l = k + 1
      <4>1. e = x
        BY <1>2, <2>4, <3>3 DEF RecycleStep
      <4>2. p = command[c].queue
        BY <1>2, <1>4, <4>1 DEF WaitOK
      <4>3. PICK f : f = LockStep(p, {})
        OBVIOUS
      <4>4. f.step = "lock" /\ f.q = command[c].queue
        BY <4>2, <4>3 DEF LockStep
      <4>5. Reaches(t, f, c)
        BY <1>3, <1>4, <4>4, FlushReaches
      <4>6. Has(root[f.q], c) \/ \E m \in 1..Depth(t) : Level(t, m) = EnqueueStep("append", f.q, c)
        BY <4>4, <4>5 DEF Reaches
      <4>7. ASSUME NEW m \in 1..Depth(t), Level(t, m) = EnqueueStep("append", f.q, c)
            PROVE  m \in 1..d /\ Level(t, m)' = EnqueueStep("append", f.q, c)
        <5>1. Level(t, m).step = "append"
          BY <4>7 DEF EnqueueStep
        <5>2. m \in 1..k /\ m # k
          BY <1>2, <5>1
        <5>3. m < k /\ m \in 1..d
          BY <1>2, <5>2
        <5>4. QED
          BY <1>2, <4>7, <5>2, <5>3
      <4>8. Reaches(t, f, c)'
        BY <1>1, <4>4, <4>6, <4>7 DEF Reaches, EnqueueStep, Has
      <4>9. l + 2 \in 1..d /\ Level(t, l + 2)' = f
        <5>1. l + 2 = k + 3
          BY <1>2, <3>3
        <5>2. QED
          BY <1>2, <4>3, <5>1
      <4>10. QED
        BY <1>1, <4>8, <4>9 DEF Covered
    <3>4. CASE l = k + 2
      <4>1. Level(t, l)'.step = "unref"
        BY <1>2, <3>4 DEF UnrefStep
      <4>2. QED
        BY <2>4, <4>1
    <3>5. CASE l = k + 3
      <4>1. Level(t, l)'.step = "lock"
        BY <1>2, <3>5 DEF LockStep
      <4>2. QED
        BY <2>4, <4>1
    <3>6. QED
      BY <1>1, <1>2, <3>1, <3>2, <3>3, <3>4, <3>5
  <2>5. QED
    BY <1>4, <2>1, <2>2, <2>3, <2>4, WaitStays
<1>5. Events' = Events /\ \A c \in Commands : command'[c] = command[c]
  BY <1>3 DEF OwnersKept
<1>6. ASSUME NEW c \in Commands', Queued(t, c)', NEW e \in Events', Has(command'[c].waits, e)
      PROVE  WaitOK(t, c, e)'
  <2>1. c \in Commands /\ Queued(t, c) /\ e \in Events /\ Has(command[c].waits, e)
    BY <1>3, <1>5, <1>6
  <2>2. WaitOK(t, c, e)
    BY <2>1 DEF WaitsOK
  <2>3. QED
    BY <1>4, <2>1, <2>2
<1>7. QED
  BY <1>6 DEF WaitsOK, Has

\* The cell that is recycled now is waited for by no command in a queue.
LEMMA RecycledUnwaited ==
  ASSUME TypeOK, NEW t \in Threads, OwnersOK, CellsOK(t), PoolOK(t), StatusOK(t), stack[t] # <<>>,
         NEW c \in Commands, Queued(t, c), NEW e \in Events, WaitOK(t, c, e)
  PROVE  ~RecycleAt(t, Depth(t), e)
<1>1. PICK n, b : n = Depth(t) /\ b = event[e].cmd
  OBVIOUS
<1>2. n \in Nat /\ n \in 1..n /\ n + 2 \notin 1..n /\ b \in Commands /\ c \notin finished
  BY <1>1, Levels, QueuedUnfinished DEF OwnersOK
<1>3. ASSUME RecycleAt(t, n, e)
      PROVE  FALSE
  <2>1. event[e].refs = 0 /\ CellOK(t, e, b)
    BY <1>1, <1>2, <1>3 DEF PoolOK, RecycleOK, CellsOK
  <2>2. ~(event[e].user > 0)
    BY <1>1, <1>2, <2>1 DEF CellOK
  <2>3. Covered(t, n + 2, c)
    BY <1>1, <1>2, <1>3, <2>2 DEF WaitOK
  <2>4. QED
    BY <1>1, <1>2, <2>3 DEF Covered
<1>4. QED
  BY <1>1, <1>3

LEMMA RuntimeKeepsWaits ==
  ASSUME NEW t, Threads = {t}, TypeOK, OwnersOK, PlacesOK(t), NestOK(t), CellsOK(t), PoolOK(t),
         StatusOK(t), [Next]_vars, RuntimeStep(t), WaitsOK(t)
  PROVE  WaitsOK(t)'
<1>1. t \in Threads /\ stack[t] # <<>> /\ OwnersKept /\ UNCHANGED command
  <2>1. t \in Threads
    OBVIOUS
  <2>2. QED
    BY <2>1, LoopShape, RuntimeWrites
     DEF RuntimeStep, AppendCommand, StampQueued, CallbackReturns, LockQueue, Scan, Submit,
     UnlockQueue, StartCommand, CompleteCommand, ReleaseImplicitEvent, Return, UnrefQueue, RecycleEvent
<1>2. \A c : Queued(t, c)' => Queued(t, c)
  BY <1>1, QueuedBefore
<1>3. CASE Calm(t) /\ \A e \in Events : event'[e].user = event[e].user
  <2>1. ASSUME NEW c \in Commands, Queued(t, c), NEW e \in Events, WaitOK(t, c, e)
        PROVE  WaitOK(t, c, e)'
    <3>1. event'[e].queue = event[e].queue /\ event'[e].cmd = event[e].cmd
          /\ event'[e].user = event[e].user
      BY <1>1, <1>3 DEF OwnersKept
    <3>2. ~Has(pool', e)
      <4>1. ~Has(pool, e)
        BY <2>1 DEF WaitOK
      <4>2. CASE pool' = pool
        BY <4>1, <4>2
      <4>3. CASE RecycleEvent(t)
        <5>1. PICK y : y = Top(t).e
          OBVIOUS
        <5>2. Top(t).step = "recycle" /\ pool' = <<y>> \o pool
          BY <4>3, <5>1 DEF RecycleEvent, At, Top
        <5>3. RecycleAt(t, Depth(t), y)
          BY <1>1, <5>1, <5>2, Levels DEF RecycleAt
        <5>4. y # e
          BY <1>1, <2>1, <5>3, RecycledUnwaited
        <5>5. y \in Events
          BY <1>1, <5>1, <5>2, TopTyped, StepKinds DEF RecycleSteps
        <5>6. \A z : Has(<<y>> \o pool, z) <=> z = y \/ Has(pool, z)
          BY <5>5, HasPut DEF TypeOK
        <5>7. QED
          BY <4>1, <5>2, <5>4, <5>6
      <4>4. QED
        BY <1>1, <4>2, <4>3, RuntimeWrites
    <3>3. ASSUME NEW l \in 1..Depth(t)', Level(t, l)'.step = "recycle", Level(t, l)'.e = e
          PROVE  l \in 1..Depth(t) /\ RecycleAt(t, l, e)
      BY <1>3, <3>3 DEF Calm, QuietStep, RecycleAt
    <3>4. QED
      BY <2>1, <3>1, <3>2, <3>3, WaitStays
  <2>2. Commands' = Commands /\ Events' = Events /\ \A c \in Commands : command'[c] = command[c]
    BY <1>1 DEF OwnersKept, Commands
  <2>3. ASSUME NEW c \in Commands', Queued(t, c)', NEW e \in Events', Has(command'[c].waits, e)
        PROVE  WaitOK(t, c, e)'
    <3>1. c \in Commands /\ Queued(t, c) /\ e \in Events /\ Has(command[c].waits, e)
      BY <1>2, <2>2, <2>3
    <3>2. WaitOK(t, c, e)
      BY <3>1 DEF WaitsOK
    <3>3. QED
      BY <2>1, <3>1, <3>2
  <2>4. QED
    BY <2>3 DEF WaitsOK, Has
<1>4. CASE ~ReleaseImplicitEvent(t)
  BY <1>1, <1>3, <1>4, RuntimeWrites, QuietShape DEF CountsKept
<1>5. CASE ReleaseImplicitEvent(t)
  <2>1. UNCHANGED <<root, pool>>
    BY <1>5 DEF ReleaseImplicitEvent
  <2>2. CASE Calm(t) /\ UNCHANGED event
    BY <1>3, <2>2
  <2>3. CASE \E e, p, k : Frees(t, e, p, k) /\ LastGiven(e) /\ event[e].user = 0
    <3>1. PICK e, p, k : Frees(t, e, p, k) /\ LastGiven(e) /\ event[e].user = 0
      BY <2>3
    <3>2. QED
      BY <1>1, <1>2, <2>1, <3>1, WaitsFreed
  <2>4. QED
    BY <1>1, <1>5, <2>2, <2>3, ReleaseShape
<1>6. QED
  BY <1>4, <1>5

\* A call that frees nothing starts no recycling.
LEMMA WaitsIdle ==
  ASSUME NEW t, Threads = {t}, TypeOK, PlacesOK(t), NestOK(t), [Next]_vars, Depth(t) = 0,
         UNCHANGED <<root, command, pool>>, OwnersKept, WaitsOK(t),
         \A e \in Events : event[e].user > 0 => event'[e].user > 0,
         \A l \in 1..Depth(t)' : Level(t, l)'.step \in {"lock", "unref"}
  PROVE  WaitsOK(t)'
<1>1. /\ Commands' = Commands /\ Events' = Events /\ \A c \in Commands : command'[c] = command[c]
      /\ \A e \in Events : event'[e].queue = event[e].queue /\ event'[e].cmd = event[e].cmd
  BY DEF OwnersKept, Commands
<1>2. ASSUME NEW c \in Commands', Queued(t, c)', NEW e \in Events', Has(command'[c].waits, e)
      PROVE  WaitOK(t, c, e)'
  <2>1. c \in Commands /\ e \in Events /\ Has(command[c].waits, e)
    BY <1>1, <1>2
  <2>2. Queued(t, c)
    BY <1>2 DEF Queued
  <2>3. WaitOK(t, c, e)
    BY <2>1, <2>2 DEF WaitsOK
  <2>4. ~Has(pool', e)
    BY <2>3 DEF WaitOK
  <2>5. \A l \in 1..Depth(t)' : ~(Level(t, l)'.step = "recycle" /\ Level(t, l)'.e = e)
    OBVIOUS
  <2>6. QED
    BY <1>1, <2>1, <2>3, <2>4, <2>5, WaitStays
<1>3. QED
  BY <1>2 DEF WaitsOK, Has

LEMMA CallKeepsWaits ==
  ASSUME NEW t, Threads = {t}, TypeOK, PlacesOK(t), NestOK(t), CellsOK(t), StatusOK(t), [Next]_vars,
         OtherCall(t), "early_release" \notin Client, WaitsOK(t)
  PROVE  WaitsOK(t)'
<1>1. /\ t \in Threads /\ stack[t] = <<>> /\ Depth(t) = 0 /\ UNCHANGED <<root, command, finished, pool>>
  <2>1. t \in Threads
    OBVIOUS
  <2>2. stack[t] = <<>> /\ UNCHANGED <<root, command, finished, pool>>
    BY <2>1, CallView
  <2>3. QED
    BY <2>1, <2>2, Levels
<1>2. ASSUME UNCHANGED stack
      PROVE  \A l \in 1..Depth(t)' : Level(t, l)'.step \in {"lock", "unref"}
  BY <1>1, <1>2 DEF Depth
<1>3. ASSUME NEW s \in Seq(Steps), Push(t, s), \A i \in 1..Len(s) : s[i].step \in {"lock", "unref"}
      PROVE  \A l \in 1..Depth(t)' : Level(t, l)'.step \in {"lock", "unref"}
  <2>1. PICK d : d = Depth(t)'
    OBVIOUS
  <2>2. /\ Len(s) \in Nat /\ d = Len(s)
        /\ \A l \in 1..d : Level(t, l)' = IF l <= 0 THEN Level(t, l) ELSE s[d + 1 - l]
    BY <1>1, <1>3, <2>1, StepsAdded
  <2>3. \A l \in 1..d : d + 1 - l \in 1..Len(s) /\ Level(t, l)' = s[d + 1 - l]
    BY <2>2
  <2>4. QED
    BY <1>3, <2>1, <2>3
<1>4. ASSUME UNCHANGED event
      PROVE  OwnersKept /\ \A e \in Events : event[e].user > 0 => event'[e].user > 0
  BY <1>4 DEF OwnersKept, Events
<1>5. ASSUME NEW p \in Queues, NEW due \in SUBSET Commands, Push(t, <<LockStep(p, due)>>), UNCHANGED event
      PROVE  WaitsOK(t)'
  <2>1. PICK s : s = <<LockStep(p, due)>>
    OBVIOUS
  <2>2. LockStep(p, due) \in Steps /\ LockStep(p, due).step = "lock"
    BY DEF LockStep, LockSteps, Steps
  <2>3. s \in Seq(Steps) /\ Push(t, s) /\ \A i \in 1..Len(s) : s[i].step \in {"lock", "unref"}
    BY <1>5, <2>1, <2>2
  <2>4. QED
    BY <1>1, <1>3, <1>4, <1>5, <2>3, WaitsIdle
<1>6. CASE \E q \in Queues : Finish(t, q)
  <2>1. PICK p \in Queues : Finish(t, p)
    BY <1>6
  <2>2. UNCHANGED event /\ Linked(p) \in SUBSET Commands /\ Push(t, <<LockStep(p, Linked(p))>>)
    BY <2>1 DEF Finish, Linked
  <2>3. QED
    BY <1>5, <2>2
<1>7. CASE \E e \in Events : WaitForEvent(t, e)
  <2>1. PICK e \in Events : WaitForEvent(t, e)
    BY <1>7
  <2>2. event[e].queue \in Queues /\ {event[e].cmd} \in SUBSET Commands
    BY EventTyped
  <2>3. QED
    BY <1>5, <2>1, <2>2 DEF WaitForEvent
<1>8. CASE \E e \in Events : SetEventCallback(t, e)
  <2>1. PICK e \in Events : SetEventCallback(t, e)
    BY <1>8
  <2>2. PICK n : n = event[e].callbacks + 1
    OBVIOUS
  <2>3. event' = [event EXCEPT ![e].callbacks = n] /\ UNCHANGED stack
    BY <2>1, <2>2 DEF SetEventCallback, TypeOK, Events
  <2>4. OwnersKept /\ CountsKept
    BY <2>3, CallbacksWritten
  <2>5. QED
    BY <1>1, <1>2, <2>3, <2>4, WaitsIdle DEF CountsKept
<1>9. ASSUME NEW e \in Events, NEW n, NEW m, Counts(t, e, n, m)
      PROVE  WaitsOK(t)'
  <2>1. /\ OwnersKept /\ event'[e].refs = n /\ event'[e].user = m
        /\ \A x \in Events : x # e => event'[x].user = event[x].user
    BY <1>9, ReferencesWritten
  <2>2. event[e].user > 0
    BY <1>9 DEF Counts, RetainEvent, ReleaseEvent, OwnsEvent
  <2>3. event[e].refs = event[e].user /\ event[e].user \in Nat
    <3>1. event[e].cmd \in Commands /\ event[e].user \in Nat
      BY EventTyped
    <3>2. CellOK(t, e, event[e].cmd)
      BY <3>1 DEF CellsOK
    <3>3. QED
      BY <2>2, <3>1, <3>2 DEF CellOK
  <2>4. CASE n > 0
    <3>1. UNCHANGED stack /\ m = n
      BY <1>9, <2>2, <2>3, <2>4 DEF Counts, RetainEvent, ReleaseEvent
    <3>2. \A x \in Events : event[x].user > 0 => event'[x].user > 0
      BY <2>1, <2>4, <3>1
    <3>3. QED
      BY <1>1, <1>2, <2>1, <3>1, <3>2, WaitsIdle
  <2>5. CASE ~(n > 0)
    <3>1. event[e].refs = 1 /\ ReleaseEvent(t, e)
      BY <1>9, <2>2, <2>3, <2>5 DEF Counts, RetainEvent, ReleaseEvent
    <3>2. PICK p, k : Frees(t, e, p, k) /\ LastGiven(e)
      BY <1>1, <3>1, LastShape
    <3>3. \A c \in Commands : Queued(t, c) => event[e].cmd \notin command[c].deps
      BY <1>1, <3>1, QueuedUnfinished DEF ReleaseEvent
    <3>4. PICK d : d = Depth(t)'
      OBVIOUS
    <3>5. /\ d = 3 /\ Level(t, 1)'.step = "recycle" /\ Level(t, 2)'.step = "unref"
          /\ Level(t, 3)'.step = "lock"
      BY <1>1, <3>2, <3>4 DEF Frees, RecycleStep, UnrefStep, LockStep
    <3>6. \A l \in 1..d : l = 1 \/ l = 2 \/ l = 3
      BY <3>5
    <3>7. \A l \in 1..d : Level(t, l)'.step # "append"
      BY <3>5, <3>6
    <3>8. \A c : Queued(t, c)' => Queued(t, c)
      BY <1>1, <3>4, <3>7 DEF Queued
    <3>9. QED
      BY <1>1, <3>2, <3>3, <3>8, WaitsFreed
  <2>6. QED
    BY <2>4, <2>5
<1>10. CASE \E e \in Events : RetainEvent(t, e) \/ ReleaseEvent(t, e)
  BY <1>9, <1>10 DEF Counts
<1>11. CASE \E q \in Queues : RetainQueue(t, q)
  <2>1. UNCHANGED <<stack, event>>
    BY <1>11 DEF RetainQueue
  <2>2. QED
    BY <1>1, <1>2, <1>4, <2>1, WaitsIdle
<1>12. CASE \E q \in Queues : ReleaseQueue(t, q)
  <2>1. PICK p \in Queues : ReleaseQueue(t, p)
    BY <1>12
  <2>2. PICK s : s = ReleaseQueueSteps(p)
    OBVIOUS
  <2>3. UNCHANGED event /\ Push(t, s)
    BY <2>1, <2>2 DEF ReleaseQueue
  <2>4. s \in Seq(Steps) /\ \A i \in 1..Len(s) : s[i].step \in {"lock", "unref"}
    <3>1. s \in Seq(Steps)
      BY <2>2, ReleaseStepsTyped
    <3>2. s = <<LockStep(p, {}), UnrefStep(p)>>
      BY <2>2 DEF ReleaseQueueSteps
    <3>3. \A i \in 1..Len(s) : i = 1 \/ i = 2
      BY <3>2
    <3>4. QED
      BY <3>1, <3>2, <3>3 DEF LockStep, UnrefStep
  <2>5. QED
    BY <1>1, <1>3, <1>4, <2>3, <2>4, WaitsIdle
<1>13. QED
  BY <1>6, <1>7, <1>8, <1>10, <1>11, <1>12 DEF OtherCall

\* What a client asks to wait for.
LEMMA WaitListTyped ==
  ASSUME NEW t, NEW p, NEW waits \in WaitLists(t, p)
  PROVE  waits \in Seq(Events) /\ \A i \in 1..Len(waits) : OwnsEvent(t, waits[i])
<1>1. CASE waits = <<>>
  BY <1>1
<1>2. CASE waits # <<>>
  <2>1. PICK d \in Events : OwnsEvent(t, d) /\ waits = <<d>>
    BY <1>2 DEF WaitLists
  <2>2. waits \in Seq(Events)
    BY <2>1
  <2>3. Len(waits) = 1 /\ waits[1] = d
    BY <2>1
  <2>4. QED
    BY <2>1, <2>2, <2>3
<1>3. QED
  BY <1>1, <1>2

\* A new command waits for what the client named, and for the last command linked
\* in its queue, which no flush under way is about to execute.
LEMMA NewWaits ==
  ASSUME TypeOK, NEW t \in Threads, NEW p \in Queues,
         NEW explicit \in BOOLEAN, NEW blocking \in BOOLEAN,
         NEW waits \in WaitLists(t, p), Enqueue(t, p, waits, explicit, blocking),
         NEW c, c = Len(command) + 1, NEW e, Has(command'[c].waits, e)
  PROVE  \/ OwnsEvent(t, e) /\ e \in Events /\ event[e].cmd \in command'[c].deps
         \/ \E b \in Commands : Has(root[p], b) /\ e = command[b].event
<1>1. PICK r : r = [queue |-> p, event |-> NewEvent, explicit |-> explicit,
                    deps |-> {event[waits[i]].cmd : i \in DOMAIN waits},
                    waits |-> IF root[p] = <<>> THEN waits
                              ELSE Append(waits, command[root[p][Len(root[p])]].event)]
  OBVIOUS
<1>2. command' = Append(command, r)
  BY <1>1, Zenon DEF Enqueue, CreateCommand
<1>3. command'[c] = r
  BY <1>2, CommandAppended
<1>4. waits \in Seq(Events) /\ \A i \in 1..Len(waits) : OwnsEvent(t, waits[i])
  BY WaitListTyped
<1>5. root[p] \in Seq(Commands)
  BY DEF TypeOK
<1>6. ASSUME Has(waits, e)
      PROVE  OwnsEvent(t, e) /\ e \in Events /\ event[e].cmd \in r.deps
  <2>1. PICK i \in 1..Len(waits) : waits[i] = e
    BY <1>6 DEF Has
  <2>2. e \in Events /\ i \in DOMAIN waits
    BY <1>4, <2>1, ElementOfSeq
  <2>3. event[e].cmd \in r.deps
    BY <1>1, <2>1, <2>2
  <2>4. QED
    BY <1>4, <2>1, <2>2, <2>3
<1>7. CASE root[p] = <<>>
  BY <1>1, <1>3, <1>6, <1>7
<1>8. CASE root[p] # <<>>
  <2>1. PICK b : b = root[p][Len(root[p])]
    OBVIOUS
  <2>2. Len(root[p]) \in 1..Len(root[p]) /\ b \in Commands /\ Has(root[p], b)
    <3>1. Len(root[p]) \in Nat /\ Len(root[p]) > 0
      BY <1>5, <1>8, EmptySeq, LenProperties
    <3>2. Len(root[p]) \in 1..Len(root[p])
      BY <3>1
    <3>3. QED
      BY <1>5, <2>1, <3>2, ElementOfSeq DEF Has
  <2>3. command[b].event \in Events
    BY <2>2, CommandTyped
  <2>4. r.waits = Append(waits, command[b].event)
    BY <1>1, <1>8, <2>1
  <2>5. Has(waits, e) \/ e = command[b].event
    BY <1>3, <1>4, <2>3, <2>4, HasAppended
  <2>6. QED
    BY <1>3, <1>6, <2>2, <2>5
<1>9. QED
  BY <1>7, <1>8

\* What is linked in a queue is in the reach of no level under a callback but of
\* flushes, and there is none: its event is not being recycled.
LEMMA LinkedNotFreed ==
  ASSUME TypeOK, NEW t \in Threads, PlacesOK(t), NestOK(t), CellsOK(t), PoolOK(t), StatusOK(t),
         stack[t] = <<>> \/ Top(t).step = "callback",
         NEW p \in Queues, NEW b \in Commands, Has(root[p], b)
  PROVE  /\ ~Has(pool, command[b].event)
         /\ \A l \in 1..Depth(t) : ~RecycleAt(t, l, command[b].event)
<1>1. PICK e : e = command[b].event
  OBVIOUS
<1>2. b \notin finished /\ e \in Events /\ event[e].cmd = b
  BY <1>1, CommandTyped DEF StatusOK, RootsOK, CellsOK, Live
<1>3. ~Has(pool, e)
  BY <1>2 DEF PoolOK, Live
<1>4. ASSUME NEW l \in 1..Depth(t), RecycleAt(t, l, e)
      PROVE  FALSE
  <2>1. Covered(t, l + 2, b)
    BY <1>2, <1>4 DEF PoolOK, RecycleOK
  <2>2. PICK m, f : m = l + 2 /\ f = Level(t, m)
    OBVIOUS
  <2>3. m \in 1..Depth(t) /\ Reaches(t, f, b)
    BY <1>2, <2>1, <2>2 DEF Covered
  <2>4. /\ Depth(t) \in Nat /\ f \in Steps /\ (m = Depth(t) => f = Top(t))
        /\ stack[t] # <<>> /\ Top(t).step = "callback"
    BY <2>2, <2>3, Levels
  <2>5. m # Depth(t)
    <3>1. f.step # "callback"
      BY <2>3 DEF Reaches
    <3>2. QED
      BY <2>4, <3>1
  <2>6. f.step \notin {"lock", "stamp"} \cup OnTop
    <3>1. m < Depth(t)
      BY <2>3, <2>4, <2>5
    <3>2. Top(t).step \notin Enqueues
      BY <2>4 DEF Enqueues
    <3>3. QED
      BY <2>2, <2>3, <2>4, <3>1, <3>2, NoLockBelow DEF PlacesOK
  <2>7. f.step \in {"run", "complete", "release"} /\ Has(f.todo, b)
    BY <2>3, <2>6 DEF Reaches, OnTop
  <2>8. Has(Held(t, m), b)
    BY <2>2, <2>3, <2>7, HoldsKinds DEF Held
  <2>9. QED
    BY <2>8 DEF PlacesOK, HomesOK
<1>5. QED
  BY <1>1, <1>3, <1>4

LEMMA EnqueueKeepsWaits ==
  ASSUME NEW t, Threads = {t}, TypeOK, OwnersOK, PlacesOK(t), NestOK(t), CellsOK(t), PoolOK(t),
         StatusOK(t), [Next]_vars, NEW p \in Queues, NEW explicit \in BOOLEAN, NEW blocking \in BOOLEAN,
         NEW waits \in WaitLists(t, p), Enqueue(t, p, waits, explicit, blocking), WaitsOK(t)
  PROVE  WaitsOK(t)'
<1>1. PICK c, x, n, d : c = Len(command) + 1 /\ x = NewEvent /\ n = Depth(t) /\ d = Depth(t)'
  OBVIOUS
<1>2. /\ t \in Threads /\ Steps \subseteq Steps' /\ EnqueueAdds(t, p, c) /\ UNCHANGED root
      /\ stack[t] = <<>> \/ Top(t).step = "callback"
  BY <1>1, EnqueueShape
<1>3. CreateEvent(p, c, explicit)
  BY <1>1, Zenon DEF Enqueue
<1>4. /\ Events' = Events \cup {x}
      /\ \A e \in Events : e # x => event'[e] = event[e]
      /\ \/ x \notin Events /\ UNCHANGED pool
         \/ pool # <<>> /\ x = Head(pool) /\ pool' = Tail(pool)
  BY <1>1, <1>3, EventEntered
<1>5. /\ pool \in Seq(Events)
      /\ x \in Events => Has(pool, x)
      /\ \A e : Has(pool', e) => Has(pool, e)
  <2>1. pool \in Seq(Events)
    BY DEF TypeOK
  <2>2. QED
    BY <1>4, <2>1, HasTail
<1>6. /\ Commands' = Commands \cup {c} /\ \A a \in Commands : command'[a] = command[a]
      /\ c \notin Commands /\ command'[c].queue = p
  BY <1>1, <1>2, EnqueueView
<1>7. PICK s \in Seq(Steps') :
        /\ Push(t, s) /\ Len(s) \in {2, 3}
        /\ s[1] = EnqueueStep("append", p, c) /\ s[2] = EnqueueStep("stamp", p, c)
        /\ Len(s) = 3 => s[3] = LockStep(p, Linked(p) \cup {c})
  BY <1>2 DEF EnqueueAdds
<1>8. /\ n \in Nat /\ Len(s) \in Nat /\ d = n + Len(s)
      /\ \A l \in 1..d : Level(t, l)' = IF l <= n THEN Level(t, l) ELSE s[d + 1 - l]
  BY <1>1, <1>2, <1>7, StepsAdded, Levels
<1>9. ASSUME NEW l \in 1..d, l > n
      PROVE  Level(t, l)'.step \in {"append", "stamp", "lock"}
             /\ (Level(t, l)'.step = "append" => Level(t, l)'.c = c)
  <2>1. PICK i, w, f : i = d + 1 - l /\ w = Len(s) /\ f = Level(t, l)'
    OBVIOUS
  <2>2. i \in 1..w /\ w \in {2, 3} /\ f = s[i]
    BY <1>7, <1>8, <1>9, <2>1
  <2>3. i = 1 \/ i = 2 \/ (i = 3 /\ w = 3)
    BY <2>2
  <2>4. f = EnqueueStep("append", p, c) \/ f = EnqueueStep("stamp", p, c)
        \/ f = LockStep(p, Linked(p) \cup {c})
    BY <1>7, <2>1, <2>2, <2>3
  <2>5. QED
    BY <2>1, <2>4 DEF EnqueueStep, LockStep
<1>10. \A l \in 1..d : Level(t, l)'.step = "recycle" => l \in 1..n /\ Level(t, l)' = Level(t, l)
  BY <1>8, <1>9
<1>11. ASSUME NEW b \in Commands, Queued(t, b)', NEW e \in Events', Has(command[b].waits, e)
       PROVE  WaitOK(t, b, e)'
  <2>1. Queued(t, b)
    <3>1. CASE \E q \in Queues : Has(root[q], b)
      BY <3>1 DEF Queued
    <3>2. CASE \E l \in 1..d : Level(t, l)'.step = "append" /\ Level(t, l)'.c = b
      <4>1. PICK l \in 1..d : Level(t, l)'.step = "append" /\ Level(t, l)'.c = b
        BY <3>2
      <4>2. b # c
        BY <1>6, <1>11
      <4>3. l \in 1..n /\ Level(t, l)' = Level(t, l)
        BY <1>8, <1>9, <4>1, <4>2
      <4>4. QED
        BY <1>1, <4>1, <4>3 DEF Queued
    <3>3. QED
      BY <1>1, <1>2, <1>11, <3>1, <3>2 DEF Queued
  <2>2. e \in Events
    BY <1>11, CommandTyped, HasMember
  <2>3. WaitOK(t, b, e)
    BY <1>11, <2>1, <2>2 DEF WaitsOK
  <2>4. ~Has(pool', e) /\ event'[e] = event[e]
    BY <1>4, <1>5, <2>2, <2>3 DEF WaitOK
  <2>5. \A l \in 1..Depth(t)' : Level(t, l)'.step = "recycle" /\ Level(t, l)'.e = e =>
          l \in 1..Depth(t) /\ RecycleAt(t, l, e)
    BY <1>1, <1>10 DEF RecycleAt
  <2>6. QED
    BY <2>2, <2>3, <2>4, <2>5, WaitStays
<1>12. ASSUME NEW e \in Events', Has(command'[c].waits, e)
       PROVE  WaitOK(t, c, e)'
  <2>1. CASE OwnsEvent(t, e) /\ e \in Events /\ event[e].cmd \in command'[c].deps
    <3>1. event[e].user > 0 /\ event[e].cmd \in Commands
      BY <2>1 DEF OwnsEvent, OwnersOK
    <3>2. ~Has(pool, e)
      <4>1. CellOK(t, e, event[e].cmd) /\ (Has(pool, e) => event[e].refs = 0)
        BY <2>1, <3>1 DEF CellsOK, PoolOK
      <4>2. QED
        BY <3>1, <4>1 DEF CellOK
    <3>3. event'[e] = event[e] /\ ~Has(pool', e)
      BY <1>4, <1>5, <2>1, <3>2
    <3>4. QED
      BY <2>1, <3>1, <3>3 DEF WaitOK, Has
  <2>2. CASE \E b \in Commands : Has(root[p], b) /\ e = command[b].event
    <3>1. PICK b \in Commands : Has(root[p], b) /\ e = command[b].event
      BY <2>2
    <3>2. ~Has(pool, e) /\ \A l \in 1..n : ~RecycleAt(t, l, e)
      BY <1>1, <1>2, <3>1, LinkedNotFreed
    <3>3. e \in Events /\ event[e].queue = p
      BY <1>2, <3>1, CommandTyped DEF StatusOK, RootsOK, CellsOK, Live, OwnersOK, PlacesOK, HomesOK
    <3>4. event'[e] = event[e] /\ ~Has(pool', e)
      BY <1>4, <1>5, <3>2, <3>3
    <3>5. \A l \in 1..d : ~(Level(t, l)'.step = "recycle" /\ Level(t, l)'.e = e)
      BY <1>10, <3>2 DEF RecycleAt
    <3>6. QED
      BY <1>1, <1>6, <3>3, <3>4, <3>5 DEF WaitOK, Has, RecycleAt
  <2>3. QED
    BY <1>1, <1>2, <1>12, <2>1, <2>2, NewWaits
<1>13. ASSUME NEW b \in Commands', Queued(t, b)', NEW e \in Events', Has(command'[b].waits, e)
       PROVE  WaitOK(t, b, e)'
  <2>1. CASE b = c
    BY <1>12, <1>13, <2>1
  <2>2. CASE b \in Commands
    BY <1>6, <1>11, <1>13, <2>2
  <2>3. QED
    BY <1>6, <2>1, <2>2
<1>14. QED
  BY <1>13 DEF WaitsOK, Has

LEMMA WaitsStep ==
  ASSUME NEW t, Threads = {t}, TypeOK, OwnersOK, PlacesOK(t), NestOK(t), CellsOK(t), PoolOK(t),
         StatusOK(t), [Next]_vars, "early_release" \notin Client, WaitsOK(t)
  PROVE  WaitsOK(t)'
<1>1. ASSUME ClientCall(t)
      PROVE  WaitsOK(t)'
  <2>1. ASSUME NEW q \in Queues, NEW explicit \in BOOLEAN, NEW blocking \in BOOLEAN,
               NEW waits \in WaitLists(t, q), Enqueue(t, q, waits, explicit, blocking)
        PROVE  WaitsOK(t)'
    BY <2>1, EnqueueKeepsWaits
  <2>2. CASE OtherCall(t)
    BY <2>2, CallKeepsWaits
  <2>3. QED
    BY <1>1, <2>1, <2>2 DEF ClientCall, OtherCall
<1>2. CASE UNCHANGED vars
  <2>1. /\ Depth(t)' = Depth(t) /\ Commands' = Commands /\ Events' = Events
        /\ \A l : Level(t, l)' = Level(t, l)
    BY <1>2 DEF vars, Depth, Level, Commands, Events
  <2>2. \A l, c : Covered(t, l, c)' <=> Covered(t, l, c)
    BY <1>2 DEF vars, Covered, Reaches, Level, Depth
  <2>3. \A c : Queued(t, c)' <=> Queued(t, c)
    BY <1>2, <2>1 DEF vars, Queued
  <2>4. \A c, e : WaitOK(t, c, e)' <=> WaitOK(t, c, e)
    BY <1>2, <2>1, <2>2 DEF vars, WaitOK, RecycleAt
  <2>5. QED
    BY <1>2, <2>1, <2>3, <2>4 DEF vars, WaitsOK
<1>3. QED
  BY <1>1, <1>2, RuntimeKeepsWaits DEF Next

\* With one host thread, and a client that keeps the events its commands wait on
\* until they have ended, a cell handed to pocl_mem_manager_free_event is in use
\* nowhere: pocl_mem_manager_new_event may write it without a lock, as its comment
\* says, and no wait list comes to mean the event of another command.
THEOREM PooledEventsUnused ==
  ASSUME NEW t, Threads = {t}, "early_release" \notin Client
  PROVE  Spec => []PooledEventUnused
<1> DEFINE Inv == /\ OwnersOK /\ PlacesOK(t) /\ NestOK(t) /\ CellsOK(t) /\ PoolOK(t) /\ StatusOK(t)
                  /\ WaitsOK(t)
<1>1. Init => Inv
  <2>1. Init => WaitsOK(t)
    BY DEF Init, WaitsOK, Commands
  <2>2. QED
    BY <2>1, PlacesInit, DueInit, CellsInit
<1>2. TypeOK /\ TypeOK' /\ Inv /\ [Next]_vars => Inv'
  BY PlacesStep, OwnersStep, NestStep, CellsStep, StatusStep, WaitsStep
<1>3. TypeOK /\ Inv => PooledEventUnused
  <2> SUFFICES ASSUME TypeOK, Inv, NEW i \in DOMAIN pool
               PROVE  /\ event[pool[i]].refs = 0
                      /\ \A c \in Commands \ finished : command[c].event # pool[i]
                      /\ \A q \in Queues : \A j \in DOMAIN root[q] :
                           \A k \in DOMAIN command[root[q][j]].waits :
                             command[root[q][j]].waits[k] # pool[i]
    BY DEF PooledEventUnused
  <2>1. PICK e : e = pool[i]
    OBVIOUS
  <2>2. e \in Events /\ Has(pool, e) /\ t \in Threads
    <3>1. pool \in Seq(Events)
      BY DEF TypeOK
    <3>2. i \in 1..Len(pool)
      BY <3>1, LenProperties
    <3>3. QED
      BY <2>1, <3>1, <3>2, ElementOfSeq DEF Has
  <2>3. event[e].refs = 0 /\ ~Live(t, event[e].cmd)
    BY <2>2 DEF OwnersOK, PoolOK
  <2>4. ASSUME NEW c \in Commands, c \notin finished, command[c].event = e
        PROVE  FALSE
    BY <2>3, <2>4 DEF CellsOK, Live
  <2>5. ASSUME NEW q \in Queues, NEW j \in DOMAIN root[q],
               NEW k \in DOMAIN command[root[q][j]].waits, command[root[q][j]].waits[k] = e
        PROVE  FALSE
    <3>1. PICK c : c = root[q][j]
      OBVIOUS
    <3>2. root[q] \in Seq(Commands)
      BY DEF TypeOK
    <3>3. j \in 1..Len(root[q])
      BY <3>2, LenProperties
    <3>4. c \in Commands /\ Has(root[q], c)
      BY <3>1, <3>2, <3>3, ElementOfSeq DEF Has
    <3>5. k \in 1..Len(command[c].waits)
      BY <2>5, <3>1, <3>4, CommandTyped, LenProperties
    <3>6. Has(command[c].waits, e)
      BY <2>5, <3>1, <3>5 DEF Has
    <3>7. WaitOK(t, c, e)
      BY <2>2, <3>4, <3>6 DEF WaitsOK, Queued
    <3>8. QED
      BY <2>2, <3>7 DEF WaitOK
  <2>6. QED
    BY <2>1, <2>3, <2>4, <2>5
<1> HIDE DEF Inv
<1>4. QED
  BY <1>1, <1>2, <1>3, QueueTypes, PTL DEF Spec

-----------------------------------------------------------------------------
(* The order in which commands run, for a client that asks for the event of    *)
(* every command: no flush is entered while another one runs its commands.     *)

\* What a flush has taken from queues and not yet released, in the order in
\* which it runs it.
Flow(f) ==
  CASE f.step \in {"scan", "submit"} -> f.ready
    [] f.step \in {"run", "complete", "release"} -> f.todo
    [] OTHER -> <<>>
\* What a command of s comes after has ended, or is earlier in s.
InOrder(s) ==
  \A i \in 1..Len(s) : \A d \in Before(s[i]) :
    d \in finished \/ \E j \in 1..Len(s) : j < i /\ s[j] = d
FlowsOK(t) == \A l \in 1..Depth(t) : InOrder(Flow(Level(t, l)))
OneFlush(t) ==
  \A l, m \in 1..Depth(t) : Level(t, l).step \in Flushes /\ Level(t, m).step \in Flushes => l = m

\* Queues are in the order of the calls, and what is about to be linked is the
\* newest command.
Sorted(s) == \A i, j \in 1..Len(s) : i < j => s[i] < s[j]
RootsOrdered(t) ==
  /\ \A q \in Queues : Sorted(root[q])
  /\ \A l \in 1..Depth(t) : Level(t, l).step = "append" => Level(t, l).c = Len(command)
\* The client asks for every event, and a wait list still names the events it
\* was made of.
DepsKnown ==
  \A c \in Commands : /\ command[c].explicit
                      /\ \A d \in command[c].deps : Has(command[c].waits, command[d].event)
\* A command that has begun has ended, or is the one being executed.
Executes(t, c) ==
  \E l \in 1..Depth(t) : Level(t, l).step = "complete" /\ Head(Level(t, l).todo) = c
StartedOK(t) ==
  /\ \A c \in started : c \in finished \/ Executes(t, c)
  /\ \A c \in Commands : Executes(t, c) => c \in started

LEMMA FlowKinds ==
  ASSUME NEW f
  PROVE  /\ f.step \in {"scan", "submit"} => Flow(f) = f.ready
         /\ f.step \in {"run", "complete", "release"} => Flow(f) = f.todo
         /\ f.step \in {"lock", "unref", "recycle", "append", "stamp", "callback"} => Flow(f) = <<>>
BY DEF Flow

LEMMA FlowTyped ==
  ASSUME NEW f \in Steps
  PROVE  Flow(f) \in Seq(Commands)
<1>1. f.step \in {"lock", "unref", "recycle", "append", "stamp", "callback", "scan", "submit",
                  "run", "complete", "release"}
  BY DEF Steps, LockSteps, ScanSteps, SubmitSteps, RunSteps, BusySteps, UnrefSteps,
       RecycleSteps, EnqueueSteps, CallbackStep
<1>2. CASE f.step \in {"scan", "submit"}
  BY <1>2, FlowKinds, StepKinds DEF ScanSteps, SubmitSteps
<1>3. CASE f.step \in {"run", "complete", "release"}
  BY <1>3, FlowKinds, StepKinds DEF RunSteps, BusySteps
<1>4. CASE f.step \notin {"scan", "submit", "run", "complete", "release"}
  <2>1. f.step \in {"lock", "unref", "recycle", "append", "stamp", "callback"}
    BY <1>1, <1>4
  <2>2. Flow(f) = <<>>
    BY <2>1, FlowKinds
  <2>3. QED
    BY <2>2
<1>5. QED
  BY <1>2, <1>3, <1>4

\* New commands come after all that exist.
LEMMA BeforeStays ==
  ASSUME TypeOK, TypeOK', Later, NEW c \in Commands
  PROVE  Before(c)' = Before(c)
<1>1. /\ Commands = 1..Len(command) /\ Len(command) \in Nat
      /\ Commands' = 1..Len(command') /\ Len(command') \in Nat
  BY LenProperties DEF TypeOK, Commands
<1>2. \A d \in Commands' : d < c => d \in Commands
  BY <1>1
<1>3. command'[c] = command[c] /\ \A d \in Commands : d \in Commands' /\ command'[d] = command[d]
  BY DEF Later
<1>4. \A d : d \in Commands' /\ d < c /\ command'[d].queue = command'[c].queue
             <=> d \in Commands /\ d < c /\ command[d].queue = command[c].queue
  BY <1>2, <1>3
<1>5. QED
  BY <1>3, <1>4 DEF Before

LEMMA BeforeTyped ==
  ASSUME TypeOK, NEW c \in Commands
  PROVE  Before(c) \subseteq Commands
BY CommandTyped DEF Before, CommandRecords

LEMMA InOrderStays ==
  ASSUME TypeOK, TypeOK', Later, NEW s \in Seq(Commands), InOrder(s)
  PROVE  InOrder(s)'
<1>1. \A i \in 1..Len(s) : s[i] \in Commands /\ Before(s[i])' = Before(s[i])
  BY BeforeStays, ElementOfSeq
<1>2. finished \subseteq finished'
  BY DEF Later
<1>3. QED
  BY <1>1, <1>2 DEF InOrder

\* A command at the end of a list that what it comes after is in.
LEMMA InOrderAppended ==
  ASSUME NEW S, NEW s \in Seq(S), s # <<>>, InOrder(Front(s)),
         \A d \in Before(Last(s)) : d \in finished \/ Has(Front(s), d)
  PROVE  InOrder(s)
<1>1. /\ Len(s) \in Nat /\ Len(s) > 0 /\ Len(Front(s)) = Len(s) - 1
      /\ \A i \in 1..(Len(s) - 1) : Front(s)[i] = s[i]
      /\ s[Len(s)] = Last(s)
  BY FrontAndLast
<1>2. ASSUME NEW i \in 1..Len(s), NEW d \in Before(s[i]), d \notin finished
      PROVE  \E j \in 1..Len(s) : j < i /\ s[j] = d
  <2>1. CASE i = Len(s)
    <3>1. PICK j \in 1..Len(Front(s)) : Front(s)[j] = d
      BY <1>1, <1>2, <2>1 DEF Has
    <3>2. QED
      BY <1>1, <2>1, <3>1
  <2>2. CASE i # Len(s)
    <3>1. i \in 1..Len(Front(s)) /\ Front(s)[i] = s[i]
      BY <1>1, <2>2
    <3>2. PICK j \in 1..Len(Front(s)) : j < i /\ Front(s)[j] = d
      BY <1>2, <3>1 DEF InOrder
    <3>3. QED
      BY <1>1, <3>2
  <2>3. QED
    BY <2>1, <2>2
<1>3. QED
  BY <1>2 DEF InOrder

\* The first command of a list has ended and leaves it.
LEMMA InOrderDropped ==
  ASSUME NEW S, NEW s \in Seq(S), s # <<>>, InOrder(s), Head(s) \in finished
  PROVE  InOrder(Tail(s))
<1>1. /\ Len(s) \in Nat /\ Len(s) > 0 /\ Len(Tail(s)) = Len(s) - 1 /\ Head(s) = s[1]
      /\ \A i \in 1..(Len(s) - 1) : Tail(s)[i] = s[i + 1]
  <2>1. Len(s) \in Nat /\ Len(s) > 0
    BY EmptySeq, LenProperties
  <2>2. QED
    BY <2>1, HeadTailProperties
<1>2. ASSUME NEW i \in 1..Len(Tail(s)), NEW d \in Before(Tail(s)[i]), d \notin finished
      PROVE  \E j \in 1..Len(Tail(s)) : j < i /\ Tail(s)[j] = d
  <2>1. i + 1 \in 1..Len(s) /\ Tail(s)[i] = s[i + 1]
    BY <1>1
  <2>2. PICK j \in 1..Len(s) : j < i + 1 /\ s[j] = d
    BY <1>2, <2>1 DEF InOrder
  <2>3. j # 1
    BY <1>1, <1>2, <2>2
  <2>4. j - 1 \in 1..(Len(s) - 1) /\ j - 1 < i /\ (j - 1) + 1 = j
    BY <1>1, <2>2, <2>3
  <2>5. QED
    BY <1>1, <2>2, <2>4
<1>3. QED
  BY <1>2 DEF InOrder

\* The steps, by what they do to the commands that exist.
LEMMA StepCases ==
  ASSUME NEW t, Threads = {t}, [Next]_vars
  PROVE  \/ \E q \in Queues, explicit, blocking \in BOOLEAN :
              \E waits \in WaitLists(t, q) : Enqueue(t, q, waits, explicit, blocking)
         \/ OtherCall(t) \/ RuntimeStep(t) \/ UNCHANGED vars
BY DEF Next, ClientCall, OtherCall

LEMMA CommandsKept ==
  ASSUME TypeOK, NEW t \in Threads, OtherCall(t) \/ RuntimeStep(t) \/ UNCHANGED vars
  PROVE  UNCHANGED command
<1>1. CASE OtherCall(t)
  BY <1>1, CallView
<1>2. CASE RuntimeStep(t)
  BY <1>2 DEF RuntimeStep, AppendCommand, StampQueued, CallbackReturns, LockQueue, Scan, Submit,
     UnlockQueue, StartCommand, CompleteCommand, ReleaseImplicitEvent, Return, UnrefQueue, RecycleEvent
<1>3. CASE UNCHANGED vars
  BY <1>3 DEF vars
<1>4. QED
  BY <1>1, <1>2, <1>3

\* The command an enqueue call creates.
LEMMA Created ==
  ASSUME TypeOK, NEW t \in Threads, NEW q \in Queues,
         NEW explicit \in BOOLEAN, NEW blocking \in BOOLEAN,
         NEW waits \in WaitLists(t, q), Enqueue(t, q, waits, explicit, blocking)
  PROVE  \E r : /\ command' = Append(command, r)
                /\ r.queue = q /\ r.explicit = explicit
                /\ r.deps = {event[waits[i]].cmd : i \in DOMAIN waits}
                /\ \A e : Has(waits, e) => Has(r.waits, e)
<1>1. PICK r : r = [queue |-> q, event |-> NewEvent, explicit |-> explicit,
                    deps |-> {event[waits[i]].cmd : i \in DOMAIN waits},
                    waits |-> IF root[q] = <<>> THEN waits
                              ELSE Append(waits, command[root[q][Len(root[q])]].event)]
  OBVIOUS
<1>2. command' = Append(command, r)
  BY <1>1, Zenon DEF Enqueue, CreateCommand
<1>3. \A e : Has(waits, e) => Has(r.waits, e)
  <2>1. CASE root[q] = <<>>
    BY <1>1, <2>1
  <2>2. CASE root[q] # <<>>
    <3>1. root[q] \in Seq(Commands)
      BY DEF TypeOK
    <3>2. Len(root[q]) \in 1..Len(root[q])
      BY <2>2, <3>1, EmptySeq, LenProperties
    <3>3. root[q][Len(root[q])] \in Commands
      BY <3>1, <3>2, ElementOfSeq
    <3>4. command[root[q][Len(root[q])]].event \in Events
      BY <3>3, CommandTyped
    <3>5. waits \in Seq(Events)
      BY WaitListTyped
    <3>6. QED
      BY <1>1, <2>2, <3>4, <3>5, HasAppended
  <2>3. QED
    BY <2>1, <2>2
<1>4. /\ r.queue = q /\ r.explicit = explicit
      /\ r.deps = {event[waits[i]].cmd : i \in DOMAIN waits}
  BY <1>1
<1>5. QED
  BY <1>2, <1>3, <1>4

LEMMA DepsStep ==
  ASSUME NEW t, Threads = {t}, TypeOK, CellsOK(t), DepsKnown, [Next]_vars,
         "implicit_event" \notin Client
  PROVE  DepsKnown'
<1>1. t \in Threads
  OBVIOUS
<1>2. ASSUME NEW q \in Queues, NEW explicit \in BOOLEAN, NEW blocking \in BOOLEAN,
             NEW waits \in WaitLists(t, q), Enqueue(t, q, waits, explicit, blocking)
      PROVE  DepsKnown'
  <2>1. PICK r : /\ command' = Append(command, r) /\ r.explicit = explicit
                 /\ r.deps = {event[waits[i]].cmd : i \in DOMAIN waits}
                 /\ \A e : Has(waits, e) => Has(r.waits, e)
    BY <1>1, <1>2, Created
  <2>2. PICK c : c = Len(command) + 1
    OBVIOUS
  <2>3. /\ c \notin Commands /\ Commands' = Commands \cup {c} /\ command'[c] = r
        /\ \A d \in Commands : command'[d] = command[d]
    BY <2>1, <2>2, CommandAppended
  <2>4. explicit = TRUE
    BY <1>2, Zenon DEF Enqueue
  <2>5. ASSUME NEW d \in r.deps
        PROVE  Has(r.waits, command'[d].event)
    <3>1. PICK i \in DOMAIN waits : d = event[waits[i]].cmd
      BY <2>1
    <3>2. waits \in Seq(Events) /\ i \in 1..Len(waits)
      BY <3>1, WaitListTyped, LenProperties
    <3>3. waits[i] \in Events /\ Has(waits, waits[i])
      BY <3>2, ElementOfSeq DEF Has
    <3>4. d \in Commands
      BY <3>1, <3>3, EventTyped
    <3>5. CellOK(t, waits[i], d)
      BY <3>1, <3>3, <3>4 DEF CellsOK
    <3>6. command'[d].event = waits[i]
      BY <2>3, <3>4, <3>5 DEF CellOK
    <3>7. QED
      BY <2>1, <3>3, <3>6
  <2>6. ASSUME NEW x \in Commands
        PROVE  /\ command'[x].explicit
               /\ \A d \in command'[x].deps : Has(command'[x].waits, command'[d].event)
    <3>1. command[x].deps \subseteq Commands
      BY CommandTyped DEF CommandRecords
    <3>2. command'[x] = command[x] /\ \A d \in command[x].deps : command'[d] = command[d]
      BY <2>3, <3>1
    <3>3. QED
      BY <3>2 DEF DepsKnown
  <2>7. QED
    BY <2>1, <2>3, <2>4, <2>5, <2>6 DEF DepsKnown
<1>3. ASSUME OtherCall(t) \/ RuntimeStep(t) \/ UNCHANGED vars
      PROVE  DepsKnown'
  <2>1. UNCHANGED command
    BY <1>1, <1>3, CommandsKept
  <2>2. QED
    BY <2>1 DEF DepsKnown, Commands
<1>4. QED
  BY <1>2, <1>3, StepCases

\* An event the client asked for is not released after its command: nothing a
\* flush runs enters another one.
LEMMA RuntimeCalm ==
  ASSUME TypeOK, NEW t \in Threads, PlacesOK(t), CellsOK(t), DepsKnown, RuntimeStep(t)
  PROVE  Calm(t)
<1>1. CASE ~ReleaseImplicitEvent(t)
  BY <1>1, QuietShape
<1>2. CASE ReleaseImplicitEvent(t)
  <2>1. ASSUME NEW e, LastGiven(e), event[e].user = 0
        PROVE  FALSE
    <3>1. e \in Events /\ event[e].refs = 1
      BY <2>1 DEF LastGiven
    <3>2. event[e].cmd \in Commands
      BY <3>1, EventTyped
    <3>3. CellOK(t, e, event[e].cmd) /\ command[event[e].cmd].explicit
      BY <3>1, <3>2 DEF CellsOK, DepsKnown
    <3>4. QED
      BY <2>1, <3>1, <3>3 DEF CellOK
  <2>2. QED
    BY <1>2, <2>1, ReleaseShape
<1>3. QED
  BY <1>1, <1>2

\* A stack after a call that enqueues nothing: there was none before.
LEMMA CallLevels ==
  ASSUME TypeOK, NEW t \in Threads, OtherCall(t)
  PROVE  /\ UNCHANGED <<root, command, started, finished>> /\ Depth(t) = 0
         /\ \A l \in 1..Depth(t)' : /\ Level(t, l)'.step \in {"lock", "unref", "recycle"}
                                    /\ Level(t, l)'.step = "lock" => l = Depth(t)'
<1>1. /\ stack[t] = <<>> /\ UNCHANGED <<root, command, started, finished>> /\ ClientPushes(t)
      /\ Depth(t) = 0
  BY CallView, Levels
<1>2. ASSUME NEW s \in Seq(Steps), Push(t, s),
             \A i \in 1..Len(s) : /\ s[i].step \in {"lock", "unref", "recycle"}
                                  /\ s[i].step = "lock" => i = 1
      PROVE  \A l \in 1..Depth(t)' : /\ Level(t, l)'.step \in {"lock", "unref", "recycle"}
                                     /\ Level(t, l)'.step = "lock" => l = Depth(t)'
  <2>1. /\ Len(s) \in Nat /\ Depth(t)' = Depth(t) + Len(s)
        /\ \A l \in 1..Depth(t)' :
             Level(t, l)' = IF l <= Depth(t) THEN Level(t, l) ELSE s[Depth(t)' + 1 - l]
    BY <1>2, StepsAdded
  <2>2. PICK n : n = Depth(t)'
    OBVIOUS
  <2>3. n = Len(s) /\ \A l \in 1..n : Level(t, l)' = s[n + 1 - l] /\ n + 1 - l \in 1..n
    BY <1>1, <2>1, <2>2
  <2>4. \A l \in 1..n : n + 1 - l = 1 => l = n
    BY <2>1, <2>3
  <2>5. QED
    BY <1>2, <2>2, <2>3, <2>4
<1>3. ASSUME NEW f \in LockSteps, NEW g \in UnrefSteps, NEW r \in RecycleSteps, NEW s,
             s = <<f>> \/ s = <<f, g>> \/ s = <<f, g, r>>
      PROVE  /\ s \in Seq(Steps)
             /\ \A i \in 1..Len(s) : /\ s[i].step \in {"lock", "unref", "recycle"}
                                     /\ s[i].step = "lock" => i = 1
  <2>1. /\ f \in Steps /\ g \in Steps /\ r \in Steps
        /\ f.step = "lock" /\ g.step = "unref" /\ r.step = "recycle"
    BY DEF Steps, LockSteps, UnrefSteps, RecycleSteps
  <2>2. CASE s = <<f>>
    BY <2>1, <2>2
  <2>3. CASE s = <<f, g>>
    BY <2>1, <2>3
  <2>4. CASE s = <<f, g, r>>
    BY <2>1, <2>4
  <2>5. QED
    BY <1>3, <2>2, <2>3, <2>4
<1>4. ASSUME NEW f \in LockSteps, Push(t, <<f>>)
      PROVE  /\ <<f>> \in Seq(Steps)
             /\ \A i \in 1..Len(<<f>>) : /\ <<f>>[i].step \in {"lock", "unref", "recycle"}
                                         /\ <<f>>[i].step = "lock" => i = 1
  BY DEF Steps, LockSteps
<1>5. ASSUME NEW f \in LockSteps, NEW g \in UnrefSteps, NEW s, s = <<f, g>>
      PROVE  /\ s \in Seq(Steps)
             /\ \A i \in 1..Len(s) : /\ s[i].step \in {"lock", "unref", "recycle"}
                                     /\ s[i].step = "lock" => i = 1
  <2>1. /\ f \in Steps /\ g \in Steps /\ f.step = "lock" /\ g.step = "unref"
    BY DEF Steps, LockSteps, UnrefSteps
  <2>2. QED
    BY <1>5, <2>1
<1>6. CASE UNCHANGED stack
  <2>1. Depth(t)' = 0
    BY <1>1, <1>6 DEF Depth
  <2>2. QED
    BY <1>1, <2>1
<1>7. QED
  <2>1. CASE \E f \in LockSteps : Push(t, <<f>>)
    BY <1>1, <1>2, <1>4, <2>1
  <2>2. CASE \E f \in LockSteps, g \in UnrefSteps : Push(t, <<f, g>>)
    BY <1>1, <1>2, <1>5, <2>2
  <2>3. CASE \E f \in LockSteps, g \in UnrefSteps, r \in RecycleSteps : Push(t, <<f, g, r>>)
    BY <1>1, <1>2, <1>3, <2>3
  <2>4. QED
    BY <1>1, <1>6, <2>1, <2>2, <2>3 DEF ClientPushes

\* A stack after an enqueue call: what was on it, the two steps that link the
\* command, and the flush of a blocking call.
LEMMA EnqueueLevels ==
  ASSUME TypeOK, NEW t \in Threads, StackOK(t), NEW q \in Queues,
         NEW explicit \in BOOLEAN, NEW blocking \in BOOLEAN,
         NEW waits \in WaitLists(t, q), Enqueue(t, q, waits, explicit, blocking)
  PROVE  /\ UNCHANGED <<root, started, finished>> /\ Depth(t) \in Nat
         /\ \A l \in 1..Depth(t) : Level(t, l).step \notin OnTop
         /\ \A l \in 1..Depth(t)' :
              \/ l \in 1..Depth(t) /\ Level(t, l)' = Level(t, l)
              \/ Level(t, l)' = EnqueueStep("append", q, Len(command) + 1)
              \/ Level(t, l)'.step = "stamp"
              \/ Level(t, l)'.step = "lock" /\ Depth(t) = 0 /\ l = 1
<1>1. /\ stack[t] = <<>> \/ Top(t).step = "callback"
      /\ Steps \subseteq Steps' /\ EnqueueAdds(t, q, Len(command) + 1)
      /\ UNCHANGED <<root, started, finished>>
  BY EnqueueShape DEF Enqueue
<1>2. PICK c, n, d : c = Len(command) + 1 /\ n = Depth(t) /\ d = Depth(t)'
  OBVIOUS
<1>3. PICK s \in Seq(Steps') :
        /\ Push(t, s) /\ Len(s) \in {2, 3}
        /\ s[1] = EnqueueStep("append", q, c) /\ s[2] = EnqueueStep("stamp", q, c)
        /\ Len(s) = 3 => s[3] = LockStep(q, Linked(q) \cup {c}) /\ stack[t] = <<>>
  BY <1>1, <1>2 DEF EnqueueAdds
<1>4. /\ n \in Nat /\ d = n + Len(s) /\ (stack[t] = <<>> => n = 0)
      /\ \A l \in 1..d : Level(t, l)' = IF l <= n THEN Level(t, l) ELSE s[d + 1 - l]
  <2>1. /\ Depth(t)' = Depth(t) + Len(s)
        /\ \A l \in 1..Depth(t)' :
             Level(t, l)' = IF l <= Depth(t) THEN Level(t, l) ELSE s[Depth(t)' + 1 - l]
    BY <1>1, <1>3, StepsAdded
  <2>2. QED
    BY <1>2, <2>1, Levels
<1>5. s[2].step = "stamp" /\ (Len(s) = 3 => s[3].step = "lock")
  BY <1>3 DEF EnqueueStep, LockStep
<1>6. ASSUME NEW l \in 1..d, l > n
      PROVE  \/ Level(t, l)' = EnqueueStep("append", q, c)
             \/ Level(t, l)'.step = "stamp"
             \/ Level(t, l)'.step = "lock" /\ n = 0 /\ l = 1
  <2>1. Len(s) = 2 \/ Len(s) = 3
    BY <1>3
  <2>2. Level(t, l)' = s[d + 1 - l]
    BY <1>4, <1>6
  <2>3. d + 1 - l = 1 \/ d + 1 - l = 2 \/ (d + 1 - l = 3 /\ Len(s) = 3 /\ l = n + 1)
    <3>1. n \in Nat /\ (d = n + 2 \/ (d = n + 3 /\ Len(s) = 3)) /\ l \in 1..d /\ l > n
      BY <1>4, <1>6, <2>1
    <3>2. QED
      BY <3>1
  <2>4. QED
    BY <1>3, <1>4, <1>5, <2>2, <2>3
<1>7. ASSUME NEW l \in 1..n
      PROVE  Level(t, l).step \notin OnTop
  <2>1. l < n \/ l = n
    BY <1>4
  <2>2. stack[t] # <<>> /\ Level(t, n) = Top(t)
    BY <1>2, <1>4, Levels
  <2>3. QED
    BY <1>1, <1>2, <2>1, <2>2 DEF StackOK, OnTop
<1>8. \A l \in 1..d : l \in 1..n \/ l > n
  BY <1>4
<1>9. \A l \in 1..d : l \in 1..n => Level(t, l)' = Level(t, l)
  BY <1>4
<1>10. QED
  BY <1>1, <1>2, <1>4, <1>6, <1>7, <1>8, <1>9

LEMMA OneFlushStep ==
  ASSUME NEW t, Threads = {t}, TypeOK, PlacesOK(t), CellsOK(t), DepsKnown, OneFlush(t), [Next]_vars
  PROVE  OneFlush(t)'
<1>1. t \in Threads
  OBVIOUS
<1>2. ASSUME \A l \in 1..Depth(t)' : Level(t, l)'.step \in Flushes =>
               l \in 1..Depth(t) /\ Level(t, l).step \in Flushes
      PROVE  OneFlush(t)'
  BY <1>2 DEF OneFlush
<1>3. ASSUME NEW q \in Queues, NEW explicit \in BOOLEAN, NEW blocking \in BOOLEAN,
             NEW waits \in WaitLists(t, q), Enqueue(t, q, waits, explicit, blocking)
      PROVE  OneFlush(t)'
  <2>1. /\ Depth(t) \in Nat
        /\ \A l \in 1..Depth(t)' :
              \/ l \in 1..Depth(t) /\ Level(t, l)' = Level(t, l)
              \/ Level(t, l)' = EnqueueStep("append", q, Len(command) + 1)
              \/ Level(t, l)'.step = "stamp"
              \/ Level(t, l)'.step = "lock" /\ Depth(t) = 0 /\ l = 1
    BY <1>1, <1>3, EnqueueLevels DEF PlacesOK
  <2>2. EnqueueStep("append", q, Len(command) + 1).step = "append"
    BY DEF EnqueueStep
  <2>3. CASE Depth(t) = 0
    <3>1. \A l \in 1..Depth(t)' : Level(t, l)'.step \in Flushes => l = 1
      BY <2>1, <2>2, <2>3 DEF Flushes
    <3>2. QED
      BY <3>1 DEF OneFlush
  <2>4. CASE Depth(t) # 0
    BY <1>2, <2>1, <2>2, <2>4 DEF Flushes
  <2>5. QED
    BY <2>3, <2>4
<1>4. CASE OtherCall(t)
  <2>1. \A l \in 1..Depth(t)' : Level(t, l)'.step \in Flushes => l = Depth(t)'
    BY <1>1, <1>4, CallLevels DEF Flushes
  <2>2. QED
    BY <2>1 DEF OneFlush
<1>5. CASE RuntimeStep(t)
  <2>1. Calm(t) /\ stack[t] # <<>> /\ Depth(t) \in 1..Depth(t) /\ Level(t, Depth(t)) = Top(t)
    BY <1>1, <1>5, RuntimeCalm, LoopShape, Levels
  <2>2. QED
    BY <1>2, <2>1 DEF Calm, Flushes
<1>6. CASE UNCHANGED vars
  <2>1. Depth(t)' = Depth(t) /\ \A l : Level(t, l)' = Level(t, l)
    BY <1>6 DEF vars, Depth, Level
  <2>2. QED
    BY <1>2, <2>1
<1>7. QED
  BY <1>3, <1>4, <1>5, <1>6, StepCases

LEMMA SortedAppended ==
  ASSUME NEW S, NEW s \in Seq(S), NEW c \in S, Sorted(s), \A d : Has(s, d) => d < c
  PROVE  Sorted(Append(s, c))
<1>1. /\ Len(s) \in Nat /\ Len(Append(s, c)) = Len(s) + 1
      /\ \A i \in 1..Len(s) : Append(s, c)[i] = s[i]
      /\ Append(s, c)[Len(s) + 1] = c
  BY LenProperties, AppendProperties
<1>2. PICK b, n : b = Append(s, c) /\ n = Len(s)
  OBVIOUS
<1>3. /\ n \in Nat /\ Len(b) = n + 1 /\ b[n + 1] = c
      /\ \A i \in 1..n : b[i] = s[i] /\ s[i] < c
  BY <1>1, <1>2 DEF Has
<1>4. ASSUME NEW i \in 1..(n + 1), NEW j \in 1..(n + 1), i < j
      PROVE  b[i] < b[j]
  <2>1. i \in 1..n /\ (j \in 1..n \/ j = n + 1)
    BY <1>3, <1>4
  <2>2. QED
    BY <1>2, <1>3, <1>4, <2>1 DEF Sorted
<1>5. QED
  BY <1>2, <1>3, <1>4 DEF Sorted

LEMMA SortedTail ==
  ASSUME NEW S, NEW s \in Seq(S), s # <<>>, Sorted(s)
  PROVE  Sorted(Tail(s)) /\ \A d : Has(s, d) => d = Head(s) \/ Head(s) < d
<1>1. /\ Len(s) \in Nat /\ Len(s) > 0 /\ Len(Tail(s)) = Len(s) - 1 /\ Head(s) = s[1]
      /\ \A i \in 1..(Len(s) - 1) : Tail(s)[i] = s[i + 1]
  <2>1. Len(s) \in Nat /\ Len(s) > 0
    BY EmptySeq, LenProperties
  <2>2. QED
    BY <2>1, HeadTailProperties
<1>2. ASSUME NEW i \in 1..Len(Tail(s)), NEW j \in 1..Len(Tail(s)), i < j
      PROVE  Tail(s)[i] < Tail(s)[j]
  <2>1. i + 1 \in 1..Len(s) /\ j + 1 \in 1..Len(s) /\ i + 1 < j + 1
    BY <1>1, <1>2
  <2>2. QED
    BY <1>1, <2>1 DEF Sorted
<1>3. ASSUME NEW d, Has(s, d)
      PROVE  d = Head(s) \/ Head(s) < d
  <2>1. PICK i \in 1..Len(s) : s[i] = d
    BY <1>3 DEF Has
  <2>2. i = 1 \/ (1 \in 1..Len(s) /\ 1 < i)
    BY <1>1
  <2>3. QED
    BY <1>1, <2>1, <2>2 DEF Sorted
<1>4. QED
  BY <1>2, <1>3 DEF Sorted

\* A command is linked after all of its queue, and taken from its head.
LEMMA RootsStep ==
  ASSUME NEW t, Threads = {t}, TypeOK, PlacesOK(t), CellsOK(t), DepsKnown, RootsOrdered(t),
         [Next]_vars
  PROVE  RootsOrdered(t)'
<1>1. t \in Threads /\ \A q \in Queues : root[q] \in Seq(Commands)
  BY DEF TypeOK
<1>2. PICK n : n = Len(command)
  OBVIOUS
<1>3. n \in Nat /\ Commands = 1..n
  BY <1>2, LenProperties DEF TypeOK, Commands
<1>4. ASSUME NEW q \in Queues, NEW explicit \in BOOLEAN, NEW blocking \in BOOLEAN,
             NEW waits \in WaitLists(t, q), Enqueue(t, q, waits, explicit, blocking)
      PROVE  RootsOrdered(t)'
  <2>1. /\ UNCHANGED root
        /\ \A l \in 1..Depth(t) : Level(t, l).step \notin OnTop
        /\ \A l \in 1..Depth(t)' :
              \/ l \in 1..Depth(t) /\ Level(t, l)' = Level(t, l)
              \/ Level(t, l)' = EnqueueStep("append", q, n + 1)
              \/ Level(t, l)'.step \in {"stamp", "lock"}
    BY <1>1, <1>2, <1>4, EnqueueLevels DEF PlacesOK
  <2>2. EnqueueStep("append", q, n + 1).c = n + 1
    BY DEF EnqueueStep
  <2>3. Len(command') = n + 1
    <3>1. PICK r : command' = Append(command, r)
      BY <1>1, <1>4, Created
    <3>2. command \in Seq(CommandRecords \cup {r})
      BY SeqMonotonic DEF TypeOK
    <3>3. QED
      BY <1>2, <3>1, <3>2, AppendProperties
  <2>4. QED
    BY <2>1, <2>2, <2>3 DEF RootsOrdered, OnTop, Sorted
<1>5. CASE OtherCall(t)
  BY <1>1, <1>5, CallLevels DEF RootsOrdered, Sorted
<1>6. CASE RuntimeStep(t)
  <2>1. Calm(t) /\ UNCHANGED command
    BY <1>1, <1>6, RuntimeCalm, CommandsKept
  <2>2. ASSUME NEW l \in 1..Depth(t)', Level(t, l)'.step = "append"
        PROVE  Level(t, l)'.c = Len(command')
    <3>1. l \in 1..Depth(t) /\ Level(t, l)' = Level(t, l)
      BY <2>1, <2>2 DEF Calm, QuietStep
    <3>2. QED
      BY <2>1, <2>2, <3>1 DEF RootsOrdered
  <2>3. CASE UNCHANGED root
    BY <2>2, <2>3 DEF RootsOrdered, Sorted
  <2>4. CASE AppendCommand(t)
    <3>1. PICK c, p : c = Top(t).c /\ p = Top(t).q
      OBVIOUS
    <3>2. /\ stack[t] # <<>> /\ Top(t).step = "append" /\ c \in Commands /\ p \in Queues
          /\ root' = [root EXCEPT ![p] = Append(@, c)]
      BY <1>1, <2>4, <3>1, EnqueueEnds DEF AppendCommand, At, Top
    <3>3. c = n
      <4>1. Depth(t) \in 1..Depth(t) /\ Level(t, Depth(t)) = Top(t)
        BY <1>1, <3>2, Levels
      <4>2. QED
        BY <1>2, <3>1, <3>2, <4>1 DEF RootsOrdered
    <3>4. ~Has(root[p], c)
      <4>1. Has(Holds(Top(t)), c)
        BY <3>1, <3>2, HoldsKinds, HasOne
      <4>2. QED
        BY <1>1, <3>2, <4>1, NotElsewhere
    <3>5. ASSUME NEW d, Has(root[p], d)
          PROVE  d < c
      <4>1. d \in Commands /\ d # c
        BY <1>1, <3>2, <3>4, <3>5, HasMember
      <4>2. QED
        BY <1>3, <3>3, <4>1
    <3>6. Sorted(Append(root[p], c))
      BY <1>1, <3>2, <3>5, SortedAppended DEF RootsOrdered
    <3>7. \A q \in Queues : root'[q] = IF q = p THEN Append(root[p], c) ELSE root[q]
      BY <3>2 DEF TypeOK
    <3>8. \A q \in Queues : Sorted(root'[q])
      BY <3>6, <3>7 DEF RootsOrdered
    <3>9. QED
      BY <2>2, <3>8 DEF RootsOrdered, Sorted
  <2>5. CASE Submit(t) /\ ~UNCHANGED root
    <3>1. PICK p : p = Top(t).hand
      OBVIOUS
    <3>2. /\ Top(t) \in SubmitSteps /\ root[p] # <<>> /\ root' = [root EXCEPT ![p] = Tail(@)]
      BY <1>1, <2>5, <3>1, SubmitView DEF PlacesOK
    <3>3. p \in Queues
      BY <3>1, <3>2 DEF SubmitSteps
    <3>4. Sorted(Tail(root[p]))
      BY <1>1, <3>2, <3>3, SortedTail DEF RootsOrdered
    <3>5. \A q \in Queues : root'[q] = IF q = p THEN Tail(root[p]) ELSE root[q]
      BY <3>2, <3>3 DEF TypeOK
    <3>6. \A q \in Queues : Sorted(root'[q])
      BY <3>4, <3>5 DEF RootsOrdered
    <3>7. QED
      BY <2>2, <3>6 DEF RootsOrdered, Sorted
  <2>6. AppendCommand(t) \/ Submit(t) \/ UNCHANGED root
    BY <1>6 DEF RuntimeStep, StampQueued, CallbackReturns, LockQueue, Scan, UnlockQueue,
       StartCommand, CompleteCommand, ReleaseImplicitEvent, Return, UnrefQueue, RecycleEvent
  <2>7. QED
    BY <2>3, <2>4, <2>5, <2>6
<1>7. CASE UNCHANGED vars
  BY <1>7 DEF vars, RootsOrdered, Sorted, Depth, Level
<1>8. QED
  BY <1>4, <1>5, <1>6, <1>7, StepCases

\* The command that clFinish takes comes after nothing that is still to run:
\* what its queue has before it was taken before, and so was what it waits for,
\* whose status says so and whose cell is still its own.
LEMMA TakenInOrder ==
  ASSUME TypeOK, NEW t \in Threads, PlacesOK(t), NestOK(t), StatusOK(t), OneFlush(t),
         RootsOrdered(t), DepsKnown, stack[t] # <<>>, Top(t).step = "scan",
         NEW h \in Queues, root[h] # <<>>, Unready(Head(root[h])) = {},
         NEW d \in Before(Head(root[h])), d \notin finished
  PROVE  Has(Top(t).ready, d)
<1>1. PICK c : c = Head(root[h])
  OBVIOUS
<1>2. /\ root[h] \in Seq(Commands) /\ c \in Commands /\ Has(root[h], c)
  <2>1. root[h] \in Seq(Commands)
    BY DEF TypeOK
  <2>2. QED
    BY <1>1, <2>1, HasTail
<1>3. d \in Commands
  BY <1>1, <1>2, BeforeTyped
<1>4. /\ Depth(t) \in Nat /\ Depth(t) \in 1..Depth(t) /\ Level(t, Depth(t)) = Top(t)
  BY Levels
<1>5. ASSUME NEW q \in Queues, Has(root[q], d)
      PROVE  FALSE
  <2>1. command[d].queue = q /\ command[c].queue = h
    BY <1>2, <1>3, <1>5 DEF PlacesOK, HomesOK
  <2>2. CASE d < c /\ command[d].queue = command[c].queue
    <3>1. Has(root[h], d)
      BY <1>5, <2>1, <2>2
    <3>2. d = c \/ c < d
      BY <1>1, <1>2, <3>1, SortedTail DEF RootsOrdered
    <3>3. c \in Nat /\ d \in Nat
      BY <1>2, <1>3, LenProperties DEF TypeOK, Commands
    <3>4. QED
      BY <2>2, <3>2, <3>3
  <2>3. CASE d \in command[c].deps
    <3>1. Has(command[c].waits, command[d].event)
      BY <1>2, <2>3 DEF DepsKnown
    <3>2. PICK i \in 1..Len(command[c].waits) : command[c].waits[i] = command[d].event
      BY <3>1 DEF Has
    <3>3. i \in DOMAIN command[c].waits
      BY <1>2, <3>2, CommandTyped, LenProperties
    <3>4. Status(d) \in Done
      BY <1>1, <3>2, <3>3 DEF Unready, Status
    <3>5. Stamps(t, d)
      BY <1>3, <1>5, <3>4 DEF StatusOK, RootsOK, Done
    <3>6. PICK l \in 1..Depth(t) : Level(t, l).step = "stamp"
      BY <3>5 DEF Stamps
    <3>7. l < Depth(t)
      BY <1>4, <3>6
    <3>8. QED
      BY <3>6, <3>7, NoLockBelow DEF PlacesOK, Enqueues
  <2>4. QED
    BY <1>1, <2>2, <2>3 DEF Before
<1>6. PICK l : Has(Held(t, l), d)
  BY <1>3, <1>5 DEF PlacesOK, HomesOK
<1>7. l \in 1..Depth(t) /\ Held(t, l) = Holds(Level(t, l))
  BY <1>6, HasNothing DEF Held
<1>8. Level(t, l).step \notin {"lock", "unref", "recycle", "stamp", "callback"}
  BY <1>6, <1>7, HoldsKinds, HasNothing
<1>9. Level(t, l).step # "append"
  BY <1>4, <1>7 DEF PlacesOK, StackOK, OnTop
<1>10. Level(t, l) \in Steps
  BY <1>7, Levels
<1>11. Level(t, l).step \in Flushes
  BY <1>8, <1>9, <1>10 DEF Flushes, Steps, LockSteps, ScanSteps, SubmitSteps, RunSteps, BusySteps,
     UnrefSteps, RecycleSteps, EnqueueSteps, CallbackStep
<1>12. l = Depth(t)
  BY <1>4, <1>7, <1>11 DEF OneFlush, Flushes
<1>13. QED
  BY <1>4, <1>6, <1>7, <1>12, HoldsKinds

\* What the runtime does to the flush it is in: it goes on with the same
\* commands, takes one more, or is rid of one that has ended.
FlowGoes(t, f) ==
  \/ Flow(f) = Flow(Top(t))
  \/ Takes(t, f) /\ Top(t) \in ScanSteps
  \/ Flow(Top(t)) # <<>> /\ Head(Flow(Top(t))) \in finished /\ Flow(f) = Tail(Flow(Top(t)))
\* One command begins, or ends, or none.
Runs(t, f) ==
  \/ /\ UNCHANGED <<started, finished>> /\ Top(t).step # "complete" /\ f.step # "complete"
  \/ /\ Top(t).step = "run" /\ f.step = "complete" /\ UNCHANGED finished
     /\ started' = started \cup {Head(f.todo)}
  \/ /\ Top(t).step = "complete" /\ f.step = "release" /\ UNCHANGED started
     /\ finished' = finished \cup {Head(Top(t).todo)}

LEMMA FlowShape ==
  ASSUME TypeOK, NEW t \in Threads, PlacesOK(t), DepsKnown, RuntimeStep(t), UNCHANGED aborted
  PROVE  /\ stack[t] # <<>> /\ UNCHANGED command
         /\ \/ /\ Replace(t, <<>>) /\ UNCHANGED <<started, finished>>
               /\ Top(t).step # "complete"
            \/ \E f \in Steps, s \in Seq(Steps) :
                 /\ Replace(t, s \o <<f>>) /\ \A i \in 1..Len(s) : s[i].step = "callback"
                 /\ FlowGoes(t, f) /\ Runs(t, f)
<1>1. stack[t] # <<>> /\ UNCHANGED command
  BY LoopShape, CommandsKept
<1>2. ASSUME NEW f \in Steps, Replace(t, <<f>>), FlowGoes(t, f), Runs(t, f)
      PROVE  \E g \in Steps, s \in Seq(Steps) :
                 /\ Replace(t, s \o <<g>>) /\ \A i \in 1..Len(s) : s[i].step = "callback"
                 /\ FlowGoes(t, g) /\ Runs(t, g)
  <2> DEFINE none == <<>>
  <2>1. none \in Seq(Steps) /\ Len(none) = 0 /\ <<f>> = none \o <<f>>
    OBVIOUS
  <2> HIDE DEF none
  <2>2. Replace(t, none \o <<f>>)
    BY <1>2, <2>1
  <2>3. \A i \in 1..Len(none) : none[i].step = "callback"
    BY <2>1
  <2>4. QED
    BY <1>2, <2>1, <2>2, <2>3
<1>3. CASE AppendCommand(t) \/ StampQueued(t) \/ CallbackReturns(t) \/ Return(t) \/ UnrefQueue(t)
           \/ RecycleEvent(t)
  BY <1>1, <1>3 DEF AppendCommand, StampQueued, CallbackReturns, Return, UnrefQueue,
     RecycleEvent, At, Top
<1>4. CASE LockQueue(t)
  <2>1. UNCHANGED <<started, finished>> /\ Top(t) \in LockSteps
    BY <1>4, LockView DEF LockQueue
  <2>2. PICK f \in ScanSteps : Replace(t, <<f>>) /\ f.ready = <<>>
    BY <1>4, LockView
  <2>3. f \in Steps /\ f.step = "scan" /\ Top(t).step = "lock"
    BY <2>1, <2>2 DEF Steps, ScanSteps, LockSteps
  <2>4. Flow(f) = Flow(Top(t))
    BY <2>2, <2>3, FlowKinds
  <2>5. QED
    BY <1>1, <1>2, <2>1, <2>2, <2>3, <2>4 DEF FlowGoes, Runs
<1>5. CASE Scan(t)
  <2>1. UNCHANGED <<started, finished>> /\ Top(t) \in ScanSteps
    BY <1>5, ScanView DEF Scan
  <2>2. PICK f \in Steps : Replace(t, <<f>>) /\ (Turns(t, f) \/ Takes(t, f))
    BY <1>5, ScanView
  <2>3. f.step \in {"scan", "submit"} /\ Top(t).step = "scan"
    BY <2>1, <2>2 DEF Turns, Takes, ScanSteps, SubmitSteps
  <2>4. Takes(t, f) \/ Flow(f) = Flow(Top(t))
    BY <2>2, <2>3, FlowKinds DEF Turns
  <2>5. QED
    BY <1>1, <1>2, <2>1, <2>2, <2>3, <2>4 DEF FlowGoes, Runs
<1>6. CASE Submit(t)
  <2>1. UNCHANGED <<started, finished>> /\ Top(t) \in SubmitSteps
    BY <1>6, SubmitView DEF Submit, PlacesOK
  <2>2. PICK f \in ScanSteps : Replace(t, <<f>>) /\ Turns(t, f)
    <3>1. aborted' # TRUE
      BY <1>6 DEF Submit, At
    <3>2. QED
      BY <1>6, <3>1, SubmitView DEF PlacesOK
  <2>3. f \in Steps /\ f.step = "scan" /\ Top(t).step = "submit"
    BY <2>1, <2>2 DEF Steps, ScanSteps, SubmitSteps
  <2>4. Flow(f) = Flow(Top(t))
    BY <2>2, <2>3, FlowKinds DEF Turns
  <2>5. QED
    BY <1>1, <1>2, <2>1, <2>2, <2>3, <2>4 DEF FlowGoes, Runs
<1>7. CASE UnlockQueue(t)
  <2>1. UNCHANGED <<started, finished>> /\ Top(t) \in ScanSteps
    BY <1>7, UnlockView DEF UnlockQueue
  <2>2. PICK f \in RunSteps : Replace(t, <<f>>) /\ f.todo = Top(t).ready
    BY <1>7, UnlockView
  <2>3. f \in Steps /\ f.step = "run" /\ Top(t).step = "scan"
    BY <2>1, <2>2 DEF Steps, RunSteps, ScanSteps
  <2>4. Flow(f) = Flow(Top(t))
    BY <2>2, <2>3, FlowKinds
  <2>5. QED
    BY <1>1, <1>2, <2>1, <2>2, <2>3, <2>4 DEF FlowGoes, Runs
<1>8. CASE StartCommand(t)
  <2>1. /\ started' = started \cup {Head(Top(t).todo)} /\ UNCHANGED finished
        /\ Top(t) \in RunSteps
    BY <1>8, StartView DEF StartCommand
  <2>2. PICK f \in BusySteps : Replace(t, <<f>>) /\ f.step = "complete" /\ f.todo = Top(t).todo
    BY <1>8, StartView
  <2>3. f \in Steps /\ Top(t).step = "run"
    BY <2>1, <2>2 DEF Steps, RunSteps
  <2>4. Flow(f) = Flow(Top(t))
    BY <2>2, <2>3, FlowKinds
  <2>5. QED
    BY <1>1, <1>2, <2>1, <2>2, <2>3, <2>4 DEF FlowGoes, Runs
<1>9. CASE CompleteCommand(t)
  <2>1. /\ finished' = finished \cup {Head(Top(t).todo)} /\ UNCHANGED started
        /\ Top(t).step = "complete"
    BY <1>9, CompleteView DEF CompleteCommand
  <2>2. PICK f \in BusySteps, s \in Seq(Steps) :
          /\ Replace(t, s \o <<f>>) /\ f.step = "release" /\ f.todo = Top(t).todo
          /\ \A i \in 1..Len(s) : s[i] = CallbackStep
    BY <1>9, CompleteView
  <2>3. f \in Steps /\ CallbackStep.step = "callback"
    BY <2>2 DEF Steps, CallbackStep
  <2>4. Flow(f) = Flow(Top(t))
    BY <2>1, <2>2, <2>3, FlowKinds
  <2>5. FlowGoes(t, f) /\ Runs(t, f)
    BY <2>1, <2>2, <2>4 DEF FlowGoes, Runs
  <2>6. QED
    BY <1>1, <2>2, <2>3, <2>5
<1>10. CASE ReleaseImplicitEvent(t)
  <2>1. PICK c : c = Head(Top(t).todo)
    OBVIOUS
  <2>2. /\ UNCHANGED <<started, finished>> /\ Top(t) \in BusySteps /\ Top(t).step = "release"
        /\ c \in Commands
    BY <1>10, <2>1, ReleaseView DEF ReleaseImplicitEvent
  <2>3. PICK f \in RunSteps, s \in Seq(Steps) :
          /\ Replace(t, s \o <<f>>) /\ f.todo = Tail(Top(t).todo)
          /\ (command[c].explicit /\ s = <<>>) \/ ~command[c].explicit
    BY <1>10, <2>1, ReleaseView
  <2>4. s = <<>> /\ f \in Steps /\ f.step = "run"
    BY <2>2, <2>3 DEF DepsKnown, Steps, RunSteps
  <2>5. Head(Top(t).todo) \in finished
    BY <1>1, <2>2, TopOK DEF PlacesOK, StepOK
  <2>6. Flow(Top(t)) = Top(t).todo /\ Flow(f) = f.todo /\ Top(t).todo # <<>>
    BY <2>2, <2>4, FlowKinds DEF BusySteps
  <2>7. FlowGoes(t, f) /\ Runs(t, f)
    BY <2>2, <2>3, <2>4, <2>5, <2>6 DEF FlowGoes, Runs
  <2>8. \A i \in 1..Len(s) : s[i].step = "callback"
    BY <2>4
  <2>9. QED
    BY <1>1, <2>3, <2>4, <2>7, <2>8
<1>11. QED
  BY <1>1, <1>3, <1>4, <1>5, <1>6, <1>7, <1>8, <1>9, <1>10 DEF RuntimeStep

\* What the flush on top goes on with is still in order.
LEMMA FlowGoesOn ==
  ASSUME TypeOK, NEW t \in Threads, PlacesOK(t), NestOK(t), StatusOK(t), OneFlush(t),
         RootsOrdered(t), DepsKnown, stack[t] # <<>>, InOrder(Flow(Top(t))),
         NEW f \in Steps, FlowGoes(t, f)
  PROVE  Flow(f) \in Seq(Commands) /\ InOrder(Flow(f))
<1>1. Top(t) \in Steps /\ Flow(Top(t)) \in Seq(Commands) /\ Flow(f) \in Seq(Commands)
  <2>1. Top(t) \in Steps
    BY Levels
  <2>2. QED
    BY <2>1, FlowTyped
<1>2. CASE Flow(f) = Flow(Top(t))
  BY <1>1, <1>2
<1>3. CASE Takes(t, f) /\ Top(t) \in ScanSteps
  <2>1. PICK s, h : s = f.ready /\ h = f.hand
    OBVIOUS
  <2>2. /\ f.step = "submit" /\ s \in Seq(Commands) /\ s # <<>> /\ h \in Queues
        /\ Top(t).step = "scan" /\ root[h] # <<>>
        /\ Front(s) = Top(t).ready /\ Last(s) = Head(root[h]) /\ Unready(Head(root[h])) = {}
    BY <1>3, <2>1 DEF Takes, SubmitSteps, ScanSteps
  <2>3. Flow(f) = s /\ Flow(Top(t)) = Front(s)
    BY <2>1, <2>2, FlowKinds
  <2>4. \A d \in Before(Last(s)) : d \in finished \/ Has(Front(s), d)
    BY <2>2, TakenInOrder
  <2>5. InOrder(s)
    BY <2>2, <2>3, <2>4, InOrderAppended
  <2>6. QED
    BY <1>1, <2>3, <2>5
<1>4. CASE /\ Flow(Top(t)) # <<>> /\ Head(Flow(Top(t))) \in finished
           /\ Flow(f) = Tail(Flow(Top(t)))
  BY <1>1, <1>4, InOrderDropped
<1>5. QED
  BY <1>2, <1>3, <1>4 DEF FlowGoes

\* The levels after a step of the runtime: what was below the top, callbacks
\* above it, and at the top what the flush goes on with.
LEMMA RuntimeLevels ==
  ASSUME TypeOK, NEW t \in Threads, PlacesOK(t), DepsKnown, RuntimeStep(t), UNCHANGED aborted
  PROVE  /\ stack[t] # <<>> /\ UNCHANGED command /\ Depth(t) \in Nat /\ Depth(t) > 0
         /\ \A l \in 1..Depth(t) : l < Depth(t) => Level(t, l).step \notin OnTop
         /\ \A l \in 1..Depth(t)' :
              l # Depth(t) => \/ l \in 1..Depth(t) /\ l < Depth(t) /\ Level(t, l)' = Level(t, l)
                              \/ Level(t, l)'.step = "callback"
         /\ \/ /\ Depth(t) \notin 1..Depth(t)'
               /\ UNCHANGED <<started, finished>> /\ Top(t).step # "complete"
            \/ \E n \in 1..Depth(t)', f \in Steps :
                 n = Depth(t) /\ Level(t, n)' = f /\ FlowGoes(t, f) /\ Runs(t, f)
<1>1. /\ stack[t] # <<>> /\ UNCHANGED command /\ Depth(t) \in Nat /\ Depth(t) > 0
      /\ \A l \in 1..Depth(t) : l < Depth(t) => Level(t, l).step \notin OnTop
  <2>1. stack[t] # <<>> /\ UNCHANGED command
    BY FlowShape
  <2>2. QED
    BY <2>1, Levels DEF PlacesOK, StackOK
<1>2. PICK n, d : n = Depth(t) /\ d = Depth(t)'
  OBVIOUS
<1>3. CASE Replace(t, <<>>) /\ UNCHANGED <<started, finished>> /\ Top(t).step # "complete"
  <2>1. /\ n \in Nat /\ n > 0 /\ d = n - 1
        /\ \A l \in 1..d : Level(t, l)' = Level(t, l)
    BY <1>1, <1>2, <1>3, TopLeaves
  <2>2. n \notin 1..d /\ \A l \in 1..d : l \in 1..n /\ l < n
    BY <2>1
  <2>3. QED
    BY <1>1, <1>2, <1>3, <2>1, <2>2
<1>4. ASSUME NEW f \in Steps, NEW s \in Seq(Steps), Replace(t, s \o <<f>>),
             \A i \in 1..Len(s) : s[i].step = "callback", FlowGoes(t, f), Runs(t, f)
      PROVE  /\ \A l \in 1..Depth(t)' :
                  l # Depth(t) => \/ l \in 1..Depth(t) /\ l < Depth(t) /\ Level(t, l)' = Level(t, l)
                                  \/ Level(t, l)'.step = "callback"
             /\ \E m \in 1..Depth(t)', g \in Steps :
                  m = Depth(t) /\ Level(t, m)' = g /\ FlowGoes(t, g) /\ Runs(t, g)
  <2>1. /\ n \in Nat /\ n > 0 /\ Len(s) \in Nat /\ d = n + Len(s)
        /\ \A l \in 1..d : Level(t, l)' = IF l < n THEN Level(t, l)
                                          ELSE IF l = n THEN f ELSE s[d + 1 - l]
    <3>1. /\ Depth(t) \in Nat /\ Depth(t) > 0 /\ Len(s) \in Nat
          /\ Depth(t)' = Depth(t) + Len(s)
          /\ \A l \in 1..Depth(t)' :
              Level(t, l)' = IF l < Depth(t) THEN Level(t, l)
                             ELSE IF l = Depth(t) THEN f ELSE s[Depth(t)' + 1 - l]
      BY <1>1, <1>4, TopCovered
    <3>2. QED
      BY <1>2, <3>1
  <2>2. n \in 1..d /\ Level(t, n)' = f
    BY <2>1
  <2>3. ASSUME NEW l \in 1..d, l # n
        PROVE  \/ l \in 1..n /\ l < n /\ Level(t, l)' = Level(t, l)
               \/ Level(t, l)'.step = "callback"
    <3>1. CASE l < n
      BY <2>1, <3>1
    <3>2. CASE ~(l < n)
      <4>1. d + 1 - l \in 1..Len(s)
        BY <2>1, <2>3, <3>2
      <4>2. QED
        BY <1>4, <2>1, <2>3, <3>2, <4>1
    <3>3. QED
      BY <3>1, <3>2
  <2>4. QED
    BY <1>2, <1>4, <2>2, <2>3
<1>5. QED
  BY <1>1, <1>3, <1>4, FlowShape


\* Every list of commands a flush is going through stays in order.
LEMMA FlowsStep ==
  ASSUME NEW t, Threads = {t}, TypeOK, TypeOK', PlacesOK(t), NestOK(t), CellsOK(t),
         StatusOK(t), OneFlush(t), RootsOrdered(t), DepsKnown, FlowsOK(t), [Next]_vars,
         UNCHANGED aborted
  PROVE  FlowsOK(t)'
<1>1. t \in Threads /\ Later
  BY StepsLater
<1>2. InOrder(<<>>) /\ <<>> \in Seq(Commands)
  BY DEF InOrder
<1>3. ASSUME NEW l \in 1..Depth(t)', NEW f, Level(t, l)' = f,
             Flow(f) \in Seq(Commands), InOrder(Flow(f))
      PROVE  InOrder(Flow(Level(t, l)))'
  <2>1. PICK s : s = Flow(f)
    OBVIOUS
  <2>2. InOrder(s)'
    BY <1>1, <1>3, <2>1, InOrderStays
  <2>3. Flow(Level(t, l))' = s
    BY <1>3, <2>1 DEF Flow
  <2>4. QED
    BY <2>2, <2>3 DEF InOrder
<1>4. ASSUME NEW l \in 1..Depth(t)',
             Level(t, l)'.step \in {"lock", "unref", "recycle", "append", "stamp", "callback"}
      PROVE  InOrder(Flow(Level(t, l)))'
  <2>1. PICK f : f = Level(t, l)'
    OBVIOUS
  <2>2. Flow(f) = <<>>
    BY <1>4, <2>1, FlowKinds
  <2>3. QED
    BY <1>2, <1>3, <2>1, <2>2
<1>5. ASSUME NEW l \in 1..Depth(t)', l \in 1..Depth(t), Level(t, l)' = Level(t, l)
      PROVE  InOrder(Flow(Level(t, l)))'
  <2>1. PICK f : f = Level(t, l)
    OBVIOUS
  <2>2. f \in Steps /\ InOrder(Flow(f))
    BY <1>1, <1>5, <2>1, Levels DEF FlowsOK
  <2>3. Flow(f) \in Seq(Commands)
    BY <2>2, FlowTyped
  <2>4. QED
    BY <1>3, <1>5, <2>1, <2>2, <2>3
<1>6. ASSUME NEW q \in Queues, NEW explicit \in BOOLEAN, NEW blocking \in BOOLEAN,
             NEW waits \in WaitLists(t, q), Enqueue(t, q, waits, explicit, blocking)
      PROVE  FlowsOK(t)'
  <2>1. \A l \in 1..Depth(t)' :
              \/ l \in 1..Depth(t) /\ Level(t, l)' = Level(t, l)
              \/ Level(t, l)' = EnqueueStep("append", q, Len(command) + 1)
              \/ Level(t, l)'.step \in {"stamp", "lock"}
    BY <1>1, <1>6, EnqueueLevels DEF PlacesOK
  <2>2. EnqueueStep("append", q, Len(command) + 1).step = "append"
    BY DEF EnqueueStep
  <2>3. QED
    BY <1>4, <1>5, <2>1, <2>2 DEF FlowsOK
<1>7. CASE OtherCall(t)
  <2>1. \A l \in 1..Depth(t)' : Level(t, l)'.step \in {"lock", "unref", "recycle"}
    BY <1>1, <1>7, CallLevels
  <2>2. QED
    BY <1>4, <2>1 DEF FlowsOK
<1>8. CASE RuntimeStep(t)
  <2>1. /\ stack[t] # <<>>
        /\ \A l \in 1..Depth(t)' :
             l # Depth(t) => \/ l \in 1..Depth(t) /\ l < Depth(t) /\ Level(t, l)' = Level(t, l)
                             \/ Level(t, l)'.step = "callback"
        /\ \/ Depth(t) \notin 1..Depth(t)'
           \/ \E n \in 1..Depth(t)', f \in Steps :
                n = Depth(t) /\ Level(t, n)' = f /\ FlowGoes(t, f)
    BY <1>1, <1>8, RuntimeLevels
  <2>2. ASSUME NEW l \in 1..Depth(t)', l = Depth(t)
        PROVE  InOrder(Flow(Level(t, l)))'
    <3>1. PICK f \in Steps : Level(t, l)' = f /\ FlowGoes(t, f)
      BY <2>1, <2>2
    <3>2. InOrder(Flow(Top(t)))
      BY <1>1, <2>1, Levels DEF FlowsOK
    <3>3. Flow(f) \in Seq(Commands) /\ InOrder(Flow(f))
      BY <1>1, <2>1, <3>1, <3>2, FlowGoesOn
    <3>4. QED
      BY <1>3, <3>1, <3>3
  <2>3. QED
    BY <1>4, <1>5, <2>1, <2>2 DEF FlowsOK
<1>9. CASE UNCHANGED vars
  <2>1. Depth(t)' = Depth(t) /\ \A l : Level(t, l)' = Level(t, l)
    BY <1>9 DEF vars, Depth, Level
  <2>2. QED
    BY <1>5, <2>1 DEF FlowsOK
<1>10. QED
  BY <1>6, <1>7, <1>8, <1>9, StepCases

\* The only step that is executing a command is the one on top.
LEMMA ExecutesOnTop ==
  ASSUME TypeOK, NEW t \in Threads, PlacesOK(t), NEW c
  PROVE  Executes(t, c) <=> stack[t] # <<>> /\ Top(t).step = "complete" /\ Head(Top(t).todo) = c
<1>1. ASSUME Executes(t, c)
      PROVE  stack[t] # <<>> /\ Top(t).step = "complete" /\ Head(Top(t).todo) = c
  <2>1. PICK l \in 1..Depth(t) : Level(t, l).step = "complete" /\ Head(Level(t, l).todo) = c
    BY <1>1 DEF Executes
  <2>2. Depth(t) \in Nat /\ ~(l < Depth(t))
    BY <2>1, Levels DEF PlacesOK, StackOK, OnTop
  <2>3. l = Depth(t) /\ stack[t] # <<>>
    BY <2>2, Levels
  <2>4. QED
    BY <2>1, <2>3, Levels
<1>2. QED
  BY <1>1, Levels DEF Executes

\* A step after which nothing is executed, and that neither began nor ended one.
LEMMA NoneExecutes ==
  ASSUME NEW t, StartedOK(t), UNCHANGED <<started, finished>>,
         \A c : ~Executes(t, c),
         \A l \in 1..Depth(t)' : Level(t, l)'.step # "complete"
  PROVE  StartedOK(t)'
BY DEF StartedOK, Executes

LEMMA StartedStep ==
  ASSUME NEW t, Threads = {t}, TypeOK, PlacesOK(t), CellsOK(t), DepsKnown, StartedOK(t),
         [Next]_vars, UNCHANGED aborted
  PROVE  StartedOK(t)'
<1>1. t \in Threads
  OBVIOUS
<1>2. ASSUME NEW q \in Queues, NEW explicit \in BOOLEAN, NEW blocking \in BOOLEAN,
             NEW waits \in WaitLists(t, q), Enqueue(t, q, waits, explicit, blocking)
      PROVE  StartedOK(t)'
  <2>1. /\ UNCHANGED <<started, finished>>
        /\ \A l \in 1..Depth(t) : Level(t, l).step \notin OnTop
        /\ \A l \in 1..Depth(t)' :
              \/ l \in 1..Depth(t) /\ Level(t, l)' = Level(t, l)
              \/ Level(t, l)' = EnqueueStep("append", q, Len(command) + 1)
              \/ Level(t, l)'.step \in {"stamp", "lock"}
    BY <1>1, <1>2, EnqueueLevels DEF PlacesOK
  <2>2. EnqueueStep("append", q, Len(command) + 1).step = "append"
    BY DEF EnqueueStep
  <2>3. \A l \in 1..Depth(t) : Level(t, l).step # "complete"
    BY <2>1 DEF OnTop
  <2>4. \A c : ~Executes(t, c)
    BY <2>3 DEF Executes
  <2>5. \A l \in 1..Depth(t)' : Level(t, l)'.step # "complete"
    BY <2>1, <2>2, <2>3
  <2>6. QED
    BY <2>1, <2>4, <2>5, NoneExecutes
<1>3. CASE OtherCall(t)
  <2>1. /\ UNCHANGED <<started, finished>> /\ Depth(t) = 0
        /\ \A l \in 1..Depth(t)' : Level(t, l)'.step \in {"lock", "unref", "recycle"}
    BY <1>1, <1>3, CallLevels
  <2>2. \A c : ~Executes(t, c)
    BY <2>1 DEF Executes
  <2>3. QED
    BY <2>1, <2>2, NoneExecutes
<1>4. CASE RuntimeStep(t)
  <2>1. /\ stack[t] # <<>> /\ UNCHANGED command
        /\ \A l \in 1..Depth(t) : l < Depth(t) => Level(t, l).step \notin OnTop
        /\ \A l \in 1..Depth(t)' :
              l # Depth(t) => \/ l \in 1..Depth(t) /\ l < Depth(t) /\ Level(t, l)' = Level(t, l)
                              \/ Level(t, l)'.step = "callback"
    BY <1>1, <1>4, RuntimeLevels
  <2>2. \A l \in 1..Depth(t)' : l # Depth(t) => Level(t, l)'.step # "complete"
    BY <2>1 DEF OnTop
  <2>3. \A c : Executes(t, c) <=> Top(t).step = "complete" /\ Head(Top(t).todo) = c
    BY <1>1, <2>1, ExecutesOnTop
  <2>4. CASE /\ Depth(t) \notin 1..Depth(t)'
             /\ UNCHANGED <<started, finished>> /\ Top(t).step # "complete"
    <3>1. \A l \in 1..Depth(t)' : Level(t, l)'.step # "complete"
      BY <2>2, <2>4
    <3>2. QED
      BY <2>3, <2>4, <3>1, NoneExecutes
  <2>5. ASSUME NEW n \in 1..Depth(t)', NEW f \in Steps,
               n = Depth(t), Level(t, n)' = f, Runs(t, f)
        PROVE  StartedOK(t)'
    <3>1. \A c : Executes(t, c)' <=> f.step = "complete" /\ Head(f.todo) = c
      BY <2>2, <2>5 DEF Executes
    <3>2. Commands' = Commands
      BY <2>1 DEF Commands
    <3>3. CASE UNCHANGED <<started, finished>> /\ Top(t).step # "complete" /\ f.step # "complete"
      BY <2>3, <3>1, <3>3 DEF StartedOK
    <3>4. CASE /\ Top(t).step = "run" /\ f.step = "complete" /\ UNCHANGED finished
               /\ started' = started \cup {Head(f.todo)}
      <4>1. \A c \in started : c \in finished
        BY <2>3, <3>4 DEF StartedOK
      <4>2. QED
        BY <3>1, <3>4, <4>1 DEF StartedOK
    <3>5. CASE /\ Top(t).step = "complete" /\ f.step = "release" /\ UNCHANGED started
               /\ finished' = finished \cup {Head(Top(t).todo)}
      <4>1. \A c \in started : c \in finished'
        BY <2>3, <3>5 DEF StartedOK
      <4>2. QED
        BY <3>1, <3>5, <4>1 DEF StartedOK
    <3>6. QED
      BY <2>5, <3>3, <3>4, <3>5 DEF Runs
  <2>6. \/ /\ Depth(t) \notin 1..Depth(t)'
           /\ UNCHANGED <<started, finished>> /\ Top(t).step # "complete"
        \/ \E n \in 1..Depth(t)', f \in Steps :
             n = Depth(t) /\ Level(t, n)' = f /\ Runs(t, f)
    BY <1>1, <1>4, RuntimeLevels
  <2>7. QED
    BY <2>4, <2>5, <2>6
<1>5. CASE UNCHANGED vars
  <2>1. /\ \A c : Executes(t, c)' <=> Executes(t, c)
        /\ Commands' = Commands /\ UNCHANGED <<started, finished>>
    BY <1>5 DEF vars, Executes, Depth, Level, Commands
  <2>2. QED
    BY <2>1 DEF StartedOK
<1>6. QED
  BY <1>2, <1>3, <1>4, <1>5, StepCases


\* The sequence of issued commands is as long as that of the created ones.
LEMMA Issued ==
  ASSUME NEW S, NEW n \in Nat, NEW s, DOMAIN s = 1..n, s = [i \in 1..n |-> s[i]],
         \A i \in 1..n : s[i] \in S
  PROVE  s \in Seq(S) /\ Len(s) = n
<1>1. s \in [1..n -> S]
  OBVIOUS
<1>2. s \in Seq(S)
  BY <1>1, SeqDef
<1>3. DOMAIN s = 1..Len(s) /\ Len(s) \in Nat
  BY <1>2, LenProperties
<1>4. QED
  BY <1>2, <1>3

\* What comes before a command is the same for the queues and for the promise.
LEMMA SameBefore ==
  ASSUME TypeOK, NEW c \in Commands
  PROVE  Abstract!Before(c) \subseteq Before(c)
<1>1. Commands = 1..Len(command) /\ Len(command) \in Nat
  BY LenProperties DEF TypeOK, Commands
<1>2. \A d \in 1..(c - 1) : d \in Commands /\ d < c
  BY <1>1
<1>3. QED
  BY <1>2 DEF Abstract!Before, Before

\* An enqueue call issues its command.
LEMMA EnqueueIssues ==
  ASSUME TypeOK, NEW t \in Threads, NEW q \in Queues,
         NEW explicit \in BOOLEAN, NEW blocking \in BOOLEAN,
         NEW waits \in WaitLists(t, q), Enqueue(t, q, waits, explicit, blocking)
  PROVE  Abstract!Next
<1>1. PICK r : /\ command' = Append(command, r) /\ r.queue = q
               /\ r.deps = {event[waits[i]].cmd : i \in DOMAIN waits}
  BY Created
<1>2. PICK n : n = Len(command)
  OBVIOUS
<1>3. n \in Nat /\ Commands = 1..n
  BY <1>2, LenProperties DEF TypeOK, Commands
<1>4. /\ Commands' = 1..(n + 1) /\ command'[n + 1] = r
      /\ \A d \in 1..n : command'[d] = command[d]
  <2>1. /\ Commands' = Commands \cup {n + 1} /\ command'[n + 1] = r
        /\ \A d \in Commands : command'[d] = command[d]
    BY <1>1, <1>2, CommandAppended
  <2>2. QED
    BY <1>3, <2>1
<1>5. r.deps \subseteq 1..n
  <2>1. ASSUME NEW i \in DOMAIN waits
        PROVE  event[waits[i]].cmd \in Commands
    <3>1. waits \in Seq(Events)
      BY WaitListTyped
    <3>2. waits[i] \in Events
      BY <3>1, LenProperties, ElementOfSeq
    <3>3. QED
      BY <3>2, EventTyped
  <2>2. QED
    BY <1>1, <1>3, <2>1
<1>6. PICK old, new, x :
        /\ old = [c \in Commands |-> [queue |-> command[c].queue, deps |-> command[c].deps]]
        /\ new = [c \in Commands' |-> [queue |-> command'[c].queue, deps |-> command'[c].deps]]
        /\ x = [queue |-> q, deps |-> r.deps]
  OBVIOUS
<1>7. PICK S : x \in S /\ \A i \in 1..n : old[i] \in S
  <2>1. x \in {x} \cup {old[i] : i \in 1..n} /\ \A i \in 1..n : old[i] \in {x} \cup {old[j] : j \in 1..n}
    OBVIOUS
  <2>2. QED
    BY <2>1
<1>8. old \in Seq(S) /\ Len(old) = n
  <2>1. DOMAIN old = 1..n /\ old = [i \in 1..n |-> old[i]]
    BY <1>3, <1>6
  <2>2. QED
    BY <1>3, <1>7, <2>1, Issued
<1>9. \A i \in 1..(n + 1) : new[i] = IF i = n + 1 THEN x ELSE old[i]
  <2>1. new[n + 1] = x
    <3>1. n + 1 \in Commands'
      BY <1>3, <1>4
    <3>2. new[n + 1] = [queue |-> command'[n + 1].queue, deps |-> command'[n + 1].deps]
      BY <1>6, <3>1
    <3>3. QED
      BY <1>1, <1>4, <1>6, <3>2
  <2>2. ASSUME NEW i \in 1..n
        PROVE  new[i] = old[i]
    BY <1>3, <1>4, <1>6
  <2>3. \A i \in 1..(n + 1) : i = n + 1 \/ i \in 1..n
    BY <1>3
  <2>4. QED
    BY <2>1, <2>2, <2>3
<1>10. new \in Seq(S) /\ Len(new) = n + 1
  <2>1. n + 1 \in Nat /\ DOMAIN new = 1..(n + 1) /\ new = [i \in 1..(n + 1) |-> new[i]]
    BY <1>3, <1>4, <1>6
  <2>2. \A i \in 1..(n + 1) : new[i] \in S
    <3>1. \A i \in 1..(n + 1) : i = n + 1 \/ i \in 1..n
      BY <1>3
    <3>2. QED
      BY <1>7, <1>9, <3>1
  <2>3. QED
    BY <2>1, <2>2, Issued
<1>11. new = Append(old, x)
  <2>1. PICK a : a = Append(old, x)
    OBVIOUS
  <2>2. /\ a \in Seq(S) /\ Len(a) = n + 1 /\ a[n + 1] = x
        /\ \A i \in 1..n : a[i] = old[i]
    BY <1>7, <1>8, <2>1, AppendProperties
  <2>3. \A i \in 1..(n + 1) : a[i] = new[i]
    <3>1. \A i \in 1..(n + 1) : i = n + 1 \/ (i \in 1..n /\ i # n + 1)
      BY <1>3
    <3>2. QED
      BY <1>9, <2>2, <3>1
  <2>4. QED
    BY <1>10, <2>1, <2>2, <2>3, SeqEqual
<1>12. n < MaxCommands /\ UNCHANGED <<started, finished>>
  BY <1>2 DEF Enqueue
<1>13. Abstract!Issue(q, r.deps)
  BY <1>6, <1>8, <1>11, <1>12 DEF Abstract!Issue
<1>14. \E deps \in SUBSET (1..Len(old)) : Abstract!Issue(q, deps)
  BY <1>5, <1>8, <1>13
<1>15. QED
  BY <1>6, <1>14 DEF Abstract!Next

\* exec_commands begins a command when all that it comes after has ended.
LEMMA BeginsInOrder ==
  ASSUME TypeOK, NEW t \in Threads, FlowsOK(t), StartCommand(t)
  PROVE  Head(Top(t).todo) \in Commands /\ Before(Head(Top(t).todo)) \subseteq finished
<1>1. PICK c, todo : c = Head(Top(t).todo) /\ todo = Top(t).todo
  OBVIOUS
<1>2. /\ stack[t] # <<>> /\ Top(t).step = "run" /\ todo \in Seq(Commands) /\ todo # <<>>
  BY <1>1, StartView DEF RunSteps
<1>3. c \in Commands /\ c = todo[1] /\ 1 \in 1..Len(todo)
  <2>1. Len(todo) \in Nat /\ Len(todo) > 0
    BY <1>2, EmptySeq, LenProperties
  <2>2. QED
    BY <1>1, <1>2, <2>1, HeadTailProperties
<1>4. InOrder(todo)
  BY <1>1, <1>2, FlowKinds, Levels DEF FlowsOK
<1>5. \A j \in 1..Len(todo) : ~(j < 1)
  OBVIOUS
<1>6. Before(c) \subseteq finished
  BY <1>3, <1>4, <1>5 DEF InOrder
<1>7. QED
  BY <1>1, <1>3, <1>6

\* Each execution step begins or ends the operation of its command, and every
\* other step but the enqueue calls leaves the order of execution alone.
LEMMA ExecutionStep ==
  ASSUME NEW t, Threads = {t}, TypeOK, PlacesOK(t), CellsOK(t), StatusOK(t), FlowsOK(t),
         StartedOK(t), [Next]_vars
  PROVE  Abstract!Next \/ UNCHANGED Abstract!vars
<1>1. t \in Threads /\ Later
  BY StepsLater
<1>2. PICK issued : issued = [c \in Commands |-> [queue |-> command[c].queue, deps |-> command[c].deps]]
  OBVIOUS
<1>3. Commands = 1..Len(issued)
  <2>1. PICK n : n \in Nat /\ Commands = 1..n
    BY LenProperties DEF TypeOK, Commands
  <2>2. DOMAIN issued = 1..n /\ issued = [i \in 1..n |-> issued[i]]
        /\ \A i \in 1..n : issued[i] \in {issued[j] : j \in 1..n}
    BY <1>2, <2>1
  <2>3. Len(issued) = n
    BY <2>1, <2>2, Issued
  <2>4. QED
    BY <2>1, <2>3
<1>4. ASSUME UNCHANGED command
      PROVE  UNCHANGED [c \in Commands |-> [queue |-> command[c].queue, deps |-> command[c].deps]]
  BY <1>4 DEF Commands
<1>5. ASSUME NEW q \in Queues, NEW explicit \in BOOLEAN, NEW blocking \in BOOLEAN,
             NEW waits \in WaitLists(t, q), Enqueue(t, q, waits, explicit, blocking)
      PROVE  Abstract!Next
  BY <1>1, <1>5, EnqueueIssues
<1>6. CASE StartCommand(t)
  <2>1. PICK c : c = Head(Top(t).todo)
    OBVIOUS
  <2>2. /\ stack[t] # <<>> /\ Top(t).step = "run"
        /\ UNCHANGED <<command, finished>> /\ started' = started \cup {c}
    BY <1>1, <1>6, <2>1, StartView DEF RunSteps, StartCommand
  <2>3. c \in Commands /\ Before(c) \subseteq finished
    BY <1>1, <1>6, <2>1, BeginsInOrder
  <2>4. c \notin started
    <3>1. c \notin finished
      BY <1>1, <1>6, <2>1, ExecutionKeepsStatus
    <3>2. ~Executes(t, c)
      BY <1>1, <2>2, ExecutesOnTop
    <3>3. QED
      BY <3>1, <3>2 DEF StartedOK
  <2>5. Abstract!Before(c) \subseteq finished
    BY <2>3, SameBefore
  <2>6. Abstract!Start(c)
    BY <1>4, <2>2, <2>4, <2>5 DEF Abstract!Start
  <2>7. QED
    BY <1>2, <1>3, <2>3, <2>6 DEF Abstract!Next
<1>7. CASE CompleteCommand(t)
  <2>1. PICK c : c = Head(Top(t).todo)
    OBVIOUS
  <2>2. /\ stack[t] # <<>> /\ Top(t).step = "complete" /\ Top(t).todo \in Seq(Commands)
        /\ Top(t).todo # <<>> /\ UNCHANGED <<command, started>> /\ finished' = finished \cup {c}
    BY <1>1, <1>7, <2>1, CompleteView DEF BusySteps, CompleteCommand
  <2>3. c \in Commands
    BY <2>1, <2>2, HeadTailProperties
  <2>4. c \in started
    BY <1>1, <2>1, <2>2, <2>3, ExecutesOnTop DEF StartedOK
  <2>5. c \notin finished
    BY <1>1, <1>7, <2>1, ExecutionKeepsStatus
  <2>6. Abstract!End(c)
    BY <1>4, <2>2, <2>4, <2>5 DEF Abstract!End
  <2>7. QED
    BY <1>2, <1>3, <2>3, <2>6 DEF Abstract!Next
<1>8. ASSUME OtherCall(t) \/ RuntimeStep(t) \/ UNCHANGED vars, ~StartCommand(t), ~CompleteCommand(t)
      PROVE  UNCHANGED Abstract!vars
  <2>1. UNCHANGED command
    BY <1>1, <1>8, CommandsKept
  <2>2. UNCHANGED <<started, finished>>
    <3>1. CASE OtherCall(t)
      BY <1>1, <3>1, CallLevels
    <3>2. CASE RuntimeStep(t)
      BY <1>8, <3>2 DEF RuntimeStep, AppendCommand, StampQueued, CallbackReturns, LockQueue, Scan,
         Submit, UnlockQueue, ReleaseImplicitEvent, Return, UnrefQueue, RecycleEvent
    <3>3. CASE UNCHANGED vars
      BY <3>3 DEF vars
    <3>4. QED
      BY <1>8, <3>1, <3>2, <3>3
  <2>3. QED
    BY <1>4, <2>1, <2>2 DEF Abstract!vars
<1>9. QED
  BY <1>5, <1>6, <1>7, <1>8, StepCases

\* What the thread's stack, the queues and the event cells are when every
\* command has an event the client asked for.
OrderInv(t) ==
  /\ OwnersOK /\ PlacesOK(t) /\ NestOK(t) /\ CellsOK(t) /\ PoolOK(t) /\ StatusOK(t)
  /\ OneFlush(t) /\ RootsOrdered(t) /\ DepsKnown /\ FlowsOK(t) /\ StartedOK(t)

LEMMA OrderInit ==
  ASSUME NEW t \in Threads, Init
  PROVE  OrderInv(t)
<1>1. Commands = {} /\ Depth(t) = 0 /\ started = {} /\ \A q \in Queues : root[q] = <<>>
  BY DEF Init, Commands, Depth
<1>2. OneFlush(t) /\ DepsKnown /\ FlowsOK(t) /\ StartedOK(t)
  BY <1>1 DEF OneFlush, DepsKnown, FlowsOK, StartedOK, Executes
<1>3. RootsOrdered(t)
  BY <1>1 DEF RootsOrdered, Sorted
<1>4. QED
  BY <1>2, <1>3, PlacesInit, DueInit, CellsInit DEF OrderInv

LEMMA OrderStep ==
  ASSUME NEW t, Threads = {t}, "implicit_event" \notin Client,
         TypeOK, TypeOK', OrderInv(t), [Next]_vars
  PROVE  OrderInv(t)'
<1>1. /\ OwnersOK /\ PlacesOK(t) /\ NestOK(t) /\ CellsOK(t) /\ PoolOK(t) /\ StatusOK(t)
      /\ OneFlush(t) /\ RootsOrdered(t) /\ DepsKnown /\ FlowsOK(t) /\ StartedOK(t)
  BY DEF OrderInv
<1>2. /\ OwnersOK' /\ PlacesOK(t)' /\ NestOK(t)' /\ CellsOK(t)' /\ PoolOK(t)' /\ StatusOK(t)'
      /\ UNCHANGED aborted
  BY <1>1, PlacesStep, OwnersStep, NestStep, CellsStep, StatusStep
<1>3. OneFlush(t)' /\ RootsOrdered(t)' /\ DepsKnown'
  BY <1>1, OneFlushStep, RootsStep, DepsStep
<1>4. FlowsOK(t)' /\ StartedOK(t)'
  BY <1>1, <1>2, FlowsStep, StartedStep
<1>5. QED
  BY <1>2, <1>3, <1>4 DEF OrderInv

\* With one host thread, and a client that asks for the event of every command,
\* the runtime executes commands as in-order queues and wait lists promise: each
\* one once, and only after what it comes after has ended, however wait lists
\* cross queues, calls block and callbacks enqueue.
THEOREM OneThreadImplements ==
  ASSUME NEW t, Threads = {t}, "implicit_event" \notin Client
  PROVE  Spec => Implements
<1>1. Init => OrderInv(t)
  BY OrderInit
<1>2. TypeOK /\ TypeOK' /\ OrderInv(t) /\ [Next]_vars => OrderInv(t)'
  BY OrderStep
<1>3. TypeOK /\ OrderInv(t) /\ [Next]_vars => [Abstract!Next]_(Abstract!vars)
  BY ExecutionStep DEF OrderInv
<1>4. Init => Abstract!Init
  <2>1. Init => DOMAIN command = {} /\ started = {} /\ finished = {}
    BY DEF Init
  <2>2. QED
    BY <2>1 DEF Abstract!Init, Commands
<1>5. QED
  BY <1>1, <1>2, <1>3, <1>4, QueueTypes, PTL DEF Spec, Implements, Abstract!Spec

\* Under the same hypotheses no operation begins before what it comes after has
\* ended: where the runtime breaks that promise on one thread, some command has
\* an event that the client never saw and that is released inside a flush.
THEOREM OneThreadOrder ==
  ASSUME NEW t, Threads = {t}, "implicit_event" \notin Client
  PROVE  Spec => []OrderKept
<1>1. Init => OrderInv(t) /\ OrderKept
  <2>1. Init => OrderKept
    BY DEF Init, OrderKept
  <2>2. QED
    BY <2>1, OrderInit
<1>2. ASSUME TypeOK, TypeOK', OrderInv(t), OrderKept, [Next]_vars
      PROVE  OrderKept'
  <2>1. t \in Threads /\ Later /\ started \subseteq Commands /\ FlowsOK(t) /\ PlacesOK(t)
    BY <1>2, StepsLater DEF TypeOK, OrderInv
  <2>2. ASSUME NEW c \in Commands, Before(c) \subseteq finished
        PROVE  Before(c)' \subseteq finished'
    BY <1>2, <2>1, <2>2, BeforeStays DEF Later
  <2>3. CASE StartCommand(t)
    <3>1. PICK c : c = Head(Top(t).todo)
      OBVIOUS
    <3>2. c \in Commands /\ Before(c) \subseteq finished /\ started' = started \cup {c}
      BY <1>2, <2>1, <2>3, <3>1, BeginsInOrder DEF StartCommand
    <3>3. QED
      BY <1>2, <2>1, <2>2, <3>2 DEF OrderKept
  <2>4. CASE ~StartCommand(t)
    <3>1. UNCHANGED started
      <4>1. ASSUME NEW q \in Queues, NEW explicit \in BOOLEAN, NEW blocking \in BOOLEAN,
                   NEW waits \in WaitLists(t, q), Enqueue(t, q, waits, explicit, blocking)
            PROVE  UNCHANGED started
        BY <4>1 DEF Enqueue
      <4>2. CASE OtherCall(t)
        BY <1>2, <2>1, <4>2, CallLevels
      <4>3. CASE RuntimeStep(t)
        BY <2>4, <4>3 DEF RuntimeStep, AppendCommand, StampQueued, CallbackReturns, LockQueue, Scan,
           Submit, UnlockQueue, CompleteCommand, ReleaseImplicitEvent, Return, UnrefQueue, RecycleEvent
      <4>4. CASE UNCHANGED vars
        BY <4>4 DEF vars
      <4>5. QED
        BY <1>2, <4>1, <4>2, <4>3, <4>4, StepCases
    <3>2. QED
      BY <1>2, <2>1, <2>2, <3>1 DEF OrderKept
  <2>5. QED
    BY <2>3, <2>4
<1>3. TypeOK /\ TypeOK' /\ OrderInv(t) /\ [Next]_vars => OrderInv(t)'
  BY OrderStep
<1>4. TypeOK /\ TypeOK' /\ (OrderInv(t) /\ OrderKept) /\ [Next]_vars => OrderInv(t)' /\ OrderKept'
  BY <1>2, <1>3
<1>5. QED
  BY <1>1, <1>4, QueueTypes, PTL DEF Spec
=============================================================================
