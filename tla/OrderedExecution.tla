-------------------------- MODULE OrderedExecution --------------------------
(***************************************************************************)
(* What in-order command queues and event wait lists promise a client,     *)
(* with no lists, locks or reference counts: commands are issued to        *)
(* queues, and the device operation of a command begins once only, after   *)
(* everything it comes after has ended.                                    *)
(***************************************************************************)
EXTENDS Naturals, Sequences

CONSTANTS
  Queues,
  MaxCommands  \* bound: commands issued in a behaviour

VARIABLES
  issued,   \* issued[c]: queue of the c-th command, commands of its wait list
  started,  \* commands whose device operation has begun
  finished  \* commands whose device operation has ended

vars == <<issued, started, finished>>

\* The commands that come before c: earlier ones of its queue, and those whose
\* events it waits for.
Before(c) == {d \in 1..(c - 1) : issued[d].queue = issued[c].queue} \cup issued[c].deps

Issue(q, deps) ==
  /\ Len(issued) < MaxCommands
  /\ issued' = Append(issued, [queue |-> q, deps |-> deps])
  /\ UNCHANGED <<started, finished>>

Start(c) ==
  /\ c \notin started
  /\ Before(c) \subseteq finished
  /\ started' = started \cup {c}
  /\ UNCHANGED <<issued, finished>>

End(c) ==
  /\ c \in started \ finished
  /\ finished' = finished \cup {c}
  /\ UNCHANGED <<issued, started>>

Init == issued = <<>> /\ started = {} /\ finished = {}

Next ==
  \/ \E q \in Queues : \E deps \in SUBSET (1..Len(issued)) : Issue(q, deps)
  \/ \E c \in 1..Len(issued) : Start(c) \/ End(c)

Spec == Init /\ [][Next]_vars
-----------------------------------------------------------------------------
\* Only issued commands begin, and wait lists name commands issued before.
TypeOK ==
  /\ issued \in Seq([queue : Queues, deps : SUBSET Nat])
  /\ started \subseteq 1..Len(issued)
  /\ finished \subseteq started

\* The execution order respects both kinds of precedence: a command has begun
\* only if everything before it has ended.
OrderKept == \A c \in started : Before(c) \subseteq finished
=============================================================================
