----------------------- MODULE OrderedExecution_proofs -----------------------
(* Proofs about OrderedExecution, for any set of queues and any number of     *)
(* commands.                                                                  *)
EXTENDS OrderedExecution, TLAPS

\* The abstract execution is well typed: nothing begins that was not issued,
\* nothing ends that has not begun.
THEOREM OrderedTyping == Spec => []TypeOK
<1>1. Init => TypeOK
  BY DEF Init, TypeOK
<1>2. TypeOK /\ [Next]_vars => TypeOK'
  <2> SUFFICES ASSUME TypeOK, [Next]_vars
               PROVE  TypeOK'
    OBVIOUS
  <2>1. ASSUME NEW q \in Queues, NEW deps \in SUBSET (1..Len(issued)), Issue(q, deps)
        PROVE  TypeOK'
    <3>1. [queue |-> q, deps |-> deps] \in [queue : Queues, deps : SUBSET Nat]
      BY <2>1 DEF TypeOK
    <3>2. QED
      BY <2>1, <3>1 DEF TypeOK, Issue
  <2>2. ASSUME NEW c \in 1..Len(issued), Start(c)
        PROVE  TypeOK'
    BY <2>2 DEF TypeOK, Start
  <2>3. ASSUME NEW c \in 1..Len(issued), End(c)
        PROVE  TypeOK'
    BY <2>3 DEF TypeOK, End
  <2>4. CASE UNCHANGED vars
    BY <2>4 DEF TypeOK, vars
  <2>5. QED
    BY <2>1, <2>2, <2>3, <2>4 DEF Next
<1>3. QED
  BY <1>1, <1>2, PTL DEF Spec

\* Issuing a command changes nothing of what comes before an earlier one.
LEMMA BeforeStable ==
  ASSUME TypeOK, NEW q \in Queues, NEW deps \in SUBSET (1..Len(issued)), Issue(q, deps),
         NEW c \in 1..Len(issued)
  PROVE  Before(c)' = Before(c)
<1>1. \A d \in 1..Len(issued) : issued'[d] = issued[d]
  BY DEF TypeOK, Issue
<1>2. QED
  BY <1>1 DEF Before, TypeOK

\* Every command that began did so after all commands before it had ended:
\* this is what in-order queues and wait lists promise a client.
THEOREM OrderedExecutionKeepsOrder == Spec => []OrderKept
<1>1. Init => OrderKept
  BY DEF Init, OrderKept
<1>2. TypeOK /\ OrderKept /\ [Next]_vars => OrderKept'
  <2> SUFFICES ASSUME TypeOK, OrderKept, [Next]_vars
               PROVE  OrderKept'
    OBVIOUS
  <2>1. ASSUME NEW q \in Queues, NEW deps \in SUBSET (1..Len(issued)), Issue(q, deps)
        PROVE  OrderKept'
    <3>1. \A c \in started : Before(c)' = Before(c)
      BY <2>1, BeforeStable DEF TypeOK
    <3>2. QED
      BY <2>1, <3>1 DEF OrderKept, Issue
  <2>2. ASSUME NEW c \in 1..Len(issued), Start(c)
        PROVE  OrderKept'
    BY <2>2 DEF OrderKept, Start, Before
  <2>3. ASSUME NEW c \in 1..Len(issued), End(c)
        PROVE  OrderKept'
    BY <2>3 DEF OrderKept, End, Before
  <2>4. CASE UNCHANGED vars
    BY <2>4 DEF OrderKept, vars, Before
  <2>5. QED
    BY <2>1, <2>2, <2>3, <2>4 DEF Next
<1>3. QED
  BY <1>1, <1>2, OrderedTyping, PTL DEF Spec
=============================================================================
