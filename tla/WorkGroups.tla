----------------------------- MODULE WorkGroups -----------------------------
(***************************************************************************)
(* What a device promises of a kernel launch: each work-group of the grid  *)
(* is executed once, in any order, and the launch returns when all have    *)
(* been.                                                                   *)
(***************************************************************************)
EXTENDS Integers

CONSTANTS
  Hosts,      \* the threads that launch kernels, once each
  Shapes      \* the numbers of groups in x, y and z they launch

VARIABLES
  running,    \* running[h]: h is inside a launch
  ran         \* ran[h][g]: how often group g of h's launch has been executed

GridOf(n) == (0..(n[1] - 1)) \X (0..(n[2] - 1)) \X (0..(n[3] - 1))

Begin(h) ==
  /\ ~running[h] /\ ran[h] = <<>>
  /\ \E n \in Shapes : ran' = [ran EXCEPT ![h] = [g \in GridOf(n) |-> 0]]
  /\ running' = [running EXCEPT ![h] = TRUE]

Execute(h, g) ==
  /\ running[h] /\ ran[h][g] = 0
  /\ ran' = [ran EXCEPT ![h][g] = 1]
  /\ UNCHANGED running

Return(h) ==
  /\ running[h] /\ \A g \in DOMAIN ran[h] : ran[h][g] = 1
  /\ running' = [running EXCEPT ![h] = FALSE]
  /\ UNCHANGED ran

Init == running = [h \in Hosts |-> FALSE] /\ ran = [h \in Hosts |-> <<>>]

Next == \E h \in Hosts : Begin(h) \/ Return(h) \/ \E g \in DOMAIN ran[h] : Execute(h, g)

Spec == Init /\ [][Next]_<<running, ran>>
=============================================================================
