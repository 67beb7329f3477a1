SPECIFICATION Spec
CONSTANTS
  t1 = t1
  t2 = t2
  q1 = q1
  q2 = q2
  q3 = q3
  NoThread = NoThread
  Threads = {t1, t2}
  Queues = {q1, q2, q3}
  MayUse <- Private
  MaxCommands = 4
  MaxReferences = 1
  MaxCallbacks = 0
  Client = {"cross_wait"}
SYMMETRY QueueSymmetry
INVARIANT FinishDrains
PROPERTY Implements
CHECK_DEADLOCK FALSE
