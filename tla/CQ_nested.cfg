SPECIFICATION Spec
CONSTANTS
  t1 = t1
  t2 = t2
  q1 = q1
  q2 = q2
  q3 = q3
  NoThread = NoThread
  Threads = {t1}
  Queues = {q1, q2}
  MayUse <- Shared
  MaxCommands = 4
  MaxReferences = 1
  MaxCallbacks = 0
  Client = {"implicit_event", "cross_wait"}
SYMMETRY QueueSymmetry
INVARIANT OrderKept
CHECK_DEADLOCK FALSE
