SPECIFICATION Spec
CONSTANTS
  t1 = t1
  t2 = t2
  q1 = q1
  q2 = q2
  q3 = q3
  NoThread = NoThread
  Threads = {t1}
  Queues = {q1, q2}
  MayUse <- Shared
  MaxCommands = 3
  MaxReferences = 1
  MaxCallbacks = 1
  Client = {"implicit_event", "cross_wait", "release_event", "release_queue", "callback", "enqueue_in_callback"}
INVARIANT AssertsHold
INVARIANT HeldOnce
INVARIANT PooledEventUnused
INVARIANT FreedQueueUnreachable
INVARIANT NoSelfDeadlock
CHECK_DEADLOCK FALSE
