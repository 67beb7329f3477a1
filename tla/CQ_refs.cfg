SPECIFICATION FairSpec
CONSTANTS
  t1 = t1
  t2 = t2
  q1 = q1
  q2 = q2
  q3 = q3
  NoThread = NoThread
  Threads = {t1}
  Queues = {q1}
  MayUse <- Shared
  MaxCommands = 3
  MaxReferences = 2
  MaxCallbacks = 0
  Client = {"implicit_event", "blocking", "wait", "retain", "release_event", "release_queue"}
INVARIANT TypeOK
INVARIANT QueueRefsExact
PROPERTY CallsReturn
CHECK_DEADLOCK FALSE
