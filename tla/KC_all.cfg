SPECIFICATION FairSpec
CONSTANTS
  a1 = a1
  a2 = a2
  a3 = a3
  a4 = a4
  p1 = p1
  p2 = p2
  Actors = {a1, a2, a3, a4}
  Processes = {p1, p2}
  ProcessOf <- TwoProcesses
  Modes = {"cached", "includes", "off"}
  None = None
  MaxBuilds <- OnceEach
  MaxVersion = 1
  MaxCrashes = 1
INVARIANT TypeOK
INVARIANT AloneSucceeds
INVARIANT WarmCacheSafe
INVARIANT PartialIsBeingWritten
PROPERTY CallsEnd
CHECK_DEADLOCK FALSE
