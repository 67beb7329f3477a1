SPECIFICATION Spec
CONSTANTS
  a1 = a1
  a2 = a2
  a3 = a3
  a4 = a4
  p1 = p1
  p2 = p2
  Actors = {a1}
  Processes = {p1}
  ProcessOf <- OneProcess
  Modes = {"includes"}
  None = None
  MaxBuilds <- Again
  MaxVersion = 1
  MaxCrashes = 0
INVARIANT RunsWhatWasBuilt
CHECK_DEADLOCK FALSE
