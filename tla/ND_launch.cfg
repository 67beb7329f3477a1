SPECIFICATION FairSpec
CONSTANTS
  Hosts = {h1, h2}
  Globals <- MCGlobals
  Locals <- MCLocals
  NoSizeGiven = NoSizeGiven
  MaxGroupSize = 3
  MaxItemSize = 4
  Multiple = 2
  ThreadCounts <- MCThreadCounts
  MaxThreadCount = 2
  IntBits = 3
  SizeModulus = 64
INVARIANT TypeOK
INVARIANT AutoSizeAccepted
INVARIANT EveryItemOnce
INVARIANT ArgsPrivate
PROPERTY LaunchEnds
PROPERTY ImplementsPromise
CHECK_DEADLOCK FALSE
