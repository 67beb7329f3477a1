SPECIFICATION Spec
CONSTANTS
  Threads = {t1, t2}
  Buffers = {b1, b2}
  Kernels = {k1, k2}
  Context = Context
  Program = Program
  Null = Null
  Addresses = {a1, a2}
  NumDevices = 1
  MaxObjects = 5
  MaxRefs = 2
  MaxPending = 2
  MaxMaps = 2
INVARIANT TypeOK
INVARIANT CountsExact
INVARIANT NothingDangles
INVARIANT DeletedWhenDue
 
INVARIANT KernelsListed
SYMMETRY Symmetric
CHECK_DEADLOCK FALSE
