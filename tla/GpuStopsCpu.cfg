SPECIFICATION Spec
CONSTANTS
  DictLen = 5
  LengthLimit = 4
  Queries <- TestQueries
  None = None
  FlushLimit = 100
  AtomicFlush = FALSE
  VariantsCount = 3
  MaxThreads = 1
  MaxDevices = 1
INVARIANTS
  PresentIsFound
