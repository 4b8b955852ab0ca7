SPECIFICATION Spec
CONSTANTS
  DictLen = 2
  LengthLimit = 4
  Queries <- AllQueries
  None = None
  FlushLimit = 2
  AtomicFlush = FALSE
  VariantsCount = 2
  MaxThreads = 3
  MaxDevices = 1
INVARIANTS
  IInv
  NothingMissed
  EachWordOnce
  AttemptsCounted
PROPERTIES
  SearchSpec
