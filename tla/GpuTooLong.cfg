SPECIFICATION Spec
CONSTANTS
  DictLen = 2
  LengthLimit = 4
  Queries <- TooLongQueries
  None = None
  FlushLimit = 100
  AtomicFlush = FALSE
  VariantsCount = 3
  MaxThreads = 1
  MaxDevices = 1
INVARIANTS
  AnswerNotTooLong
