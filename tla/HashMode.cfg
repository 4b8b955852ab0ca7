SPECIFICATION HashSpec
CONSTANTS
  DictLen = 1
  LengthLimit = 7
  Commands <- MCCommands
  Jobs <- MCJobs
  Queries <- MCQueries
  ProbeQuery <- MCProbe
  EmptyString = EmptyString
  None = None
  MaxDefault = 3
  Processors = 2
  KnownHashes = {"md5"}
  PoolParent <- Pools
  FlushLimit = 2
  AtomicFlush = FALSE
  VariantsCount = 2
  MaxThreads = 2
  MaxDevices = 2
INVARIANTS
  AnswersTheJob
  AnswerIsPreimage
  ThreadsInPool
  SlotInBounds
  OnlyTailLost
  ReportsOwnAttempts
PROPERTIES
  Returns
CHECK_DEADLOCK FALSE
