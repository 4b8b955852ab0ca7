SPECIFICATION LSpec
CONSTANTS
  NoValue = NoValue
  KnownHashes <- Hashes
  PoolParent <- Pools
  Programs <- Given
INVARIANTS
  VisitsInOrder
  PlainIsCalculated
  FaultNeeds
  PoolsAndTables
  ErrorsAreReported
PROPERTIES
  TakesBackOwn
  NamesPerQuery
  Finishes
CHECK_DEADLOCK FALSE
