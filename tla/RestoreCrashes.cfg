SPECIFICATION LSpec
CONSTANTS
  NoValue = NoValue
  KnownHashes <- Hashes
  PoolParent <- Pools
  Programs <- Given
INVARIANT RestoreRuns
CHECK_DEADLOCK FALSE
