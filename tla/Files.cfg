CONSTANTS
  BufferSize = 2
  MaxSize = 3
  Parts <- MCParts
  Options <- MCOptions
  Zeros = Zeros
  NoDigest = NoDigest
  OtherDigest = OtherDigest
  SearchHashes <- MCSearchHashes
  NonEmpty <- MCNonEmpty
SPECIFICATION FilterSpec
INVARIANTS
  FileInv
  MapsInside
  MatchIsTrue
  MismatchIsTrue
  ErrorIsTold
  FilterIsRight
  
PROPERTIES
  HandlerReturns
