CONSTANTS
  BlockSize = 2
  StackSize = 4
  MaxBytes = 30
  MaxChunk = 5
SPECIFICATION Spec
INVARIANTS
  StackInv
  RootIsMerkle
PROPERTIES
  CallsReturn
