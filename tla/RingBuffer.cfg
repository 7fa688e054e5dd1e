SPECIFICATION Spec
CONSTANTS
  Byte = {0, 1}
  MaxLen = 2
  InitCap = 3
  MaxCap = 6
  Chunk <- MCChunk
INVARIANT
  FillOnlyWhenDry
PROPERTY
  ImplementsQueue
