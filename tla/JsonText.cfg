SPECIFICATION Spec
CONSTANTS
  Node = {1, 2, 3, 4, 5, 6, 7, 8}
  Name = {}
  Fold = Fold
  Nil = Nil
  Start <- MCStart
  Meaning <- MCMeaning
  Commented <- MCCommented
  Block <- MCBlock
  NestingLimit = 2
  DefaultSize = 4
  IntMax = 40
  MaxMemory = 9
  MaxBlock = 24
CHECK_DEADLOCK FALSE
INVARIANTS
  ParsesExactlyDocuments
  MemoryIsKept
  PrintReadsBack
PROPERTY
  MinifyKeepsMeaning
