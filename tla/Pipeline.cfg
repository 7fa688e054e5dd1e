SPECIFICATION PipelineSpec
CONSTANTS
  Byte <- MCByte
  Chunk <- MCChunk
  InitCap = 3
  MaxCap = 24
  Letter <- MCLetter
  NumberLetter <- MCNumberLetter
  Digit <- MCDigit
  Other <- MCOther
  TrueWord <- MCTrueWord
  FalseWord <- MCFalseWord
  NilWord <- MCNilWord
  Keyword <- MCKeyword
  IsNumeral <- MCIsNumeral
  Docs <- MCDocs
  BufSize = 9
  Alphabet <- MCAlphabet
  Block = 3
  MaxDoc = 3
INVARIANTS
  NothingOvertaken
  MemoryBounded
PROPERTIES
  TokensAreOfDocument
  PipelineEnds
