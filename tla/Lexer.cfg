SPECIFICATION FairSpec
CONSTANTS
  Letter <- MCLetter
  NumberLetter <- MCNumberLetter
  Digit <- MCDigit
  Other <- MCOther
  TrueWord <- MCTrueWord
  FalseWord <- MCFalseWord
  NilWord <- MCNilWord
  Keyword <- MCKeyword
  IsNumeral <- MCIsNumeral
  Docs <- MCDocs
  BufSize = 9
  MaxQuoted = 4
  MaxLong = 5
  MaxWord = 4
INVARIANTS
  PlaceIsTrue
PROPERTIES
  ImplementsTokenStream
  LexingEnds
