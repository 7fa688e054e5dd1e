SPECIFICATION Spec
CONSTANTS
  Letter <- MCLetter
  NumberLetter <- MCNumberLetter
  Digit <- MCDigit
  Other <- MCOther
  TrueWord <- MCTrueWord
  FalseWord <- MCFalseWord
  NilWord <- MCNilWord
  Keyword <- MCKeyword
  IsNumeral <- MCIsNumeral
  Docs <- MCDocs
  BufSize = 16
  MaxQuoted = 2
  MaxLong = 2
  MaxWord = 3
INVARIANT
  IdentifiersAreNames
