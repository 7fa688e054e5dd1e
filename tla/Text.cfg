SPECIFICATION Spec
CONSTANTS
  MaxParts = 3
  Lead = 5
  MaxBroken = 5
  MaxPoints = 2
  MaxOut = 9
  Quoted <- MCQuoted
  Conversion <- MCConversion
  Garbage <- MCGarbage
CHECK_DEADLOCK FALSE
INVARIANTS
  StaysInside
  EscapesMeanAsDocumented
  ConversionKeepsText
