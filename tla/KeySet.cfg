SPECIFICATION Spec
CONSTANTS
  a = a
  b = b
  c = c
  d = d
  one = one
  uno = uno
  Empty = Empty
  Key = {a, b, c, d, one, uno}
  Value <- MCValue
  Hash <- MCHash
  MinSize = 5
  MaxSize = 11
  LookupMayFail = FALSE
INVARIANT
  KeysReachable
PROPERTIES
  KeysStay
  ImplementsRegistry
