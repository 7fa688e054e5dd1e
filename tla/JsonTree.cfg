SPECIFICATION Spec
SYMMETRY Symmetric
CONSTANTS
  n1 = n1
  n2 = n2
  n3 = n3
  n4 = n4
  Node = {n1, n2, n3, n4}
  Name = {"a", "A"}
  Fold <- MCFold
  Text = {"t"}
  Nil = Nil
  MaxRoots = 2
  MaxStrings = 2
  MaxFlagged = 1
INVARIANTS
  ListsAreLinked
  StringsAreOwned
  CompareIsEquality
  CopyIsSame
PROPERTY
  ImplementsForest
