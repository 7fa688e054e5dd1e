SPECIFICATION Spec
CONSTANTS
  MaxMine = 2
  MaxKeys = 6
  Refusals <- MCRefusals
CHECK_DEADLOCK FALSE
INVARIANTS
  PoolOutlivesObjects
  ReferencesAreCounted
  NothingIsLost
  FaultsAreKnown
