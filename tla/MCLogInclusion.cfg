SPECIFICATION PairSpec
CONSTANTS
  MaxSize = 8
  MaxPairSize = 4
  Calls <- SomeCalls
  Rivals <- SomeRivals
INVARIANTS
  WithinTree
  PositionBinds
PROPERTY FoldDecidesInclusion
CHECK_DEADLOCK FALSE
