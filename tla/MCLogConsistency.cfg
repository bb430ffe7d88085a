SPECIFICATION PairSpec
CONSTANTS
  MaxSize = 6
  MaxPairSize = 4
  Hash <- Hashes
  Calls <- SomeCalls
  Rivals <- SomeRivals
INVARIANTS
  WithinTrees
  HistoryIsUnique
PROPERTY FoldDecidesConsistency
CHECK_DEADLOCK FALSE
