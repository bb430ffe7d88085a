SPECIFICATION PairSpec
CONSTANTS
  Keys <- Key
  Agents <- Agent
  Vectors <- Cases
  Rivals <- SomeRivals
INVARIANTS
  BoundaryIsEarliest
  AcceptanceIsEarned
  RefusalIsJustified
  RefusalStands
  OrderIsIrrelevant
PROPERTY CheckDecidesClass
CHECK_DEADLOCK FALSE
