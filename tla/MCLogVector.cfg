SPECIFICATION Spec
CONSTANTS
  MaxSize = 5
  Vectors <- Cases
INVARIANTS
  GoldenAccepted
  AcceptedIsProved
  RaisesOnlyOnFault
CHECK_DEADLOCK FALSE
