SPECIFICATION Spec
CONSTANTS
  KnownFamilies <- Known
  Corpora <- Directories
  GoldenOutcomes <- Golden
  Witnesses <- SomeWitnesses
  Checkpoints <- SomeCheckpoints
  None = "none"
  Missing = "missing"
INVARIANTS
  CountIsOfVerified
  QuorumIsOverTheLog
PROPERTY ExitStatusIsRight
CHECK_DEADLOCK FALSE
