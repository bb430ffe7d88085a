SPECIFICATION Spec
CONSTANTS
  MaxSize = 3
  Vectors <- Cases
INVARIANT CheckpointReproduced
CHECK_DEADLOCK FALSE
