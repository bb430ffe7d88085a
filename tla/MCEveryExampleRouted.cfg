SPECIFICATION CheckSpec
CONSTANTS
  MaxEdits = 2
  NoId = NoId
  Consumer = "consumer"
  OptionalOnly <- Optional
  Repositories <- Repository
  Edits <- Changes
INVARIANT EveryExampleRouted
CHECK_DEADLOCK FALSE
