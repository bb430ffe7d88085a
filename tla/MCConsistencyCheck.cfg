SPECIFICATION CheckSpec
CONSTANTS
  MaxEdits = 2
  NoId = NoId
  Consumer = "consumer"
  OptionalOnly <- Optional
  Repositories <- Repository
  Edits <- Changes
INVARIANTS
  ListedOfKnownFamilyExists
  LoneEditNoticed
  AssertedCodesGoOverTheWire
  OptionalStaysOptional
CHECK_DEADLOCK FALSE
