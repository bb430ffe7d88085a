SPECIFICATION DispatchSpec
CONSTANTS
  MaxSpan = 3
  Vectors <- SomeVectors
  MaxDerived = 2
  Derived <- Derive
  Fixtures <- SomeFixtures
INVARIANTS
  AcceptedIsGenerated
  LabelDecides
  NegativeIsolatesForm
  EvidenceBindsEntry
  AuthorizedIffEarned
  MoreRevocationsOnlyRefuse
  NoTakeover
CHECK_DEADLOCK FALSE
