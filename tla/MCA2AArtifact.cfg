SPECIFICATION Spec
CONSTANTS
  Contents <- SomeContents
  Ids <- SomeIds
  Salts <- SomeSalts
  Texts <- SomeTexts
  Inputs <- SomeInputs
  DerivedCap = 2
  Vectors <- SomeVectors
INVARIANTS
  AssemblyIsLastRun
  DerivedIsWhatWasUsed
  HolderAcceptsOnlyTheArtifact
  HolderAcceptsTheArtifact
CHECK_DEADLOCK FALSE
