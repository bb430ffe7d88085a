SPECIFICATION PairSpec
CONSTANTS
  Origins <- Origin
  Keys <- Key
  Profiles <- Profile
  Lists <- SomeLists
  Cases <- SomeCases
  Rivals <- SomeRivals
INVARIANTS
  TrustedIffVouchedFor
  FirstOfTheBest
  EntriesOnlyAdd
  CapabilitiesOnlyRefuse
CHECK_DEADLOCK FALSE
