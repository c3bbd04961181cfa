\* Safety and liveness of four concurrent calls, with errors, kills and restarts.
CONSTANTS
  Calls = {c1, c2, c3, c4}
  NoFile = NoFile
  OldFile = OldFile
SPECIFICATION FairSpec
INVARIANTS
  TypeOK
  OverlapBound
  LeftByItsCreator
PROPERTIES
  KeepsPromise
  EveryCallReturns
