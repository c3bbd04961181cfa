\* Seven bytes for a path, four for an interval, numbers up to 25.
CONSTANTS
  Chars <- AllChars
  TrueTexts <- Trues
  FalseTexts <- Falses
  JobId <- Job
  StepId <- Step
  PathSize = 7
  IntervalSize = 4
  UintMax = 25
  DefaultPath <- DirDefault
  DefaultInterval <- IntervalDefault
  Unset = Unset
  Inputs <- AllInputs
SPECIFICATION Spec
INVARIANTS
  TypeOK
  SettingsFit
  IntervalExact
  LastOneWins
  RefusedBySrun
  DumpDirExported
  DumpDirFits
  DumpDirMeant
  StepDirFromJobDir
\* The step is ready or has failed in the end.
CHECK_DEADLOCK FALSE
