CONSTANTS
  Limit = 2
  MaxWrites = 3
  RunTicks = 2
  CleanTicks = 2
  DrainReads = 2
SPECIFICATION Spec
INVARIANT SuccessIsWholeOutput
INVARIANT ExitIsNeverGuessed
PROPERTY EveryQueryEnds
