CONSTANTS
  Dirs <- MCDirs
  Ample <- MCAmple
  Tight <- MCTight
  MaxTrouble = 2
SPECIFICATION Spec
INVARIANT ReportedStateWasTrue
INVARIANT ParentNeverOutranksChild
INVARIANT NothingIsOverlooked
