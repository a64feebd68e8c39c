SPECIFICATION Spec
CONSTANTS
  Procs <- MCProcs
  Doctors <- MCDoctors
  MaxTampers = 1
  MaxTrouble = 2
INVARIANTS
  ConfigMeansComplete
  AnswerMeansComplete
  NotEmptyHasCause
PROPERTIES
  NeverTakesOver
  EveryCallEnds
