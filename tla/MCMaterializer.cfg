CONSTANTS
    Tree <- MCTree
    ParentOf <- MCParentOf
    KindOf <- MCKindOf
    Strays = {"u"}
    AllowFullCopy = TRUE
    MaxTrouble = 3
SPECIFICATION Spec
INVARIANTS
    SuccessIsExact
    NothingUnreported
    StraysAreReported
    ReportIsExact
    RollbackRestores
    QuietRunsSucceed
PROPERTIES
    StraysSurvive
