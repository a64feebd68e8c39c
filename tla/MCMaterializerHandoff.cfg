CONSTANTS
    Tree <- MCTree
    ParentOf <- MCParentOf
    KindOf <- MCKindOf
    Strays = {}
    AllowFullCopy = TRUE
    MaxTrouble = 0
SPECIFICATION Spec
INVARIANTS
    ClearableAfterSuccess
