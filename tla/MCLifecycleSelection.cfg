SPECIFICATION QuerySpec
CONSTANTS
    Ids = {i1, i2}
    Names = {n1, n2}
    Sources = {s1}
    Targets = {t1, t2}
    Volumes = {v1}
    Codes = {"E_FILESYSTEM"}
    Times = {0}
    NoRow = NoRow
    Procs = {p1, p2, p3}
    NoProc = NoProc
    UserDirs = {u1}
    NoDir = NoDir
    NoId = NoId
    Requests <- SelectionRequests
    MaxFaults = 0
    MaxCrashes = 0
    MaxMeddle = 0
SYMMETRY SelectionSymmetry
CHECK_DEADLOCK FALSE
INVARIANTS
    AmbiguousSelectsNothing
    AnswerRestsOnReady
    LayoutErrorMeansRemoval
