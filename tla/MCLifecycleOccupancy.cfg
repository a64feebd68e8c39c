SPECIFICATION ObservedSpec
CONSTANTS
    Ids = {i1}
    Names = {n1}
    Sources = {s1}
    Targets = {t1}
    Volumes = {v1}
    Codes = {"E_FILESYSTEM"}
    Times = {0}
    NoRow = NoRow
    Procs = {p1, p2}
    NoProc = NoProc
    UserDirs = {u1}
    NoDir = NoDir
    NoId = NoId
    Requests <- BasicRequests
    MaxFaults = 0
    MaxCrashes = 0
    MaxMeddle = 0
SYMMETRY LifecycleSymmetry
CHECK_DEADLOCK FALSE
PROPERTIES
    EachDestructiveStepIsScanned
