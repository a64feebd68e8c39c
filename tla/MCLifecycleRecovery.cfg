SPECIFICATION Spec
CONSTANTS
    Ids = {i1, i2}
    Names = {n1}
    Sources = {s1}
    Targets = {t1}
    Volumes = {v1}
    Codes = {"E_FILESYSTEM"}
    Times = {0, 1}
    NoRow = NoRow
    Procs = {p1, p2, p3}
    NoProc = NoProc
    UserDirs = {u1}
    NoDir = NoDir
    NoId = NoId
    Requests <- BasicRequests
    MaxFaults = 1
    MaxCrashes = 2
    MaxMeddle = 0
SYMMETRY LifecycleSymmetry
CHECK_DEADLOCK FALSE
INVARIANTS
    LifecycleIsSerialized
    StartedBeforeDestruction
    Recoverable
    ForcedRemovalStopsForCause
PROPERTIES
    NothingRemovedIsTrue
