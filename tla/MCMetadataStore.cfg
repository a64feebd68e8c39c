SPECIFICATION CallersSpec
CONSTANTS
    Ids = {i1, i2}
    Names = {n1, n2}
    Sources = {s1}
    Targets = {t1, t2}
    Volumes = {v1, v2}
    Codes = {"E_FILESYSTEM"}
    Times = {0, 1}
    NoRow = NoRow
    Callers = {c1}
    NoView = NoView
SYMMETRY StoreSymmetry
CHECK_DEADLOCK FALSE
INVARIANTS
    ReceiptTracksReady
    CopyOnlyWhenAllowed
    ReservationsAreExclusive
PROPERTIES
    IncompleteNeverReady
    StaleCallsChangeNothing
