CONSTANTS
    Turn = {t1, t2}
    SessionTurn = {t1}
    Retention = 1
    MaxBytes = 1
    MayFail = TRUE
    MaxTime = 1
    MaxCrashes = 0
SPECIFICATION Spec
INVARIANT TypeOK
PROPERTIES
    InFlightProtected
    EarlierRemovedTogether
    OldestFirst
    CleanupDelivers
CHECK_DEADLOCK FALSE
