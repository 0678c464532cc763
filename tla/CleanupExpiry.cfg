CONSTANTS
    Turn = {t1, t2}
    SessionTurn = {}
    Retention = 0
    MaxBytes = 2
    MayFail = FALSE
    MaxTime = 1
    MaxCrashes = 1
SPECIFICATION FairSpec
PROPERTY ExpiredTurnsGo
CHECK_DEADLOCK FALSE
