SPECIFICATION LedgerFairSpec
CONSTANTS
    Coach = {c1, c2}
    Track = {t1, t2}
    Timer = {k1, k2}
    DriftThreshold = 1
    BucketSize = 1
    CameraCount = {2}
    MaxMoves = 3
    MaxLedgerFaults = 1
INVARIANT ExitsTracked
PROPERTY PendingEventuallyResolved
CHECK_DEADLOCK FALSE
