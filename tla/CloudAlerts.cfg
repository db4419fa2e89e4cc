SPECIFICATION Spec
CONSTANTS
    Request = {q1, q2}
    Client = {c1}
    Reader <- MCReader
    NoReader = nobody
    NoEvent = none
    Event = {1, 2, 3, 4}
    Alert = {1, 2, 3}
    Raised = {1, 3}
    Killable = {1}
    Stamp <- MCStamp
    Batches <- MCBatches
    QueueMax = 2
    ReplayLimit = 2
    MaxWrites = 1
    MaxIngests = 2
    MaxUpdates = 1
INVARIANTS FreshAfterInvalidate LoadsOneAtATime NothingMissed AiredOnce
PROPERTY IngestEnds
CHECK_DEADLOCK FALSE
