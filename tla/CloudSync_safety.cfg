SPECIFICATION Spec
CONSTANTS
    NumEvents = 4
    JourneyOf <- MCJourneyOf
    TimestampOf <- MCTimestampOf
    Withheld = {2}
    Retain = 1
    PageLimit = 2
    InOrder = FALSE
    PublishRate = 2
    EnqueueMayFail = TRUE
    MaxFaults = 2
INVARIANTS TypeOK Custody PrefixDelivered DuplicatesNeedFaults
PROPERTY ImplementsAtLeastOnce
CHECK_DEADLOCK FALSE
