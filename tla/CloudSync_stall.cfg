SPECIFICATION FairSpec
CONSTANTS
    NumEvents = 4
    JourneyOf <- MCJourneyOf
    TimestampOf <- MCTimestampOf
    Withheld = {2, 3}
    Retain = 2
    PageLimit = 2
    InOrder = TRUE
    PublishRate = 2
    EnqueueMayFail = FALSE
    MaxFaults = 0
PROPERTY StoredEventuallyDelivered
CHECK_DEADLOCK FALSE
