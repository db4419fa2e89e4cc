SPECIFICATION FairSpec
CONSTANTS
    NumEvents = 4
    JourneyOf <- MCJourneyOf
    TimestampOf <- MCTimestampOf
    Withheld = {2}
    Retain = 2
    PageLimit = 2
    InOrder = TRUE
    PublishRate = 2
    EnqueueMayFail = FALSE
    MaxFaults = 1
INVARIANT SyncedWasDelivered
PROPERTIES ChronologicalFirstDelivery PublishedEventuallyAcked StoredEventuallyDelivered
CHECK_DEADLOCK FALSE
