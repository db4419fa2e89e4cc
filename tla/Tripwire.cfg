SPECIFICATION TripwireFairSpec
CONSTANTS
    fwd = fwd
    aft = aft
    t1 = t1
    Gangway = {fwd, aft}
    GangwayZone <- MCZone
    TrackId = {t1, t2, t3}
    Seen <- MCSeen
    Wire <- MCWire
    Centroid <- MCCentroid
    LastSideMax = 2
    EvictCount = 1
    Attempts = 2
    MaxLive = 2
    None = None
INVARIANTS CrossingsMatchSide EmissionsSound
PROPERTIES RecentSurvives ExitsSettle
CHECK_DEADLOCK FALSE
