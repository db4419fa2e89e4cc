SPECIFICATION FairSpec
CONSTANTS
    Task = {t1, t2}
    Journey = {j1, j2}
    Car = {c1}
    Flags <- MCFlags
    Pct = {0, 1}
    Threshold = 0
    NoJourney = NoJourney
    NoTask = NoTask
    NoPct = NoPct
    NoOccupancy = NoOccupancy
    MaxPushes = 3
    MaxCandidates = 2
    MaxFaults = 1
INVARIANTS JourneyEndedOnce 
PROPERTY RequestsAnswered
CHECK_DEADLOCK FALSE
