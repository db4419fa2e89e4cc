SPECIFICATION FairSpec
CONSTANTS
    NumEvents = 3
    Sub <- MCSub
    NoCar = NoCar
    AllCoaches = AllCoaches
    TypeOf <- MCTypeOf
    SeverityOf <- MCSeverityOf
    CarOf <- MCCarOf
    EventTypes <- MCEventTypes
    MinSeverity <- MCMinSeverity
    CoachIds <- MCCoachIds
    Depth <- MCDepth
    QueueMax = 1
 
PROPERTY EventuallyReceived
