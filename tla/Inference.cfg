SPECIFICATION Spec
CONSTANTS
    Task = {t1, t2}
    Car = {"car1"}
    Camera = {"door", "saloon"}
    CarOf <- MCCarOf
    Priority <- MCPriority
    Zone <- MCZone
    VestibuleZone = {"door"}
    Track = {"p1", "p2"}
    Suitcase = "suitcase"
    Views <- MCViews
    RisingAt = 2
    FallingAt = 0
    Crowd = 1
    MinFrames = 2
    MaxFrames = 3
    MaxFaults = 1
INVARIANTS MarksMatchChains  EvidenceFresh FramesAccounted
