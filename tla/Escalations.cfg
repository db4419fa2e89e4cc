SPECIFICATION FairSpec
CONSTANTS
    Escalation = {e1}
    Request = {r1, r2, r3}
    MaxRequests = 6
    None = None
INVARIANTS FramesFollowCommits LateDismissalsOverlap
PROPERTIES ImplementsLifecycle PanelsConverge
CHECK_DEADLOCK FALSE
