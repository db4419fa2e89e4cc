SPECIFICATION FairSpec
CONSTANTS
    ann = ann
    bob = bob
    cid = cid
    User = {ann, bob, cid}
    Request = {r1, r2}
    Tables <- MCTables
    Bodies <- MCBodies
    MaxRequests = 3
    None = None
INVARIANTS AdminRemains TrailReplays
PROPERTY RequestsEnd
CHECK_DEADLOCK FALSE
