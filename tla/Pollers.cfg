SPECIFICATION FairSpec
CONSTANTS
    t1 = t1
    t2 = t2
    s1 = s1
    brake = brake
    Worlds <- MCWorlds
    Trip = {t1, t2}
    Alarm = {brake}
    Counts = {"occupancy"}
    Schedule = {s1}
    Reading = {r1}
    Days = 2
    MaxAttempts = 2
    MaxFaults = 2
    MaxChanges = 1
    Empty = Empty
    None = None
INVARIANTS   AlarmsReported
 
