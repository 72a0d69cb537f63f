\* Two solvers and a reader, fairly scheduled, every failure, and a competition
\* that changes its mode or is deleted.
SPECIFICATION FairSpec
CONSTANTS
    u1 = u1
    u2 = u2
    u3 = u3
    u4 = u4
    t1 = t1
    r1 = r1
    r2 = r2
    Users = {u1, u2}
    Teams = {}
    NoTeam = NoTeam
    Modes = {"individual", "team"}
    Readers = {r1}
    Faults = {"store", "ack", "crash"}
    MaxChanges = 1
INVARIANTS
    CachesShowRecords
PROPERTIES
    HandlersFinish
    
CHECK_DEADLOCK FALSE
