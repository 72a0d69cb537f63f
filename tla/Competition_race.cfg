\* Two requests at a time on one competition, fairly scheduled; administrators
\* interfere with readers and with each other, and then stop.
SPECIFICATION FairSpec
CONSTANTS
    r1 = r1
    r2 = r2
    t1 = t1
    t2 = t2
    c1 = c1
    Requests = {r1, r2}
    Modes = {"individual"}
    JoinModes = {"free"}
    Kinds = {"get", "start", "end", "update", "delete"}
    Teams = {}
    Challenges = {}
    MaxTime = 1
    MaxAssigned = 1
    Faults = {}
INVARIANTS
    WindowIsOrdered
PROPERTIES
    DeletedIsFinal
    StatusSettles
CHECK_DEADLOCK FALSE
