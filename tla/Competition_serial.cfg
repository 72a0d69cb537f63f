\* One request at a time, of every kind, whose statements may fail.
SPECIFICATION Spec
CONSTANTS
    r1 = r1
    r2 = r2
    t1 = t1
    t2 = t2
    c1 = c1
    Requests = {r1}
    Modes = {"individual", "team"}
    JoinModes = {"free", "managed"}
    Kinds = {"get", "list", "start", "end", "update", "delete", "addTeam", "removeTeam", "assign", "unassign"}
    Teams = {t1, t2}
    Challenges = {c1}
    MaxTime = 1
    MaxAssigned = 2
    Faults = {"store"}
SYMMETRY Interchangeable
PROPERTIES
    PatchesTouchOnlyTheirFields
CHECK_DEADLOCK FALSE
