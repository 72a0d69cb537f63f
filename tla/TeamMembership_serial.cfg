\* One request at a time, in every order, any statement of which may fail.
SPECIFICATION Spec
CONSTANTS
    r1 = r1
    r2 = r2
    u1 = u1
    u2 = u2
    u3 = u3
    t1 = t1
    t2 = t2
    Requests = {r1}
    Users = {u1, u2, u3}
    Teams = {t1, t2}
    Faults = {"store"}
SYMMETRY Interchangeable
INVARIANTS
    TypeOK
    OneTeamPerUser
    OneCaptain
    DeletedTeamsAreEmpty
    
CHECK_DEADLOCK FALSE
