\* Two requests, no fault and no administrator: only the code races.
CONSTANTS
    r1 = r1
    r2 = r2
    u1 = u1
    u2 = u2
    Requests = {r1, r2}
    Users = {u1, u2}
    Teams = {t1}
    NoTeam = NoTeam
    Challenges = {c1}
    Flags = {f1, f2}
    Oversized = Oversized
    Faults = {}
    MaxChanges = 0
SPECIFICATION Spec
INVARIANTS
    OneSolvePerTeam
CHECK_DEADLOCK FALSE
