\* A deleted challenge makes the statistics of all users fail.
SPECIFICATION Spec
CONSTANTS
    u1 = u1
    u2 = u2
    t1 = t1
    c1 = c1
    c2 = c2
    Readers = {r1}
    Views = {"users"}
    Users = {u1, u2}
    Teams = {t1}
    NoTeam = NoTeam
    TeamOf <- Mates
    Challenges = {c1}
    Category <- OneChallenge
    Points <- OnePoint
    MaxRows = 2
    MaxChanges = 1
    MaxFaults = 0
PROPERTIES
    OnlyFaultsFail
CHECK_DEADLOCK FALSE
