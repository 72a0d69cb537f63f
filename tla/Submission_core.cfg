\* Two requests by up to two users, one team, every fault, one change
\* by an administrator anywhere in between.
CONSTANTS
    r1 = r1
    r2 = r2
    u1 = u1
    u2 = u2
    f1 = f1
    f2 = f2
    Requests = {r1, r2}
    Users = {u1, u2}
    Teams = {t1}
    NoTeam = NoTeam
    Challenges = {c1}
    Flags = {f1, f2}
    Oversized = Oversized
    Faults = {"store", "ack", "auth", "crash"}
    MaxChanges = 1
SPECIFICATION HSpec
SYMMETRY Interchangeable
INVARIANTS
    TypeOK
    OneSolvePerUser
    EventsAnnounceSolves
    AnswersAreTrue
    SilentSolvesFailed
PROPERTIES
    ImplementsLedger
    
    NoLaterTeamSolve
CHECK_DEADLOCK FALSE
