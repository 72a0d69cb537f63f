\* One reader, two users, two challenges: what a board is worth while solves and
\* changes come in, and that it settles when they have ended.
SPECIFICATION FairSpec
CONSTANTS
    u1 = u1
    u2 = u2
    t1 = t1
    c1 = c1
    c2 = c2
    r1 = r1
    r2 = r2
    Readers = {r1}
    Users = {u1, u2}
    Challenges = {c1, c2}
    Teams = {t1}
    NoTeam = NoTeam
    TeamOf <- Mates
    Mode = "individual"
    Points <- MCPoints
    Places = 1
    MaxSolves = 2
    MaxSeconds = 1
    MaxTroubles = 1
INVARIANTS
    TypeOK
    
    
PROPERTIES
    BoardsSettle
CHECK_DEADLOCK FALSE
