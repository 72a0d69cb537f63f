\* Every view, one reader: what is stored while submissions and changes come in.
SPECIFICATION FairSpec
CONSTANTS
    u1 = u1
    u2 = u2
    t1 = t1
    c1 = c1
    c2 = c2
    Readers = {r1}
    Views = {"overview", "categories", "users", "challenges"}
    Users = {u1, u2}
    Teams = {t1}
    NoTeam = NoTeam
    TeamOf <- Mates
    Challenges = {c1, c2}
    Category <- TwoKinds
    Points <- TwoPoints
    MaxRows = 2
    MaxChanges = 1
    MaxFaults = 1
INVARIANTS
    TypeOK
    OverviewAddsUp
    FiguresAgree
PROPERTIES
    ViewsSettle
CHECK_DEADLOCK FALSE
