\* One token, two concurrent requests that carry it, two people who want
\* the same name.
CONSTANTS
    Keys = {t1}
    Vacant = Vacant
    TTL = 2
    Delay = 1
    Requests = {r1, r2}
    Visitors = {v1, v2}
    Names = {"n1"}
    Passwords = {"p1", "p2"}
    Life = 2
    Timeout = 1
SPECIFICATION FairSpec
INVARIANTS
    TypeOK
    RegisteredLogIn
PROPERTIES
    LiveEntriesStay
    ImplementsGate
    NothingLingers
