\* Four solvers of one challenge race for three places, each alone or in the
\* team; a team competition whose mode is fixed, and nothing fails.
SPECIFICATION Spec
CONSTANTS
    u1 = u1
    u2 = u2
    u3 = u3
    u4 = u4
    t1 = t1
    r1 = r1
    r2 = r2
    Users = {u1, u2, u3, u4}
    Teams = {t1}
    NoTeam = NoTeam
    Modes = {"team"}
    Readers = {}
    Faults = {}
    MaxChanges = 0
SYMMETRY Interchangeable
INVARIANTS
    TypeOK
    PassedOverForCause
PROPERTIES
    ImplementsBoard
CHECK_DEADLOCK FALSE
