\* Three requests of any kind about one challenge, hint or notification.
CONSTANTS
    r1 = r1
    r2 = r2
    r3 = r3
    Requests = {r1, r2, r3}
    Texts = {"a", "b"}
    Bad = "bad"
SPECIFICATION Spec
SYMMETRY Interchangeable
INVARIANTS
    TypeOK
    UpdatesHold
    AnswersAreTrue
PROPERTIES
    DeletedIsFinal
CHECK_DEADLOCK FALSE
