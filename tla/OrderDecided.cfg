CONSTANTS
    NoSession = NoSession
    Lines = {l1, l2}
    Sessions = {s1}
    Webhooks = {hook}
    Workers = {}
    Sweepers = {sweep}
    Guests = {guest}
    Desks = {desk}
    Clerks = {c1, c2}
SPECIFICATION Spec
SYMMETRY Symmetry
CHECK_DEADLOCK FALSE
INVARIANTS
    LinesAgree
    ConfirmedIsBacked
PROPERTIES
    KeepsPromise
