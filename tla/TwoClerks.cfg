CONSTANTS
    NoSession = NoSession
    Lines = {l1, l2}
    Sessions = {s1}
    Webhooks = {}
    Workers = {}
    Sweepers = {}
    Guests = {}
    Desks = {}
    Clerks = {c1, c2}
SPECIFICATION Spec
CHECK_DEADLOCK FALSE
INVARIANTS
    OrderDiesWithItsLines
