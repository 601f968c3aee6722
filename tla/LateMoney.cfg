CONSTANTS
    NoSession = NoSession
    Lines = {l1}
    Sessions = {s1}
    Webhooks = {hook}
    Workers = {}
    Sweepers = {sweep}
    Guests = {guest}
    Desks = {}
    Clerks = {}
SPECIFICATION Spec
CHECK_DEADLOCK FALSE
PROPERTIES
    LateMoneyIsFlagged
