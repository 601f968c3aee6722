CONSTANTS
    NoSession = NoSession
    Lines = {l1}
    Sessions = {s1}
    Webhooks = {}
    Workers = {}
    Sweepers = {}
    Guests = {}
    Desks = {desk}
    Clerks = {c1}
SPECIFICATION Spec
CHECK_DEADLOCK FALSE
PROPERTIES
    PaidCancellationSettles
