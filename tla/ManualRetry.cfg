CONSTANTS
    NoSession = NoSession
    Lines = {l1, l2}
    Sessions = {s1}
    Webhooks = {}
    Workers = {}
    Sweepers = {}
    Guests = {}
    Desks = {desk}
    Clerks = {}
SPECIFICATION Spec
CHECK_DEADLOCK FALSE
INVARIANTS
    ManualConfirmCanBeRetried
