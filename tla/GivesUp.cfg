CONSTANTS
    NoSession = NoSession
    Lines = {l1}
    Sessions = {s1, s2}
    Webhooks = {}
    Workers = {worker}
    Sweepers = {}
    Guests = {guest}
    Desks = {}
    Clerks = {}
SPECIFICATION Spec
INVARIANTS
    NeverGivesUp
