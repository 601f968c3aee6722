CONSTANTS
    NoSession = NoSession
    Lines = {l1}
    Sessions = {s1, s2}
    Webhooks = {hook}
    Workers = {worker}
    Sweepers = {}
    Guests = {guest}
    Desks = {}
    Clerks = {}
SPECIFICATION FairSpec
INVARIANTS
    TypeOK
    RecordedOnce
    PaidHasRow
    PaidAttemptIsRecorded
PROPERTIES
    WatchedIsRecorded
