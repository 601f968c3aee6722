CONSTANTS
    s1 = s1
    s2 = s2
    NoSeries = NoSeries
    NoSubject = NoSubject
    Series = {s1, s2}
    From <- FromOne
    Start <- StartAt
    Last <- LastAt
    Subjects = {x1}
    Issuers = {i1}
    Spoilers = {i1}
    Cancellers = {c1, c2}
    HandStatuses = {"active", "superseded"}
SPECIFICATION Spec
SYMMETRY Symmetry
INVARIANTS
    TypeOK
    SerialsAccounted
    OneInForce
    ReplacementIsLater
    RegisterIsComplete
PROPERTIES
    KeepsBook
