CONSTANTS
    Staff = {s1, s2}
    Hooks = {k1}
    Origins = 2
    Deposit = 1
    QrPh = {2}
    Price = 2
    Fees = {0, 1}
    Amounts = {1}
    MaxRows = 2
    MaxRefunds = 2
SPECIFICATION Spec
SYMMETRY Symmetry
INVARIANTS
    TypeOK
    SettledOnce
    RefundsAreReal
    LeavesOnce
PROPERTIES
    EndSettlesFolio
CHECK_DEADLOCK FALSE
