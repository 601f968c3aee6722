CONSTANTS
    Staff = {s1}
    Hooks = {}
    Origins = 1
    Deposit = 1
    QrPh = {}
    Price = 1
    Fees = {0}
    Amounts = {1, 2}
    MaxRows = 3
    MaxRefunds = 2
SPECIFICATION Spec
SYMMETRY Symmetry
INVARIANTS
    RefundsStayRecorded
CHECK_DEADLOCK FALSE
