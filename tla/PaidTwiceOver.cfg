CONSTANTS
    Staff = {s1, s2}
    Hooks = {}
    Origins = 1
    Deposit = 1
    QrPh = {}
    Price = 2
    Fees = {0}
    Amounts = {1, 2}
    MaxRows = 3
    MaxRefunds = 2
SPECIFICATION Spec
SYMMETRY Symmetry
PROPERTIES
    PaymentWithinBalance
CHECK_DEADLOCK FALSE
