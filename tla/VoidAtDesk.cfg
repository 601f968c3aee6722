CONSTANTS
    Tellers = {t1}
    Voiders = {}
    DeskVoiders = {v1}
    Closers = {}
    Shifts = {}
    NoShift = NoShift
    Drawer = Drawer
    Bank = Bank
    LastDay = 1
    Amounts = {1}
    RequireShift = FALSE
    MaxMoves = 2
    MaxZs = 0
SPECIFICATION Spec
SYMMETRY Symmetry
INVARIANTS
    LedgerKeepsUp
CHECK_DEADLOCK FALSE
