CONSTANTS
    Tellers = {t1}
    Voiders = {}
    DeskVoiders = {v1}
    Closers = {c1, c2}
    Shifts = {}
    NoShift = NoShift
    Drawer = Drawer
    Bank = Bank
    LastDay = 2
    Amounts = {1}
    RequireShift = FALSE
    MaxMoves = 1
    MaxZs = 3
SPECIFICATION Spec
SYMMETRY Symmetry
INVARIANTS
    ZsChain
CHECK_DEADLOCK FALSE
