CONSTANTS
    Tellers = {t1}
    Voiders = {}
    DeskVoiders = {}
    Closers = {c1, c2}
    Shifts = {}
    NoShift = NoShift
    Drawer = Drawer
    Bank = Bank
    LastDay = 1
    Amounts = {1}
    RequireShift = FALSE
    MaxMoves = 2
    MaxZs = 3
SPECIFICATION Spec
SYMMETRY Symmetry
INVARIANTS
    OneReadingPerClose
CHECK_DEADLOCK FALSE
