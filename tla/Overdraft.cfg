CONSTANTS
    Tellers = {t1, t2}
    Voiders = {}
    DeskVoiders = {}
    Closers = {}
    Shifts = {s1}
    NoShift = NoShift
    Drawer = Drawer
    Bank = Bank
    LastDay = 1
    Amounts = {1}
    RequireShift = FALSE
    MaxMoves = 5
    MaxZs = 0
SPECIFICATION Spec
SYMMETRY Symmetry
PROPERTY
    NoOverdraft
CHECK_DEADLOCK FALSE
