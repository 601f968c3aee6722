CONSTANTS
    Orders = {o1}
    NoOrder = NoOrder
    Movements = {m1, m2}
    NoMovement = NoMovement
    Charges = {c1, c2}
    NoCharge = NoCharge
    Stations = {k1, k2}
    Voiders = {v1}
    Undoers = {u1}
    Guests = {}
    Issuers = {i1}
    Refunders = {}
    Clearers = {}
    Total = 2
    Checkouts = 1
SPECIFICATION Spec
SYMMETRY Symmetry
INVARIANT
    ReceiptHasMoney
CHECK_DEADLOCK FALSE
