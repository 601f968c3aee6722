CONSTANTS
    Orders = {o1}
    NoOrder = NoOrder
    Movements = {m1, m2}
    NoMovement = NoMovement
    Charges = {c1, c2}
    NoCharge = NoCharge
    Stations = {k1, k2}
    Voiders = {v1}
    Undoers = {u1}
    Guests = {g1}
    Issuers = {i1}
    Refunders = {f1}
    Clearers = {q1}
    Total = 2
    Checkouts = 1
SPECIFICATION Spec
SYMMETRY Symmetry
INVARIANTS
    TypeOK
    BillAndOrderAgree
    MoneyIsShown
    ReadyIsCooked
CHECK_DEADLOCK FALSE
