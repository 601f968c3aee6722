CONSTANTS
    deluxe = deluxe
    suite = suite
    r1 = r1
    r2 = r2
    r3 = r3
    NoRoom = NoRoom
    Types = {deluxe}
    Rooms = {r1, r2}
    TypeOf <- OneType
    Rank <- SortOrder
    Bookings = {b1, b2}
    LastNight = 2
    WebCarts <- NoCarts
    DeskCarts <- PickFirst
    Shoppers = {}
    Agents = {a1}
    Porters = {}
    Movers = {m1}
    Overriders = {}
    Clerks = {}
    PoolSize = 5
SPECIFICATION Spec
CHECK_DEADLOCK FALSE
SYMMETRY Symmetry
INVARIANTS
    AssignmentFollowsBooking
