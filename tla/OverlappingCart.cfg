CONSTANTS
    deluxe = deluxe
    suite = suite
    r1 = r1
    r2 = r2
    r3 = r3
    NoRoom = NoRoom
    Types = {deluxe}
    Rooms = {r1}
    TypeOf <- OneType
    Rank <- SortOrder
    Bookings = {b1, b2}
    LastNight = 2
    WebCarts <- Overlapping
    DeskCarts <- NoCarts
    Shoppers = {s1}
    Agents = {}
    Porters = {}
    Movers = {}
    Overriders = {}
    Clerks = {}
    PoolSize = 5
SPECIFICATION Spec
CHECK_DEADLOCK FALSE
SYMMETRY Symmetry
INVARIANTS
    NoOverbooking
