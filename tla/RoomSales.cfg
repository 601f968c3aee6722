CONSTANTS
    deluxe = deluxe
    suite = suite
    r1 = r1
    r2 = r2
    r3 = r3
    NoRoom = NoRoom
    Types = {deluxe, suite}
    Rooms = {r1, r2, r3}
    TypeOf <- TwoTypes
    Rank <- SortOrder
    Bookings = {b1, b2, b3, b4}
    LastNight = 2
    WebCarts <- WebMix
    DeskCarts <- DeskMix
    Shoppers = {s1, s2}
    Agents = {a1}
    Porters = {}
    Movers = {}
    Overriders = {}
    Clerks = {}
    PoolSize = 4
SPECIFICATION FairSpec
CHECK_DEADLOCK FALSE
INVARIANTS
    TypeOK
    NoOverbooking
    SomebodyMoves
PROPERTIES
    SaleEnds
