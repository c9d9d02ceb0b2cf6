SPECIFICATION ServiceSpec
CONSTANTS
    o1 = o1
    o2 = o2
    r1 = r1
    c1 = c1
    c2 = c2
    OrderIds = {o1, o2}
    Handlers = {h1}
    Events = {e1, e2}
    Roles = {"restaurant_user"}
    Methods = {"online", "cod"}
    Restaurants = {r1}
    RestaurantOf <- MCRestaurantOf
    SubtotalOf <- MCSubtotalOf
    Charges = {c1, c2}
    OrderOf <- MCOrderOf
    RequestedAmounts = {}
    RetriesInSession = FALSE
    BodyIsRaw = TRUE
    IntMax = 3
    DeliveryIds = {d1, d2}
    Agents = {a1}
    NoAgent = NoAgent
    MaxReassignments = 0
    RedisErrors = FALSE
    PayoutAmounts = {1}
SYMMETRY Symmetry
INVARIANTS
    ChecksNeverFail
CHECK_DEADLOCK FALSE
