SPECIFICATION ServiceSpec
CONSTANTS
    o1 = o1
    o2 = o2
    r1 = r1
    c1 = c1
    c2 = c2
    OrderIds = {o1}
    Handlers = {h1}
    Events = {e1, e2}
    Roles = {"restaurant_user", "system_admin"}
    Methods = {"online", "cod"}
    Restaurants = {r1}
    RestaurantOf <- SoleRestaurantOf
    SubtotalOf <- SoleSubtotalOf
    Charges = {c1, c2}
    OrderOf <- SessionsOrderOf
    RequestedAmounts = {}
    RetriesInSession = FALSE
    BodyIsRaw = TRUE
    IntMax = 4
    DeliveryIds = {d1, d2}
    Agents = {a1}
    NoAgent = NoAgent
    MaxReassignments = 1
    RedisErrors = FALSE
    PayoutAmounts = {2}
SYMMETRY SessionSymmetry
INVARIANTS
    DeliveredOnlyIfPaid
    AvailableIsSettled
    DeliveryMatchesOrder
    ReassignmentsBounded
PROPERTIES
    ClosedDeliveriesAreFinal
    SettledOnce
CHECK_DEADLOCK FALSE
