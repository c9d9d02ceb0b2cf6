SPECIFICATION ServiceSpec
CONSTANTS
    o1 = o1
    o2 = o2
    r1 = r1
    c1 = c1
    c2 = c2
    OrderIds = {o1}
    Handlers = {h1, h2}
    Events = {e1}
    Roles = {"customer", "restaurant_user"}
    Methods = {"online", "cod"}
    Restaurants = {r1}
    RestaurantOf <- SoleRestaurantOf
    SubtotalOf <- SoleSubtotalOf
    Charges = {c1}
    OrderOf <- SoleChargeOf
    RequestedAmounts = {}
    RetriesInSession = FALSE
    BodyIsRaw = TRUE
    IntMax = 2
    DeliveryIds = {d1, d2, d3}
    Agents = {a1}
    NoAgent = NoAgent
    MaxReassignments = 0
    RedisErrors = TRUE
    PayoutAmounts = {2}
SYMMETRY Symmetry
INVARIANTS
    ServiceTypeOK
    Conservation
    PaidBeforeKitchen
    AcceptedBeforeKitchen
    ActiveDeliveriesBounded
CHECK_DEADLOCK FALSE
