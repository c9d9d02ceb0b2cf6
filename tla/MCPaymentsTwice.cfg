SPECIFICATION PaymentsSpec
CONSTANTS
    o1 = o1
    r1 = r1
    c1 = c1
    OrderIds = {o1}
    Handlers = {h1, h2}
    Events = {e1}
    Roles = {}
    Methods = {"online"}
    Restaurants = {r1}
    RestaurantOf <- SoleRestaurantOf
    SubtotalOf <- SoleSubtotalOf
    Charges = {c1}
    OrderOf <- SoleOrderOf
    RequestedAmounts = {}
    RetriesInSession = FALSE
    BodyIsRaw = TRUE
    IntMax = 4
INVARIANT CreditedOnce
CHECK_DEADLOCK FALSE
