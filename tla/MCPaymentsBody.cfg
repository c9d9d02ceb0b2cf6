SPECIFICATION FairPaymentsSpec
CONSTANTS
    o1 = o1
    r1 = r1
    c1 = c1
    OrderIds = {o1}
    Handlers = {h1}
    Events = {e1}
    Roles = {"customer"}
    Methods = {"online"}
    Restaurants = {r1}
    RestaurantOf <- SoleRestaurantOf
    SubtotalOf <- SoleSubtotalOf
    Charges = {c1}
    OrderOf <- SoleOrderOf
    RequestedAmounts = {}
    RetriesInSession = TRUE
    BodyIsRaw = FALSE
    IntMax = 4
PROPERTY NoticesAreProcessed
CHECK_DEADLOCK FALSE
