SPECIFICATION FairPaymentsSpec
CONSTANTS
    o1 = o1
    r1 = r1
    c1 = c1
    OrderIds = {o1}
    Handlers = {h1, h2}
    Events = {e1, e2}
    Roles = {"customer"}
    Methods = {"online"}
    Restaurants = {r1}
    RestaurantOf <- SoleRestaurantOf
    SubtotalOf <- SoleSubtotalOf
    Charges = {c1}
    OrderOf <- SoleOrderOf
    RequestedAmounts = {1, 3}
    RetriesInSession = TRUE
    BodyIsRaw = TRUE
    IntMax = 4
INVARIANTS
    SucceededOnlyIfConfirmed
    ConfirmedPaymentTakesEffect
    NoPaymentIsLost
    CreditsBounded
    RefundsBounded
PROPERTIES
    UnpaidIsResolved
    NoticesAreProcessed
CHECK_DEADLOCK FALSE
