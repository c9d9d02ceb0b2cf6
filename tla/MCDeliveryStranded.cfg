SPECIFICATION DeliverySpec
CONSTANTS
    OrderIds = {o1}
    Handlers = {h1}
    Roles = {"restaurant_user"}
    Methods = {"cod"}
    DeliveryIds = {d1, d2}
    Agents = {a1, a2}
    NoAgent = NoAgent
    MaxReassignments = 1
    RedisErrors = TRUE
SYMMETRY Symmetry
INVARIANTS
    ReassignmentGoesOn
CHECK_DEADLOCK FALSE
