SPECIFICATION FairMCSpec
CONSTANTS
    OrderIds = {o1}
    Handlers = {h1}
    Roles = {"restaurant_user"}
    Methods = {"cod"}
    Agents = {a1, a2}
    NoAgent = NoAgent
    Ticks = {t1, t2}
    MaxAttempts = 1
    Candidates = 2
    BatchSize = 1
INVARIANTS
    AssignmentTypeOK
PROPERTIES
    WinnerKeepsOrder
    OfferStands
    ReadyIsOffered
CHECK_DEADLOCK FALSE
