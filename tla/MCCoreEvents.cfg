SPECIFICATION FairMCSpec
CONSTANTS
    server = server
    worker = worker
    redis = redis
    role = role
    branch = branch
    product = product
    order = order
    Roles = {role}
    Branches = {branch}
    Products = {product}
    Orders = {order}
    Balances = {}
    Processes <- MCProcesses
    Servers <- MCServers
    Redis = redis
    Prefetch = 2
    EventIdInBody = FALSE
    MaxVersion = 3
INVARIANTS
    CoreEventsTypeOK
    OneHandlerPerMark
PROPERTIES
    EventsAreSettled
    StaleCopiesGo
CHECK_DEADLOCK FALSE
