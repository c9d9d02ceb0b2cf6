SPECIFICATION CoreEventsSpec
CONSTANTS
    server = server
    worker = worker
    redis = redis
    role = role
    branch = branch
    product = product
    order = order
    Roles = {}
    Branches = {branch}
    Products = {}
    Orders = {}
    Balances = {}
    Processes <- MCProcesses
    Servers <- MCServers
    Redis = redis
    Prefetch = 2
    EventIdInBody = TRUE
    MaxVersion = 3
PROPERTIES
    DuplicateWasProcessed
CHECK_DEADLOCK FALSE
