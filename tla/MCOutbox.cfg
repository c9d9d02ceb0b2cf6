SPECIFICATION FairOutboxSpec
CONSTANTS
    w1 = w1
    w2 = w2
    t1 = t1
    t2 = t2
    Events = {1, 2}
    Workers <- MCWorkers
    Ticks <- MCTicks
    WorkerOf <- MCWorkerOf
    MaxAttempts = 2
    BatchSize = 2
INVARIANTS
    OutboxTypeOK
    AttemptsBounded
PROPERTIES
    ImplementsDelivery
    EveryEventIsSent
CHECK_DEADLOCK FALSE
