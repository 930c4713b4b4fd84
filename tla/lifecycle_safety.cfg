SPECIFICATION Spec
CONSTANTS
    Runs = {r1}
    Starters = {r1, s1}
    Closers = {r1, k1}
    Waiters = {r1}
    Dispatchers = {d1}
    Served = {"provider", "action"}
    MaxConns = 2
INVARIANTS
    TypeOK
    NoAbandonedWaiter
    NoDeafConsumer
    LifecycleTellsTheTruth
    OneConsumerPerQueue
