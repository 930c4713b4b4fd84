SPECIFICATION Spec
CONSTANTS
    Messages = {m1, m2}
    Queues = {"provider", "action"}
    Closers = {k1}
    MaxConns = 2
    Prefetch = 1
SYMMETRY Symmetry
INVARIANTS
    TypeOK
    SettledMeansHandled
    SettledMeansAnswered
    NoDeliveryLeaks
    Accounted
PROPERTIES
    ImplementsQueue
