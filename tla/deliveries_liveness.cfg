SPECIFICATION FairSpec
CONSTANTS
    Messages = {m1, m2}
    Queues = {"provider"}
    Closers = {k1}
    MaxConns = 2
    Prefetch = 1
PROPERTIES
    EveryMessageSettles
