SPECIFICATION FairSpec
CONSTANTS
    Runs = {r1}
    Starters = {r1, s1}
    Closers = {r1, k1}
    Waiters = {r1}
    Dispatchers = {}
    Served = {"provider"}
    MaxConns = 2
PROPERTIES
    ConsumersStop
    WaitersWake
    RunReturns
