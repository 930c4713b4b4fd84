SPECIFICATION Spec
CONSTANTS
    Runs = {}
    Starters = {s1}
    Closers = {k1, k2}
    Waiters = {}
    Dispatchers = {d1}
    Served = {"provider"}
    MaxConns = 2
PROPERTIES
    CloseTearsDown
