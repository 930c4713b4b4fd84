SPECIFICATION Spec
CONSTANTS
    Runs = {}
    Starters = {s1}
    Closers = {k1}
    Waiters = {}
    Dispatchers = {}
    Served = {"provider"}
    MaxConns = 1
PROPERTIES
    StartServes
