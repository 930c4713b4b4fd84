SPECIFICATION Spec
CONSTANTS
    Calls = {c1}
    Closers = {k1}
    MaxConns = 1
    MaxReplies = 1
INVARIANTS
    ClosedInvokesFail
