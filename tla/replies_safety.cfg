SPECIFICATION Spec
CONSTANTS
    Calls = {c1, c2}
    Closers = {k1, k2}
    MaxConns = 2
    MaxReplies = 1
SYMMETRY Symmetry
INVARIANTS
    PendingExact
    CorrelatedReply
    ReplyLoopAlive
    NoOrphanConnection
    CurrentConnection
PROPERTIES
    ImplementsContract
