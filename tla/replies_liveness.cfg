SPECIFICATION PatientSpec
CONSTANTS
    Calls = {c1, c2}
    Closers = {k1}
    MaxConns = 1
    MaxReplies = 2
INVARIANTS
    TypeOK
PROPERTIES
    EveryInvokeReturns
    CloseReleasesCalls
    RepliesKeepFlowing
    FirstReplyWins
