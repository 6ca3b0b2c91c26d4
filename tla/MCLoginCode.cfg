SPECIFICATION Spec
CONSTANTS
    u1 = u1
    b1 = b1
    t1 = t1
    t2 = t2
    w1 = w1
    Nobody = Nobody
    Ended = Ended
    Users = {u1}
    Browsers = {b1}
    Txs = {t1, t2}
    Workers = {w1}
    MaxAttempts = 2
    BatchSize = 1
    MaxChallenges = 2
    MaxLinks = 2
    MaxStops = 0
    MaxLosses = 0
SYMMETRY MCSymmetry
INVARIANTS
    CodesFollowLink
    DispatchFollowsChallenge
    LoginsExplained
    GuessesBounded
PROPERTY
    EndsAreFinal
CHECK_DEADLOCK FALSE
