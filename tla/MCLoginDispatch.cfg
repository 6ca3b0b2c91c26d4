SPECIFICATION FairSpec
CONSTANTS
    u1 = u1
    b1 = b1
    t1 = t1
    w1 = w1
    w2 = w2
    Nobody = Nobody
    Ended = Ended
    Users = {u1}
    Browsers = {b1}
    Txs = {t1}
    Workers = {w1, w2}
    MaxAttempts = 1
    BatchSize = 1
    MaxChallenges = 1
    MaxLinks = 1
    MaxStops = 1
    MaxLosses = 1
INVARIANT
    SentOnce
PROPERTY
    DispatchesSettle
CHECK_DEADLOCK FALSE
