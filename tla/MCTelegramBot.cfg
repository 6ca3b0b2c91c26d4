SPECIFICATION FairSpec
CONSTANTS
    u1 = u1
    u2 = u2
    c1 = c1
    w1 = w1
    w2 = w2
    Nobody = Nobody
    Users = {u1, u2}
    Chats = {c1}
    Workers = {w1, w2}
    MaxTokens = 2
    MaxFailures = 2
    MaxUpdates = 2
    MaxTrouble = 1
    MaxLosses = 1
INVARIANTS
    EffectsOnce
    LinksProven
PROPERTY
    HandlesInOrder
CHECK_DEADLOCK FALSE
