SPECIFICATION Spec
CONSTANTS
    t1 = t1
    t2 = t2
    Txs = {t1, t2}
    NShops = 0
    NUsers = 1
INVARIANT
    NoDeadlock
