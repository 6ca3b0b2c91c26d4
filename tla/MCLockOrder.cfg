SPECIFICATION OrderedSpec
CONSTANTS
    t1 = t1
    t2 = t2
    Txs = {t1, t2}
    NShops = 2
    NUsers = 2
INVARIANTS
    Undisturbed
    NoDeadlock
SYMMETRY TxSymmetry
