SPECIFICATION Spec
CONSTANTS
    A = A
    B = B
    a1 = a1
    b1 = b1
    t1 = t1
    t2 = t2
    Txs = {t1, t2}
    Shops = {A, B}
    Debts = {a1, b1}
    ShopOf <- MCShopOf
    OriginalAmount <- MCOriginal
    DiscountedAmount <- MCDiscounted
    DueDate <- MCDueDate
    Policies <- MCPolicies
    FirstPolicy <- MCFirstPolicy
    PendingTTL = 1
    MaxNow = 2
    BusinessDate <- MCSameDay
SYMMETRY MCSymmetry
PROPERTIES NoCreditWhileBlocked DecidedOnce
CHECK_DEADLOCK FALSE
