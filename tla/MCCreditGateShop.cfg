SPECIFICATION Spec
CONSTANTS
    A = A
    a1 = a1
    a2 = a2
    t1 = t1
    t2 = t2
    Txs = {t1, t2}
    Shops = {A}
    Debts = {a1, a2}
    ShopOf <- MCShopOf
    OriginalAmount <- MCOriginal
    DiscountedAmount <- MCDiscounted
    DueDate <- MCDueDate
    Policies <- MCPolicies
    FirstPolicy <- MCFirstPolicy
    PendingTTL = 1
    MaxNow = 2
    BusinessDate <- MCSameDay
SYMMETRY MCSymmetry
PROPERTY LimitsHoldAtCreation
CHECK_DEADLOCK FALSE
