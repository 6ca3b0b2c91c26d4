SPECIFICATION Spec
CONSTANTS
    OriginalAmount = 4
    DiscountedAmount = 3
    DueDate = 1
    PendingTTL = 2
    MaxNow = 7
    MaxRevision = 9
    BusinessDate <- MCBusinessDate
INVARIANTS LedgerCoherent RowLoads
PROPERTY EvidencePermanent
CHECK_DEADLOCK FALSE
