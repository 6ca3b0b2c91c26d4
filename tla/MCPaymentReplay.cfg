SPECIFICATION Spec
CONSTANTS
    d1 = d1
    d2 = d2
    Debts <- MCDebts
    OriginalAmount <- MCOriginal
    DiscountedAmount <- MCDiscounted
    DueDate <- MCDueDate
    BonusDebts <- MCDebts
    MaxDay = 2
    MaxRevision <- MCMaxRevision
    StartScores <- MCStartScores
    ListSize = 1
INVARIANT
    CompletedPaymentReplays
CHECK_DEADLOCK FALSE
