SPECIFICATION Spec
CONSTANTS
    d1 = d1
    d2 = d2
    Debts <- MCDebts
    OriginalAmount <- MCOriginal
    DiscountedAmount <- MCDiscounted
    DueDate <- MCDueDate
    BonusDebts <- MCDebts
    MaxDay = 2
    MaxRevision <- MCMaxRevision
    StartScores <- MCStartScores
    ListSize = 1
INVARIANTS
    RatingHistoryAccepted
    VoidSourceProvable
    SourcesCoherent
    RewardsMatchLedger
    HistoryIsAStack
    KeysExplainEffects
    AuditTrailUnbroken
    NoBonusFarming
    PagesCompose
    PagesOfferWhatIsAccepted
PROPERTIES
    RefinesLifecycle
    ReceiptsNeverChange
CHECK_DEADLOCK FALSE
