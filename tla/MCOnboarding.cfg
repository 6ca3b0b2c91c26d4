SPECIFICATION Spec
CONSTANTS
    v1 = v1
    v2 = v2
    None = None
    Versions = {v1, v2}
    First = v1
    MaxFiles = 2
    MaxRuns = 1
    MaxEdits = 2
    MaxActs = 4
INVARIANTS
    RowsTruthful
    DocumentsStored
    ActiveAsConfirmed
    PagesGuideOnboarding
PROPERTIES
    ReplacesWhatWasSeen
    ActivatesOnCurrentOffer
CHECK_DEADLOCK FALSE
