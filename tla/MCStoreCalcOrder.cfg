SPECIFICATION Spec
CONSTANTS
    Null = Null
    IdentityOnlyKeys = {9}
    MaxMoneyMinor = 40
    MaxQuantity = 3
    MaxAggregateCount = 4
    PpmDenominator = 10
    MaxRows = 4
    Drafts <- MCDrafts
    Funds <- MCFunds
    MaxAdded = 5
INVARIANTS
    SealedContentProjects
    RowOrderIsIrrelevant
    TotalsAreExact
    CompleteMeansNothingIsOpen
    PassingKeepsEveryLimit
PROPERTIES
    ExceededStaysExceeded
CHECK_DEADLOCK FALSE
