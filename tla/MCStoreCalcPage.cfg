SPECIFICATION Spec
CONSTANTS
    Null = Null
    Text = Text
    IdentityOnlyKeys = {}
    MaxMoneyMinor = 20
    MaxQuantity = 3
    MaxAggregateCount = 9
    PpmDenominator = 10
    MaxRows = 3
    MaxCatalogs = 2
    LastDay = 4
    Scope = 1
    Today = 2
    MaxDeploys = 1
    Catalogs <- MCCatalogs
    TypedFunds <- MCTypedFunds
INVARIANTS
    PageAndServerAgree
    RepliesFit
    VisibleResultIsCurrent
PROPERTIES
    CalculationEnds
