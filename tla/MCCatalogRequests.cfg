SPECIFICATION RequestSpec
CONSTANTS
    None = None
    Null = Null
    IdentityOnlyKeys = {}
    MaxMoneyMinor = 9
    MaxQuantity = 3
    MaxAggregateCount = 9
    PpmDenominator = 10
    MaxRows = 2
    Versions = {1, 2}
    Contents = {"plain", "untaxed"}
    Rows <- MCRows
    ContentHash <- MCContentHash
    EffectiveDate <- MCEffectiveDate
    Assignments = {1, 2}
    Schedules <- MCSchedules
    Claims <- MCClaims
    Days = {1, 2}
    Sessions = {}
    Statuses <- MCStatuses
    MaxTime = 1
    MaxPublications = 2
    MaxClaims = 2
INVARIANTS
    PublicationsAreAChain
    ResolutionIsUnambiguous
    ResolvedCanBeLoaded
    AnsweredAsShown
