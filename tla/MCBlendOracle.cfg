CONSTANTS
    None = None
    Pools = {p}
    Mocks = {o}
    Aggregators = {a}
    FeedIndices = {0}
    Indices = {0, 1}
    Prices = {4, 6}
    MockPrices = {0, 6}
    Deviations = {0, 40}
    Scale = 5
    One = 3
    Resolution = 2
    MaxAge = 3
    MaxCarried = 3
    Scopes = {"feeds", "mocks"}
    MaxTime = 9
    MaxFeedChanges = 1
    MaxMockChanges = 2
SPECIFICATION Spec
INVARIANTS
    OracleTypeOK
    PriceIsTheAggregators
PROPERTY PriceWritesReported
CHECK_DEADLOCK FALSE
