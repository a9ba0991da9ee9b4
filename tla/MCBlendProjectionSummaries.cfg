CONSTANTS
    Users = {u}
    Pools = {p, q}
    Assets = {a}
    BackedPools = {p}
    VolatilePools = {q}
    Backstop = Backstop
    None = None
    MaxChanges = 2
SPECIFICATION FairSpec
PROPERTIES
    ProjectedSummariesAreWhole
