CONSTANTS
    Users = {u}
    Pools = {p, q}
    Assets = {a}
    BackedPools = {p}
    VolatilePools = {q}
    Backstop = Backstop
    None = None
    MaxChanges = 1
SPECIFICATION FairSpec
INVARIANTS
    ProjectionTypeOK
PROPERTIES
    ViewFollowsState
    StaleButSafe
    SelfHeals
