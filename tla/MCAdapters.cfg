CONSTANTS
    None = None
    Pairs = {pair}
    Holders = {g, h}
    Shares = {0, 7}
    Contents = {c, d}
    SeededPairs = {}
    Accounts = {a, b}
    Denominations = {usd}
    VaultAmounts = {x, y}
    Pools = {pool}
    Owners = {o}
    Ranges = {range}
    Amounts = {0, 7}
    Supplies = {50}
    SeededOwners = {o}
    SeedAmount = 9
    SeedReward = 5
    UserRemovals = FALSE
    HostRetells = TRUE
    MaxRestarts = 1
    MaxPairChanges = 3
    MaxVaultChanges = 2
    MaxPoolChanges = 2
SPECIFICATION Spec
INVARIANTS
    AdaptersTypeOK
    PositionsFollowChain
    ClosedPositionsEmitTombstones
    VaultsFollowChain
    AmountsFollowChain
    RewardsFollowChain
    PoolsFollowChain
    ClosedRowsEmitTombstones
PROPERTIES
    DirtyPositionsComplete
    DirtyVaultsComplete
CHECK_DEADLOCK FALSE
