SPECIFICATION Spec
CONSTANTS
    None = None
    a0 = a0
    a1 = a1
    Pools = {p}
    Users = {u}
    Assets = {a0, a1}
    AuctionTypes = {0}
    Tokens = {0, 1}
    IndexOf <- MCIndexOf
    Terms = {t1, t2}
    Amounts = {v, w}
    Versions = {1, 2}
    Scopes <- MCScopes
    MaxChanges = 2
INVARIANTS
    TemporaryTypeOK
    TransitionsExact
    LifecycleFollowsChain
    EmissionsFollowEntries
    UserEmissionsAttributed
