SPECIFICATION Spec
CONSTANTS
    u1 = u1
    u2 = u2
    p1 = p1
    b1 = b1
    c1 = c1
    t1 = t1
    x = x
    Users = {u1}
    Pools = {p1}
    Backstops = {b1}
    Comets = {c1}
    Tokens = {t1}
    Amounts = {x}
    None = None
    MaxChanges = 2
INVARIANTS
    BackstopTypeOK
    HalvesFollowChain
    EmissionsFollowChain
    DirtyBackstopsComplete
    StrategiesValueAlike
