CONSTANTS
    None = None
    Pools = {p}
    Assets = {a, b}
    Indexes = {0, 1}
    Mocks = {o}
    Sources = {g}
    PriceIndexes = {0, 1}
    Prices = {v, w}
    Contents = {x, y}
    Backstops = {r, s}
    Rates = {e}
    Scopes = {"links", "reserves", "oracles"}
    MaxChanges = 2
    MaxRestarts = 1
SYMMETRY Symmetry
SPECIFICATION Spec
INVARIANTS
    ConfigTypeOK
    HydratedConfigIsLive
    HydratedReservesFollowChain
    HydratedPricesAreLive
