\* Two partial closes overlap.
CONSTANTS
    Ids = {i1, i2, i3}
    Requests = {r1, r2}
    Prices <- MCPrices
    Payloads <- MarketOnly
    MaxQty = 2
    FeePercent = 1
    MaxBusy = 3
    None = None
SYMMETRY Symmetry
SPECIFICATION Spec
INVARIANTS
    QuantityConserved
CHECK_DEADLOCK FALSE
