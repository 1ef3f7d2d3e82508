\* Two close requests and the ticker check overlap on up to three rows.
CONSTANTS
    Ids = {i1, i2, i3}
    Requests = {r1, r2}
    Prices <- MCPrices
    Payloads <- AllPayloads
    MaxQty = 2
    FeePercent = 1
    MaxBusy = 3
    None = None
SYMMETRY Symmetry
SPECIFICATION Spec
INVARIANTS
    NothingIsLost
    
CHECK_DEADLOCK FALSE
