\* One session at a time.
CONSTANTS
    Ids = {i1, i2, i3}
    Requests = {r1}
    Prices <- MCPrices
    Payloads <- AllPayloads
    MaxQty = 2
    FeePercent = 1
    MaxBusy = 1
    None = None
SPECIFICATION FairSpec
PROPERTIES
    StopFires
CHECK_DEADLOCK FALSE
