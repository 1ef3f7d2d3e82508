\* Either the on-chain job and an admin's sync, or the scans and the reader of
\* the discovery, with one fault each, or two callers of the token search.
CONSTANTS
    WhaleThreshold = 50
    SmartScore = 80
    Tracked <- TwoTokens
    NoPool = {"Y"}
    Market <- Trades
    LiquidityOf <- Events
    Price <- Prices
    Instants = {0, 1, 2, 17}
    GeckoPage = 2
    DunePage = 3
    MaxPages = 2
    MaxRuns = 2
    MaxFaults = 1
    None = None
    Absent = Absent
    Listed <- Listings
    Providers <- Asked
    Chains = {"eth"}
    Refreshes <- Refreshing
    Readers = {r1}
    Asking <- Questions
    TtlTicks = 1
    KeepTicks = 1
    Ticks = 2
    MaxScans = 8
    MaxUpsets = 1
    Nothing = Nothing
    Searchable <- Known
    Searches <- Searching
    Callers = {1, 2}
    MaxSelections = 1
    Unknown = Unknown
CHECK_DEADLOCK FALSE
SPECIFICATION Spec
CONSTRAINT Few
ACTION_CONSTRAINTS TimePasses ClockPasses
INVARIANTS
    EveryTradeWasStored
    
    EveryTokenIsTried
    
    ScansAreWhole
    RegistryForgetsNothing
PROPERTIES
    SnapshotsGoForward
