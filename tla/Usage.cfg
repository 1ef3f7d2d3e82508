\* Three requests of an owner, a stranger or an administrator; and scripts that
\* trade, compute and fail, over one to three bars.
CONSTANTS
    Requests = {1, 2, 3}
    Users = {"owner", "stranger", "admin"}
    Admins = {"admin"}
    Tiers = {"free", "pro"}
    Limits <- AllLimits
    Owner = "owner"
    Sources = {"s1", "s2"}
    First = "s1"
    MaxVersions = 3
    CacheMinutes = 2
    MaxTime = 4
    MaxAnalyses = 2
    None = None
    NoPrice = NoPrice
    ShortLabels <- MCShort
    Programs <- MCPrograms
    CandleSets <- MCCandles
    MaxScriptLen = 8
    MaxBars = 4
    YieldEvery = 2
CHECK_DEADLOCK FALSE
SPECIFICATION Spec
INVARIANTS
    EveryUseIsCounted
    
    NothingHalfDone
    
    
    BacktestAgrees
    
    CacheKeepsCallsApart
