\* An instant and a scheduled message, or two signals with one key; no faults.
CONSTANTS
    i1 = i1
    s1 = s1
    s2 = s2
    g1 = g1
    g2 = g2
    k1 = k1
    c1 = c1
    c2 = c2
    Instant   = {i1}
    Scheduled = {s1}
    Signals   = {g1, g2}
    Keys      = {k1}
    NoKey     = NoKey
    NoItem    = NoItem
    Channels  = {c1}
    KeyOf     <- MCKeyOf
    Audience  <- MCAudience
    MaxQueue  = 1
    MaxFaults = 0
SPECIFICATION FairSpec
CONSTRAINT Mixed
PROPERTIES
    AcceptedIsHandled
    
CHECK_DEADLOCK FALSE
