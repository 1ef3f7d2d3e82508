\* An instant and a scheduled message, two signals with one key, or a scheduled
\* message to two channels; two faults.
CONSTANTS
    i1 = i1
    s1 = s1
    s2 = s2
    g1 = g1
    g2 = g2
    k1 = k1
    c1 = c1
    c2 = c2
    Instant   = {i1}
    Scheduled = {s1, s2}
    Signals   = {g1, g2}
    Keys      = {k1}
    NoKey     = NoKey
    NoItem    = NoItem
    Channels  = {c1, c2}
    KeyOf     <- MCKeyOf
    Audience  <- MCAudience
    MaxQueue  = 1
    MaxFaults = 2
SPECIFICATION Spec
CONSTRAINT Mixed
INVARIANTS
    QueueItemsCommitted
    SuccessWasDelivered
    DuplicateNeedsFault
    
CHECK_DEADLOCK FALSE
